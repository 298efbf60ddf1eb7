------------------------------ MODULE FileLock ------------------------------
(***************************************************************************)
(* Per-file mutual exclusion, src/src/services/file-lock.ts.  A map from   *)
(* paths to lock entries; an entry is a one-permit semaphore and a count   *)
(* of the calls that refer to it, and the last of them drops it from the   *)
(* map.  A call keeps its reference across the await, so what it holds and *)
(* what the map says could differ.  The steps on the semaphore are those   *)
(* of Semaphore.tla; it has no timeout here, so acquire() never throws and *)
(* its catch block is not reached.                                         *)
(***************************************************************************)
EXTENDS Integers, FiniteSets, SequencesExt

CONSTANTS
  Calls,        \* the withFileLock() calls that can be in flight at once
  Paths,        \* the keys
  Entries,      \* the LockEntry objects; one per call in flight is enough
  None,         \* undefined
  Watched       \* any one path, the one that ImplementsLock speaks of

ASSUME CallsAssumption == IsFiniteSet(Calls)
ASSUME NoneAssumption == None \notin Entries \cup Paths
ASSUME WatchedAssumption == Watched \in Paths

VARIABLES
  locks,        \* the map: an entry for every path, or None
  counter,      \* entry.semaphore's counter
  queue,        \* entry.semaphore's wait queue
  waiters,      \* entry.waiters
  at,           \* where each call is: "idle", "waiting" for the permit, or
                \* "inside" fn
  key,          \* the argument of each call in flight
  entry         \* the local reference of each call in flight

vars == <<locks, counter, queue, waiters, at, key, entry>>

Users(e)  == {c \in Calls : entry[c] = e}
Inside(k) == {c \in Calls : at[c] = "inside" /\ key[c] = k}

\* The objects that nothing refers to, one of which `new` returns.
Fresh == {e \in Entries : Users(e) = {} /\ \A k \in Paths : locks[k] # e}

Init ==
  /\ locks = [k \in Paths |-> None]
  /\ counter = [e \in Entries |-> 1]
  /\ queue = [e \in Entries |-> <<>>]
  /\ waiters = [e \in Entries |-> 0]
  /\ at = [c \in Calls |-> "idle"]
  /\ key = [c \in Calls |-> None]
  /\ entry = [c \in Calls |-> None]

Refer(c, k, e) ==
  /\ key' = [key EXCEPT ![c] = k]
  /\ entry' = [entry EXCEPT ![c] = e]

\* The first call for a path makes the entry and takes its permit at once.
EnterNew(c, k) ==
  /\ at[c] = "idle"
  /\ locks[k] = None
  /\ \E e \in Fresh :
       /\ locks' = [locks EXCEPT ![k] = e]
       /\ counter' = [counter EXCEPT ![e] = 0]
       /\ queue' = [queue EXCEPT ![e] = <<>>]
       /\ waiters' = [waiters EXCEPT ![e] = 1]
       /\ Refer(c, k, e)
  /\ at' = [at EXCEPT ![c] = "inside"]

\* entry.semaphore.acquire() by call c: the permit, or the end of the queue.
Acquire(c, e) ==
  IF counter[e] > 0
    THEN /\ counter' = [counter EXCEPT ![e] = @ - 1]
         /\ at' = [at EXCEPT ![c] = "inside"]
         /\ UNCHANGED queue
    ELSE /\ queue' = [queue EXCEPT ![e] = Append(@, c)]
         /\ at' = [at EXCEPT ![c] = "waiting"]
         /\ UNCHANGED counter

\* A later call finds the entry, counts itself, and asks for the permit.
EnterAgain(c, k) ==
  /\ at[c] = "idle"
  /\ locks[k] # None
  /\ waiters' = [waiters EXCEPT ![locks[k]] = @ + 1]
  /\ Acquire(c, locks[k])
  /\ Refer(c, k, locks[k])
  /\ UNCHANGED locks

\* Bugs for comparison: the key is deleted whoever is queued, which is what
\* the comment in the code warns of, or never.
CountOutAlways(e, k) ==
  /\ waiters' = [waiters EXCEPT ![e] = @ - 1]
  /\ locks' = [locks EXCEPT ![k] = None]

CountOutNever(e, k) ==
  /\ waiters' = [waiters EXCEPT ![e] = @ - 1]
  /\ UNCHANGED locks

\* The end of the finally block: the call no longer counts, and the last one
\* deletes its key from the map.
CountOut(e, k) ==
  /\ waiters' = [waiters EXCEPT ![e] = @ - 1]
  /\ locks' = IF waiters[e] = 1 THEN [locks EXCEPT ![k] = None] ELSE locks

\* Bug for comparison: release() wakes the newest waiter.
LeaveToNewest(c) ==
  LET e == entry[c] IN
  /\ at[c] = "inside"
  /\ queue[e] # <<>>
  /\ queue' = [queue EXCEPT ![e] = Front(@)]
  /\ at' = [at EXCEPT ![c] = "idle", ![Last(queue[e])] = "inside"]
  /\ CountOut(e, key[c])
  /\ Refer(c, None, None)
  /\ UNCHANGED counter

\* fn has settled, with a value or an error; the permit goes to the head of
\* the queue, which is inside from then on ...
LeaveToHead(c) ==
  LET e == entry[c] IN
  /\ at[c] = "inside"
  /\ queue[e] # <<>>
  /\ queue' = [queue EXCEPT ![e] = Tail(@)]
  /\ at' = [at EXCEPT ![c] = "idle", ![Head(queue[e])] = "inside"]
  /\ CountOut(e, key[c])
  /\ Refer(c, None, None)
  /\ UNCHANGED counter

\* ... or back to the counter.
LeaveFree(c) ==
  LET e == entry[c] IN
  /\ at[c] = "inside"
  /\ queue[e] = <<>>
  /\ counter' = [counter EXCEPT ![e] = @ + 1]
  /\ at' = [at EXCEPT ![c] = "idle"]
  /\ CountOut(e, key[c])
  /\ Refer(c, None, None)
  /\ UNCHANGED queue

Leave(c) == LeaveToHead(c) \/ LeaveFree(c)

Next ==
  \E c \in Calls :
    \/ \E k \in Paths : EnterNew(c, k) \/ EnterAgain(c, k)
    \/ Leave(c)

Spec == Init /\ [][Next]_vars

\* The file operations inside a lock settle; nothing obliges a call to come.
FairSpec == Spec /\ \A c \in Calls : WF_vars(Leave(c))

-----------------------------------------------------------------------------
(* Properties *)

\* Types, and the one permit of a lock (file-lock.ts:16-22).
TypeOK ==
  /\ locks \in [Paths -> Entries \cup {None}]
  /\ counter \in [Entries -> 0..1]
  /\ queue \in [Entries -> Seq(Calls)]
  /\ waiters \in [Entries -> Nat]
  /\ at \in [Calls -> {"idle", "waiting", "inside"}]
  /\ key \in [Calls -> Paths \cup {None}]
  /\ entry \in [Calls -> Entries \cup {None}]

\* At most one call is inside per path, although a call can hold a reference
\* to an entry that the map no longer has ("deleting a lock that another
\* caller already holds a reference to would let a third caller in",
\* file-lock.ts:62-64).
MutualExclusion == \A k \in Paths : \A c, d \in Inside(k) : c = d

\* The map has an entry for a path exactly while some call for that path is in
\* flight, so it "does not grow without bound" (file-lock.ts:38-39), and all
\* those calls refer to the entry the map has.
MapTracksCalls ==
  \A k \in Paths :
    /\ locks[k] # None => \E c \in Calls : entry[c] = locks[k] /\ key[c] = k
    /\ \A c \in Calls : key[c] = k => locks[k] # None /\ entry[c] = locks[k]

\* The calls for any one path see a pool of one permit with a fair line in
\* front of it: what withFileLock() promises to its users (file-lock.ts:33-40).
Line(k) == IF locks[k] = None THEN <<>> ELSE queue[locks[k]]
Lock == INSTANCE PermitPool WITH
          Clients <- Calls, MaxPermits <- 1,
          holders <- Inside(Watched), line <- Line(Watched)
ImplementsLock == Lock!Spec

\* A queued call gets in, given that the operations inside settle.
CallServed == \A c \in Calls : at[c] = "waiting" ~> at[c] = "inside"
=============================================================================
