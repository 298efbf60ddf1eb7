----------------------------- MODULE Semaphore ------------------------------
(***************************************************************************)
(* The counting semaphore of src/src/utils/semaphore.ts.  One action is    *)
(* one synchronous run of the single JavaScript thread: acquire() up to    *)
(* its return or its queued promise, one release(), one timer callback.    *)
(* A permit handed to the head of the queue belongs to that caller from    *)
(* the moment entry.resolve() runs, since no other code can take it.       *)
(***************************************************************************)
EXTENDS Integers, FiniteSets, SequencesExt

CONSTANTS
  Callers,      \* the concurrent users of one semaphore
  MaxPermits,   \* the constructor's first argument
  Timed         \* TRUE when the semaphore was built with timeoutMs > 0

ASSUME MaxPermitsAssumption == MaxPermits \in Nat \ {0}
ASSUME TimedAssumption == Timed \in BOOLEAN

VARIABLES
  permits,      \* this.permits
  waitQueue,    \* this.waitQueue, one entry per caller
  holding       \* the callers between a successful acquire() and release()

semVars == <<permits, waitQueue, holding>>

Waiting == ToSet(waitQueue)

SemInit ==
  /\ permits = MaxPermits
  /\ waitQueue = <<>>
  /\ holding = {}

\* acquire() with a permit at hand.
AcquireNow(c) ==
  /\ c \notin holding \cup Waiting
  /\ permits > 0
  /\ permits' = permits - 1
  /\ holding' = holding \cup {c}
  /\ UNCHANGED waitQueue

\* Bug for comparison: acquire() queues without looking at the counter.
AcquireLaterUnchecked(c) ==
  /\ c \notin holding \cup Waiting
  /\ waitQueue' = Append(waitQueue, c)
  /\ UNCHANGED <<permits, holding>>

\* acquire() without one: the entry goes to the back of the queue.
AcquireLater(c) ==
  /\ c \notin holding \cup Waiting
  /\ permits <= 0
  /\ waitQueue' = Append(waitQueue, c)
  /\ UNCHANGED <<permits, holding>>

\* The timer of the i-th entry: splice it out and reject its promise.
AcquireTimeout(i) ==
  /\ Timed
  /\ i \in 1..Len(waitQueue)
  /\ waitQueue' = RemoveAt(waitQueue, i)
  /\ UNCHANGED <<permits, holding>>

\* Bugs for comparison: release() that drops the waiter it takes from the
\* queue, and one that looks at the counter only.
ReleaseDropsWaiter(c) ==
  /\ c \in holding
  /\ waitQueue # <<>>
  /\ holding' = holding \ {c}
  /\ waitQueue' = Tail(waitQueue)
  /\ UNCHANGED permits

ReleaseIgnoresQueue(c) ==
  /\ c \in holding
  /\ waitQueue # <<>>
  /\ holding' = holding \ {c}
  /\ permits' = permits + 1
  /\ UNCHANGED waitQueue

\* release() with someone in the queue: the permit never becomes free.
ReleaseToHead(c) ==
  /\ c \in holding
  /\ waitQueue # <<>>
  /\ holding' = (holding \ {c}) \cup {Head(waitQueue)}
  /\ waitQueue' = Tail(waitQueue)
  /\ UNCHANGED permits

\* release() with nobody waiting.
ReleaseFree(c) ==
  /\ c \in holding
  /\ waitQueue = <<>>
  /\ holding' = holding \ {c}
  /\ permits' = permits + 1
  /\ UNCHANGED waitQueue

Release(c) == ReleaseToHead(c) \/ ReleaseFree(c)

SemNext ==
  \/ \E c \in Callers : AcquireNow(c) \/ AcquireLater(c) \/ Release(c)
  \/ \E i \in 1..Len(waitQueue) : AcquireTimeout(i)

SemSpec == SemInit /\ [][SemNext]_semVars

\* withPermit() releases in a finally block, so a holder whose function ends
\* always releases; nothing obliges a caller to ask.
SemFairSpec == SemSpec /\ \A c \in Callers : WF_semVars(Release(c))

-----------------------------------------------------------------------------
(* Properties *)

\* The variables keep their types and the counter its range (semaphore.ts:8-14).
SemTypeOK ==
  /\ permits \in 0..MaxPermits
  /\ waitQueue \in Seq(Callers)
  /\ holding \subseteq Callers

\* No permit is lost or invented across hand-overs, timeouts and failures of
\* the guarded function: free permits and holders always add up to the total
\* (acquire/release, semaphore.ts:36-76).
PermitsConserved == permits + Cardinality(holding) = MaxPermits

\* Nobody waits while a permit is free, and no caller is queued twice or
\* queued while it holds (the hand-over in release, semaphore.ts:66-76).
NoIdlePermit ==
  /\ waitQueue # <<>> => permits = 0
  /\ Waiting \cap holding = {}
  /\ \A i, j \in 1..Len(waitQueue) : waitQueue[i] = waitQueue[j] => i = j

\* The class comment: the semaphore "limits concurrent access to a resource"
\* (semaphore.ts:3-6): never more callers inside than there are permits.
LimitsAccess == Cardinality(holding) <= MaxPermits

\* Nobody stays in the queue for ever: a queued caller gets a permit, given that
\* holders release, or its own timer takes it out (withPermit,
\* semaphore.ts:82-89; acquire, semaphore.ts:36-60).
WaiterServed == \A c \in Callers : c \in Waiting ~> c \notin Waiting

\* The semaphore implements the pool that its users rely on.
Pool == INSTANCE PermitPool WITH Clients <- Callers, holders <- holding, line <- waitQueue
ImplementsPool == Pool!Spec
=============================================================================
