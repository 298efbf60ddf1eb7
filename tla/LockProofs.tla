----------------------------- MODULE LockProofs -----------------------------
(***************************************************************************)
(* The semaphore and the per-file lock made of semaphores.  For every set  *)
(* of callers and every number of permits the semaphore neither loses nor  *)
(* invents a permit, and it implements PermitPool.  For every finite set   *)
(* of calls, and any paths and entries, at most one call is inside per     *)
(* path, and the calls for a path see a fair pool of one permit.           *)
(***************************************************************************)
EXTENDS Semaphore, FileLock, QueueLemmas

USE MaxPermitsAssumption, CallsAssumption, NoneAssumption

-----------------------------------------------------------------------------
(* The semaphore *)

\* The inductive invariant.  Conservation needs the separation of queue and
\* holders (a hand-over must add a new holder), which needs that a caller is
\* queued at most once, which needs that one queues only when it is not.
SemInv ==
  /\ permits \in Nat
  /\ waitQueue \in Seq(Callers)
  /\ holding \subseteq Callers
  /\ IsFiniteSet(holding)
  /\ PermitsConserved
  /\ NoIdlePermit

LEMMA SemInitial == SemInit => SemInv
<1> SUFFICES ASSUME SemInit PROVE SemInv
  OBVIOUS
<1>1. waitQueue \in Seq(Callers) /\ Len(waitQueue) = 0 /\ ToSet(waitQueue) = {}
  <2>1. <<>> \in Seq(Callers) /\ Len(<<>>) = 0
    OBVIOUS
  <2>2. ToSet(<<>>) = {}
    BY <2>1, ToSetIndexed, Zenon
  <2> QED BY <2>1, <2>2 DEF SemInit
<1>2. IsFiniteSet({}) /\ Cardinality({}) = 0
  BY FS_EmptySet
<1> QED BY <1>1, <1>2 DEF SemInit, SemInv, PermitsConserved, NoIdlePermit, Waiting

\* One step per action of the semaphore.
LEMMA SemPreserved ==
  ASSUME SemInv, [SemNext]_semVars
  PROVE  SemInv'
<1> USE DEF Waiting
<1>0. /\ Cardinality(holding) \in Nat
      /\ Distinct(waitQueue)
      /\ permits + Cardinality(holding) = MaxPermits
  BY FS_CardinalityType DEF SemInv, PermitsConserved, NoIdlePermit, Distinct
<1>1. ASSUME NEW c \in Callers, AcquireNow(c)
      PROVE  SemInv'
  <2>1. IsFiniteSet(holding') /\ Cardinality(holding') = Cardinality(holding) + 1
    BY <1>1, FS_AddElement DEF AcquireNow, SemInv
  <2>2. waitQueue = <<>>
    BY <1>1 DEF AcquireNow, SemInv, NoIdlePermit
  <2>3. ToSet(waitQueue) = {} /\ Len(waitQueue) = 0
    BY <2>2, ToSetIndexed DEF SemInv
  <2> QED BY <1>0, <1>1, <2>1, <2>2, <2>3 DEF AcquireNow, SemInv, PermitsConserved, NoIdlePermit
<1>2. ASSUME NEW c \in Callers, AcquireLater(c)
      PROVE  SemInv'
  <2>1. /\ waitQueue' \in Seq(Callers)
        /\ ToSet(waitQueue') = ToSet(waitQueue) \cup {c}
        /\ Distinct(waitQueue')
    BY <1>0, <1>2, PushProperties DEF AcquireLater, SemInv
  <2>2. permits' = 0
    BY <1>2 DEF AcquireLater, SemInv
  <2>3. ToSet(waitQueue') \cap holding' = {}
    BY <1>2, <2>1 DEF AcquireLater, SemInv, NoIdlePermit
  <2> QED BY <1>0, <1>2, <2>1, <2>2, <2>3 DEF AcquireLater, SemInv, PermitsConserved, NoIdlePermit, Distinct
<1>3. ASSUME NEW c \in Callers, ReleaseToHead(c)
      PROVE  SemInv'
  <2>1. /\ Head(waitQueue) \in ToSet(waitQueue)
        /\ waitQueue' \in Seq(Callers)
        /\ ToSet(waitQueue') = ToSet(waitQueue) \ {Head(waitQueue)}
        /\ Distinct(waitQueue')
    BY <1>0, <1>3, ShiftProperties DEF ReleaseToHead, SemInv
  <2>2. Head(waitQueue) \in Callers \ holding
    BY <2>1, ToSetIndexed DEF SemInv, NoIdlePermit
  <2>3. IsFiniteSet(holding \ {c}) /\ Cardinality(holding \ {c}) = Cardinality(holding) - 1
    BY <1>3, FS_RemoveElement DEF ReleaseToHead, SemInv
  <2>4. IsFiniteSet(holding') /\ Cardinality(holding') = Cardinality(holding)
    <3>1. \A x : x \notin holding \ {c} =>
                 /\ IsFiniteSet((holding \ {c}) \cup {x})
                 /\ Cardinality((holding \ {c}) \cup {x}) = Cardinality(holding \ {c}) + 1
      BY <2>3, FS_AddElement
    <3>2. holding' = (holding \ {c}) \cup {Head(waitQueue)} /\ Head(waitQueue) \notin holding \ {c}
      BY <1>3, <2>2 DEF ReleaseToHead
    <3>3. IsFiniteSet(holding') /\ Cardinality(holding') = Cardinality(holding \ {c}) + 1
      BY <3>1, <3>2, Zenon
    <3>4. \A n \in Nat : n - 1 + 1 = n
      OBVIOUS
    <3> QED BY <1>0, <2>3, <3>3, <3>4
  <2>5. permits' = 0
    BY <1>3 DEF ReleaseToHead, SemInv, NoIdlePermit
  <2>6. ToSet(waitQueue') \cap holding' = {}
    <3>1. ToSet(waitQueue) \cap holding = {} /\ holding' = (holding \ {c}) \cup {Head(waitQueue)}
      BY <1>3 DEF ReleaseToHead, SemInv, NoIdlePermit
    <3>2. \A x : x \in ToSet(waitQueue') => x \in ToSet(waitQueue) /\ x # Head(waitQueue)
      BY <2>1, Zenon
    <3> QED BY <3>1, <3>2, Zenon
  <2> QED BY <1>0, <1>3, <2>1, <2>2, <2>4, <2>5, <2>6
       DEF ReleaseToHead, SemInv, PermitsConserved, NoIdlePermit, Distinct
<1>4. ASSUME NEW c \in Callers, ReleaseFree(c)
      PROVE  SemInv'
  <2>1. IsFiniteSet(holding') /\ Cardinality(holding') = Cardinality(holding) - 1
    BY <1>4, FS_RemoveElement DEF ReleaseFree, SemInv
  <2> QED BY <1>0, <1>4, <2>1 DEF ReleaseFree, SemInv, PermitsConserved, NoIdlePermit
<1>5. ASSUME NEW i \in 1..Len(waitQueue), AcquireTimeout(i)
      PROVE  SemInv'
  <2>1. /\ waitQueue' \in Seq(Callers)
        /\ ToSet(waitQueue') \subseteq ToSet(waitQueue)
        /\ Distinct(waitQueue')
    BY <1>0, <1>5, SpliceProperties DEF AcquireTimeout, SemInv
  <2>2. permits' = 0
    <3>1. waitQueue # <<>>
      BY DEF SemInv
    <3> QED BY <1>5, <3>1 DEF AcquireTimeout, SemInv, NoIdlePermit
  <2>3. ToSet(waitQueue') \cap holding' = {}
    BY <1>5, <2>1 DEF AcquireTimeout, SemInv, NoIdlePermit
  <2> QED BY <1>0, <1>5, <2>1, <2>2, <2>3
       DEF AcquireTimeout, SemInv, PermitsConserved, NoIdlePermit, Distinct
<1>6. CASE UNCHANGED semVars
  BY <1>6 DEF semVars, SemInv, PermitsConserved, NoIdlePermit
<1> QED
  BY <1>1, <1>2, <1>3, <1>4, <1>5, <1>6 DEF SemNext, Release

\* The queue's inductive invariant holds throughout (semaphore.ts:36-76).
THEOREM SemaphoreInvariant == SemSpec => []SemInv
<1> QED BY SemInitial, SemPreserved, PTL DEF SemSpec

\* The state always has its types: in particular the counter stays between 0
\* and the constructor's argument (semaphore.ts:8-30).
THEOREM TypeCorrect == SemSpec => []SemTypeOK
<1>1. SemInv => SemTypeOK
  <2> SUFFICES ASSUME SemInv PROVE SemTypeOK
    OBVIOUS
  <2>1. Cardinality(holding) \in Nat
    BY FS_CardinalityType DEF SemInv
  <2> QED BY <2>1 DEF SemInv, SemTypeOK, PermitsConserved
<1> QED BY <1>1, SemaphoreInvariant, PTL

\* No permit is ever lost or invented, whatever the interleaving of callers,
\* releases and timeouts (semaphore.ts:36-89).
THEOREM Conservation == SemSpec => []PermitsConserved
<1>1. SemInv => PermitsConserved
  BY DEF SemInv
<1> QED BY <1>1, SemaphoreInvariant, PTL

\* A caller waits only while every permit is out, and never twice
\* (semaphore.ts:36-76).
THEOREM NobodyWaitsInVain == SemSpec => []NoIdlePermit
<1>1. SemInv => NoIdlePermit
  BY DEF SemInv
<1> QED BY <1>1, SemaphoreInvariant, PTL

\* The class comment's promise (semaphore.ts:3-6): never more callers inside
\* than the semaphore has permits.
THEOREM AccessLimited == SemSpec => []LimitsAccess
<1>1. SemInv => LimitsAccess
  <2> SUFFICES ASSUME SemInv PROVE LimitsAccess
    OBVIOUS
  <2>1. Cardinality(holding) \in Nat
    BY FS_CardinalityType DEF SemInv
  <2> QED BY <2>1 DEF SemInv, LimitsAccess, PermitsConserved
<1> QED BY <1>1, SemaphoreInvariant, PTL

\* The operators of the instance are those of this module.
LEMMA PoolOperators ==
  /\ \A S : Pool!Cardinality(S) = Cardinality(S)
  /\ \A q : Pool!ToSet(q) = ToSet(q)
  /\ \A q, i : Pool!RemoveAt(q, i) = RemoveAt(q, i)
<1>1. \A S : Pool!Cardinality(S) = Cardinality(S)
  BY DEF Pool!Cardinality, Cardinality
<1>2. \A q : Pool!ToSet(q) = ToSet(q)
  BY DEF Pool!ToSet, ToSet
<1>3. \A q, i : Pool!RemoveAt(q, i) = RemoveAt(q, i)
  BY DEF Pool!RemoveAt, RemoveAt
<1> QED BY <1>1, <1>2, <1>3

\* The semaphore implements the pool: every step of it is a step of the pool
\* with the same holders and the same line, or leaves both alone.
THEOREM Refinement == SemSpec => ImplementsPool
<1>1. SemInit => Pool!Init
  BY DEF SemInit, Pool!Init
<1>2. ASSUME SemInv, [SemNext]_semVars
      PROVE  [Pool!Next]_(Pool!poolVars)
  <2>0. Cardinality(holding) \in Nat /\ permits + Cardinality(holding) = MaxPermits
    BY <1>2, FS_CardinalityType DEF SemInv, PermitsConserved
  <2>1. ASSUME NEW c \in Callers, AcquireNow(c)
        PROVE  Pool!Take(c)
    BY <1>2, <2>0, <2>1, PoolOperators DEF AcquireNow, Pool!Take, Waiting, SemInv
  <2>2. ASSUME NEW c \in Callers, AcquireLater(c)
        PROVE  Pool!Join(c)
    BY <1>2, <2>0, <2>2, PoolOperators DEF AcquireLater, Pool!Join, Waiting, SemInv
  <2>3. ASSUME NEW i \in 1..Len(waitQueue), AcquireTimeout(i)
        PROVE  Pool!GiveUp(i)
    BY <2>3, PoolOperators DEF AcquireTimeout, Pool!GiveUp
  <2>4. ASSUME NEW c \in Callers, ReleaseToHead(c)
        PROVE  Pool!Return({c})
    <3>1. Cardinality({c}) = 1
      BY FS_Singleton
    <3>2. /\ Head(waitQueue) = waitQueue[1]
          /\ Tail(waitQueue) = SubSeq(waitQueue, 2, Len(waitQueue))
          /\ 1 \in 1..Len(waitQueue)
      BY <1>2, <2>4, TailIsSubSeq DEF ReleaseToHead, SemInv
    <3>3. Pool!Heirs(1) = {Head(waitQueue)}
      BY <3>2 DEF Pool!Heirs
    <3>4. Pool!Rest(1) = Tail(waitQueue)
      BY <3>2 DEF Pool!Rest
    <3> QED BY <2>4, <3>1, <3>3, <3>4, PoolOperators DEF ReleaseToHead, Pool!Return
  <2>5. ASSUME NEW c \in Callers, ReleaseFree(c)
        PROVE  Pool!Return({c})
    <3>1. Cardinality({c}) = 1
      BY FS_Singleton
    <3>2. waitQueue = <<>> /\ Len(waitQueue) = 0
      BY <2>5 DEF ReleaseFree
    <3>3. Pool!Heirs(1) = {}
      BY <3>2 DEF Pool!Heirs
    <3>4. Pool!Rest(1) = <<>>
      <4>1. SubSeq(waitQueue, 2, 0) = <<>>
        BY SubSeqEmpty
      <4> QED BY <3>2, <4>1 DEF Pool!Rest
    <3> QED BY <2>5, <3>1, <3>2, <3>3, <3>4, PoolOperators DEF ReleaseFree, Pool!Return
  <2>6. CASE UNCHANGED semVars
    BY <2>6 DEF semVars, Pool!poolVars
  <2>7. ASSUME NEW c \in holding, Pool!Return({c})
        PROVE  Pool!Next
    <3>1. {c} \in SUBSET holding
      OBVIOUS
    <3> QED BY <2>7, <3>1 DEF Pool!Next
  <2>8. ASSUME NEW c \in Callers, Release(c)
        PROVE  Pool!Next
    BY <2>4, <2>5, <2>7, <2>8 DEF Release, ReleaseToHead, ReleaseFree
  <2>9. CASE SemNext
    BY <1>2, <2>1, <2>2, <2>3, <2>8, <2>9 DEF SemNext, Pool!Next
  <2> QED BY <1>2, <2>6, <2>9
<1> QED BY <1>1, <1>2, SemaphoreInvariant, PTL DEF SemSpec, Pool!Spec, ImplementsPool

-----------------------------------------------------------------------------
(* The per-file lock *)

(* The inductive invariant.  Two calls for one path exclude each other     *)
(* because both refer to the entry of the map; that holds because the map  *)
(* drops an entry only when the count says that nobody else refers to it,  *)
(* so the count must be exact, and because no entry serves two paths.      *)

\* What a call refers to is what the map has for its key.
Referring ==
  \A c \in Calls :
    IF at[c] = "idle"
      THEN entry[c] = None /\ key[c] = None
      ELSE key[c] \in Paths /\ entry[c] \in Entries /\ locks[key[c]] = entry[c]

Counted == \A e \in Entries : waiters[e] = Cardinality(Users(e))

OneKey == \A k, l \in Paths : locks[k] # None /\ locks[k] = locks[l] => k = l

Kept == \A k \in Paths : locks[k] # None =>
          /\ counter[locks[k]] = 0
          /\ \E c \in Calls : at[c] = "inside" /\ entry[c] = locks[k]

Queued ==
  \A e \in Entries :
    /\ Distinct(queue[e])
    /\ \A c \in Calls : c \in ToSet(queue[e]) <=> at[c] = "waiting" /\ entry[c] = e

OneInside ==
  \A c, d \in Calls :
    at[c] = "inside" /\ at[d] = "inside" /\ entry[c] = entry[d] => c = d

LocksInv == TypeOK /\ Referring /\ Counted /\ OneKey /\ Kept /\ Queued /\ OneInside

LEMMA EmptyQueue ==
  ASSUME NEW S
  PROVE  <<>> \in Seq(S) /\ Distinct(<<>>) /\ ToSet(<<>>) = {}
<1>1. <<>> \in Seq(S) /\ Len(<<>>) = 0
  OBVIOUS
<1>2. ToSet(<<>>) = {}
  BY <1>1, ToSetIndexed, Zenon
<1> QED BY <1>1, <1>2 DEF Distinct

LEMMA UsersFinite == \A e : IsFiniteSet(Users(e))
BY FS_Subset DEF Users

LEMMA LocksInitial == Init => LocksInv
<1> SUFFICES ASSUME Init PROVE LocksInv
  OBVIOUS
<1>1. TypeOK
  BY EmptyQueue DEF Init, TypeOK
<1>2. Counted
  <2>1. \A e \in Entries : Users(e) = {}
    BY DEF Init, Users
  <2> QED BY <2>1, FS_EmptySet DEF Init, Counted
<1>3. Queued
  <2> SUFFICES ASSUME NEW e \in Entries
               PROVE  /\ Distinct(queue[e])
                      /\ \A c \in Calls : c \in ToSet(queue[e]) <=> at[c] = "waiting" /\ entry[c] = e
    BY DEF Queued
  <2>1. queue[e] = <<>>
    BY DEF Init
  <2> QED BY <2>1, EmptyQueue DEF Init
<1> QED BY <1>1, <1>2, <1>3 DEF Init, LocksInv, Referring, OneKey, Kept, OneInside

\* A call that begins to refer to e is one more user of e and of nothing else.
LEMMA OneMoreUser ==
  ASSUME TypeOK, NEW c \in Calls, NEW e \in Entries, NEW k, entry[c] = None, Refer(c, k, e)
  PROVE  /\ Cardinality(Users(e)') = Cardinality(Users(e)) + 1
         /\ \A f \in Entries \ {e} : Users(f)' = Users(f)
         /\ Cardinality(Users(e)) \in Nat
<1>1. \A d \in Calls : entry'[d] = IF d = c THEN e ELSE entry[d]
  BY DEF TypeOK, Refer
<1>2. Users(e)' = Users(e) \cup {c} /\ c \notin Users(e)
  BY <1>1 DEF Users
<1>3. \A f \in Entries \ {e} : Users(f)' = Users(f)
  BY <1>1 DEF Users
<1> QED BY <1>2, <1>3, UsersFinite, FS_AddElement, FS_CardinalityType

\* A call that stops referring to e is one user of e less.
LEMMA OneUserLess ==
  ASSUME TypeOK, NEW c \in Calls, NEW e \in Entries, entry[c] = e, Refer(c, None, None)
  PROVE  /\ Users(e)' = Users(e) \ {c}
         /\ Cardinality(Users(e)') = Cardinality(Users(e)) - 1
         /\ \A f \in Entries \ {e} : Users(f)' = Users(f)
         /\ Cardinality(Users(e)) \in Nat \ {0}
         /\ Cardinality(Users(e)) = 1 => Users(e)' = {}
<1>1. \A d \in Calls : entry'[d] = IF d = c THEN None ELSE entry[d]
  BY DEF TypeOK, Refer
<1>2. Users(e)' = Users(e) \ {c} /\ c \in Users(e)
  BY <1>1 DEF Users
<1>3. \A f \in Entries \ {e} : Users(f)' = Users(f)
  BY <1>1 DEF Users
<1>4. IsFiniteSet(Users(e)) /\ IsFiniteSet(Users(e)')
  BY <1>2, UsersFinite, FS_RemoveElement
<1>5. Cardinality(Users(e)') = Cardinality(Users(e)) - 1
  BY <1>2, UsersFinite, FS_RemoveElement
<1>6. Cardinality(Users(e)) \in Nat /\ Cardinality(Users(e)') \in Nat
  BY <1>4, FS_CardinalityType
<1>7. Cardinality(Users(e)) = 1 => Users(e)' = {}
  BY <1>4, <1>5, FS_EmptySet
<1> QED BY <1>2, <1>3, <1>5, <1>6, <1>7

LEMMA EnterNewPreserves ==
  ASSUME LocksInv, NEW c \in Calls, NEW k \in Paths, EnterNew(c, k)
  PROVE  LocksInv'
<1>1. PICK e \in Fresh :
        /\ locks' = [locks EXCEPT ![k] = e]
        /\ counter' = [counter EXCEPT ![e] = 0]
        /\ queue' = [queue EXCEPT ![e] = <<>>]
        /\ waiters' = [waiters EXCEPT ![e] = 1]
        /\ Refer(c, k, e)
  BY DEF EnterNew
<1>2. /\ at[c] = "idle" /\ locks[k] = None /\ at' = [at EXCEPT ![c] = "inside"]
      /\ e \in Entries /\ Users(e) = {} /\ \A l \in Paths : locks[l] # e
      /\ entry[c] = None /\ key[c] = None
  BY <1>1 DEF EnterNew, Fresh, LocksInv, Referring
<1>3. /\ key' = [key EXCEPT ![c] = k] /\ entry' = [entry EXCEPT ![c] = e]
  BY <1>1 DEF Refer
<1>4. TypeOK'
  BY <1>1, <1>2, <1>3, EmptyQueue DEF LocksInv, TypeOK
<1>5. Referring'
  BY <1>1, <1>2, <1>3 DEF LocksInv, TypeOK, Referring
<1>6. Counted'
  <2>1. /\ Cardinality(Users(e)') = Cardinality(Users(e)) + 1
        /\ \A f \in Entries \ {e} : Users(f)' = Users(f)
    <3>1. TypeOK /\ e \in Entries /\ entry[c] = None /\ Refer(c, k, e)
      BY <1>1, <1>2 DEF LocksInv
    <3> QED BY <3>1, OneMoreUser
  <2>2. Cardinality(Users(e)) = 0
    BY <1>2, FS_EmptySet
  <2> QED BY <1>1, <1>2, <2>1, <2>2 DEF LocksInv, TypeOK, Counted
<1>7. OneKey' /\ Kept'
  BY <1>1, <1>2, <1>3 DEF LocksInv, TypeOK, OneKey, Kept
<1>8. Queued'
  <2>1. \A d \in Calls : entry[d] # e
    BY <1>2 DEF Users
  <2> SUFFICES ASSUME NEW f \in Entries
               PROVE  /\ Distinct(queue'[f])
                      /\ \A d \in Calls : d \in ToSet(queue'[f]) <=> at'[d] = "waiting" /\ entry'[d] = f
    BY DEF Queued
  <2>2. CASE f = e
    <3>1. queue'[f] = <<>>
      BY <1>1, <2>2 DEF LocksInv, TypeOK
    <3>2. \A d \in Calls : ~(at'[d] = "waiting" /\ entry'[d] = f)
      BY <1>2, <1>3, <2>1, <2>2 DEF LocksInv, TypeOK
    <3> QED BY <3>1, <3>2, EmptyQueue
  <2>3. CASE f # e
    <3>1. queue'[f] = queue[f]
      BY <1>1, <2>3 DEF LocksInv, TypeOK
    <3> QED BY <1>2, <1>3, <2>3, <3>1 DEF LocksInv, TypeOK, Queued
  <2> QED BY <2>2, <2>3
<1>9. OneInside'
  BY <1>2, <1>3 DEF LocksInv, TypeOK, OneInside, Users
<1> QED BY <1>4, <1>5, <1>6, <1>7, <1>8, <1>9 DEF LocksInv

LEMMA EnterAgainPreserves ==
  ASSUME LocksInv, NEW c \in Calls, NEW k \in Paths, EnterAgain(c, k)
  PROVE  LocksInv'
<1>1. PICK e \in Entries : e = locks[k]
  BY DEF EnterAgain, LocksInv, TypeOK
<1>2. /\ counter[e] = 0 /\ locks[k] # None
      /\ at[c] = "idle" /\ entry[c] = None /\ key[c] = None
  BY <1>1 DEF EnterAgain, LocksInv, Kept, Referring
<1>3. /\ waiters' = [waiters EXCEPT ![e] = @ + 1]
      /\ queue' = [queue EXCEPT ![e] = Append(@, c)]
      /\ at' = [at EXCEPT ![c] = "waiting"]
      /\ key' = [key EXCEPT ![c] = k]
      /\ entry' = [entry EXCEPT ![c] = e]
      /\ counter' = counter /\ locks' = locks
  BY <1>1, <1>2 DEF EnterAgain, Acquire, Refer
<1>4. c \notin ToSet(queue[e]) /\ queue[e] \in Seq(Calls) /\ Distinct(queue[e])
  BY <1>2 DEF LocksInv, Queued, TypeOK
<1>5. /\ Append(queue[e], c) \in Seq(Calls)
      /\ ToSet(Append(queue[e], c)) = ToSet(queue[e]) \cup {c}
      /\ Distinct(Append(queue[e], c))
  BY <1>4, PushProperties
<1>6. TypeOK'
  BY <1>3, <1>5 DEF LocksInv, TypeOK
<1>7. Referring'
  BY <1>1, <1>3 DEF LocksInv, TypeOK, Referring
<1>8. Counted'
  <2>1. /\ Cardinality(Users(e)') = Cardinality(Users(e)) + 1
        /\ \A f \in Entries \ {e} : Users(f)' = Users(f)
    <3>1. Refer(c, k, e)
      BY <1>3 DEF Refer
    <3> QED BY <1>2, <3>1, OneMoreUser DEF LocksInv
  <2> QED BY <1>3, <2>1 DEF LocksInv, TypeOK, Counted
<1>9. OneKey' /\ Kept'
  BY <1>2, <1>3 DEF LocksInv, TypeOK, OneKey, Kept
<1>10. Queued'
  BY <1>2, <1>3, <1>5 DEF LocksInv, TypeOK, Queued
<1>11. OneInside'
  BY <1>3 DEF LocksInv, TypeOK, OneInside
<1> QED BY <1>6, <1>7, <1>8, <1>9, <1>10, <1>11 DEF LocksInv

\* What both ways of leaving do to the map and the counts.
LEMMA LeavingTheMap ==
  ASSUME LocksInv, NEW c \in Calls, NEW e \in Entries, NEW k \in Paths,
         entry[c] = e, locks[k] = e, CountOut(e, k), Refer(c, None, None)
  PROVE  /\ waiters' \in [Entries -> Nat]
         /\ locks' \in [Paths -> Entries \cup {None}]
         /\ \A l \in Paths : locks'[l] = IF l = k /\ Users(e) = {c} THEN None ELSE locks[l]
         /\ Counted'
<1>1. /\ Users(e)' = Users(e) \ {c}
      /\ Cardinality(Users(e)') = Cardinality(Users(e)) - 1
      /\ \A f \in Entries \ {e} : Users(f)' = Users(f)
      /\ Cardinality(Users(e)) \in Nat \ {0}
      /\ Cardinality(Users(e)) = 1 => Users(e)' = {}
  BY OneUserLess DEF LocksInv
<1>2. waiters[e] = Cardinality(Users(e)) /\ c \in Users(e)
  BY DEF LocksInv, Counted, Users
<1>3. waiters[e] = 1 <=> Users(e) = {c}
  <2>1. Cardinality({c}) = 1
    BY FS_Singleton
  <2>2. Users(e)' = {} /\ Users(e)' = Users(e) \ {c} => Users(e) = {c}
    BY <1>2
  <2> QED BY <1>1, <1>2, <2>1, <2>2
<1>4. \A f \in Entries : waiters'[f] = IF f = e THEN waiters[e] - 1 ELSE waiters[f]
  BY DEF LocksInv, TypeOK, CountOut
<1>5. waiters' \in [Entries -> Nat]
  BY <1>1, <1>2 DEF LocksInv, TypeOK, CountOut
<1>6. Counted'
  <2> SUFFICES ASSUME NEW f \in Entries
               PROVE  waiters'[f] = Cardinality(Users(f)')
    BY DEF Counted
  <2>1. CASE f = e
    BY <1>1, <1>2, <1>4, <2>1
  <2>2. CASE f # e
    <3>1. Users(f)' = Users(f) /\ waiters'[f] = waiters[f]
      BY <1>1, <1>4, <2>2
    <3> QED BY <3>1 DEF LocksInv, Counted
  <2> QED BY <2>1, <2>2
<1>7. /\ locks' \in [Paths -> Entries \cup {None}]
      /\ \A l \in Paths : locks'[l] = IF l = k /\ Users(e) = {c} THEN None ELSE locks[l]
  BY <1>3 DEF LocksInv, TypeOK, CountOut
<1> QED BY <1>5, <1>6, <1>7

LEMMA LeaveToHeadPreserves ==
  ASSUME LocksInv, NEW c \in Calls, LeaveToHead(c)
  PROVE  LocksInv'
<1>1. PICK e \in Entries, k \in Paths : e = entry[c] /\ k = key[c] /\ locks[k] = e
  BY DEF LeaveToHead, LocksInv, Referring
<1>2. /\ at[c] = "inside" /\ queue[e] # <<>> /\ Distinct(queue[e])
      /\ queue[e] \in Seq(Calls)
  BY <1>1 DEF LeaveToHead, LocksInv, Queued, TypeOK
<1>3. PICK d : d = Head(queue[e])
  OBVIOUS
<1>4. /\ d \in ToSet(queue[e]) /\ d \in Calls
      /\ Tail(queue[e]) \in Seq(Calls)
      /\ ToSet(Tail(queue[e])) = ToSet(queue[e]) \ {d}
      /\ Distinct(Tail(queue[e]))
  BY <1>2, <1>3, ShiftProperties, ToSetIndexed
<1>5. at[d] = "waiting" /\ entry[d] = e /\ d # c
  BY <1>2, <1>4 DEF LocksInv, Queued
<1>6. /\ queue' = [queue EXCEPT ![e] = Tail(@)]
      /\ at' = [at EXCEPT ![c] = "idle", ![d] = "inside"]
      /\ key' = [key EXCEPT ![c] = None]
      /\ entry' = [entry EXCEPT ![c] = None]
      /\ counter' = counter
  BY <1>1, <1>3 DEF LeaveToHead, Refer
<1>7. /\ waiters' \in [Entries -> Nat]
      /\ locks' = locks
      /\ Counted'
  <2>1. /\ locks' \in [Paths -> Entries \cup {None}] /\ waiters' \in [Entries -> Nat]
        /\ \A l \in Paths : locks'[l] = IF l = k /\ Users(e) = {c} THEN None ELSE locks[l]
        /\ Counted'
    BY <1>1, LeavingTheMap DEF LeaveToHead
  <2>2. d \in Users(e)
    BY <1>4, <1>5 DEF Users
  <2> QED BY <1>1, <1>5, <2>1, <2>2 DEF LocksInv, TypeOK
<1>8. TypeOK'
  BY <1>4, <1>6, <1>7 DEF LocksInv, TypeOK
<1>9. Referring'
  BY <1>5, <1>6, <1>7 DEF LocksInv, TypeOK, Referring
<1>10. OneKey' /\ Kept'
  <2>1. \A x \in Calls \ {c} : entry'[x] = entry[x]
    BY <1>6 DEF LocksInv, TypeOK
  <2>2. entry'[d] = e /\ at'[d] = "inside"
    BY <1>4, <1>5, <1>6, <2>1 DEF LocksInv, TypeOK
  <2>3. \A x \in Calls : entry[x] # e => at'[x] = at[x] /\ entry'[x] = entry[x]
    BY <1>1, <1>5, <1>6, <2>1 DEF LocksInv, TypeOK
  <2>4. OneKey'
    BY <1>7 DEF LocksInv, OneKey
  <2>5. ASSUME NEW l \in Paths, locks'[l] # None
        PROVE  /\ counter'[locks'[l]] = 0
               /\ \E x \in Calls : at'[x] = "inside" /\ entry'[x] = locks'[l]
    <3>1. PICK x \in Calls : at[x] = "inside" /\ entry[x] = locks[l] /\ counter[locks[l]] = 0
      BY <1>7, <2>5 DEF LocksInv, Kept
    <3>2. CASE locks[l] = e
      BY <1>4, <1>6, <1>7, <2>2, <3>1, <3>2
    <3>3. CASE locks[l] # e
      BY <1>6, <1>7, <2>3, <3>1, <3>3
    <3> QED BY <3>2, <3>3
  <2> QED BY <2>4, <2>5 DEF Kept
<1>11. Queued'
  <2> SUFFICES ASSUME NEW f \in Entries
               PROVE  /\ Distinct(queue'[f])
                      /\ \A x \in Calls : x \in ToSet(queue'[f]) <=> at'[x] = "waiting" /\ entry'[x] = f
    BY DEF Queued
  <2>1. \A x \in Calls : /\ at'[x] = IF x = d THEN "inside" ELSE IF x = c THEN "idle" ELSE at[x]
                         /\ entry'[x] = IF x = c THEN None ELSE entry[x]
    BY <1>5, <1>6 DEF LocksInv, TypeOK
  <2>2. /\ Distinct(queue[f])
        /\ \A x \in Calls : x \in ToSet(queue[f]) <=> at[x] = "waiting" /\ entry[x] = f
    BY DEF LocksInv, Queued
  <2>3. CASE f = e
    <3>1. queue'[f] = Tail(queue[e])
      BY <1>6, <2>3 DEF LocksInv, TypeOK
    <3> QED BY <1>2, <1>4, <1>5, <2>1, <2>2, <2>3, <3>1
  <2>4. CASE f # e
    <3>1. queue'[f] = queue[f]
      BY <1>6, <2>4 DEF LocksInv, TypeOK
    <3> QED BY <1>2, <1>5, <2>1, <2>2, <2>4, <3>1
  <2> QED BY <2>3, <2>4
<1>12. OneInside'
  <2>1. \A x \in Calls : /\ at'[x] = IF x = d THEN "inside" ELSE IF x = c THEN "idle" ELSE at[x]
                         /\ entry'[x] = IF x = c THEN None ELSE entry[x]
    BY <1>5, <1>6 DEF LocksInv, TypeOK
  <2>2. \A x \in Calls : at[x] = "inside" /\ entry[x] = e => x = c
    BY <1>1, <1>2 DEF LocksInv, OneInside
  <2> QED BY <1>5, <2>1, <2>2 DEF LocksInv, OneInside
<1> QED BY <1>8, <1>9, <1>7, <1>10, <1>11, <1>12 DEF LocksInv

LEMMA LeaveFreePreserves ==
  ASSUME LocksInv, NEW c \in Calls, LeaveFree(c)
  PROVE  LocksInv'
<1>1. PICK e \in Entries, k \in Paths : e = entry[c] /\ k = key[c] /\ locks[k] = e
  BY DEF LeaveFree, LocksInv, Referring
<1>2. /\ at[c] = "inside" /\ queue[e] = <<>> /\ counter[e] = 0
  BY <1>1 DEF LeaveFree, LocksInv, Kept
<1>3. /\ counter' = [counter EXCEPT ![e] = 1]
      /\ at' = [at EXCEPT ![c] = "idle"]
      /\ key' = [key EXCEPT ![c] = None]
      /\ entry' = [entry EXCEPT ![c] = None]
      /\ queue' = queue
  BY <1>1, <1>2 DEF LeaveFree, Refer
<1>4. Users(e) = {c}
  <2>1. \A d \in Calls : entry[d] = e => at[d] # "idle"
    BY DEF LocksInv, Referring
  <2>2. \A d \in Calls : entry[d] = e => at[d] # "waiting"
    BY <1>2, EmptyQueue DEF LocksInv, Queued
  <2>3. \A d \in Calls : entry[d] = e => d = c
    BY <1>1, <1>2, <2>1, <2>2 DEF LocksInv, TypeOK, OneInside
  <2> QED BY <1>1, <2>3 DEF Users
<1>5. /\ waiters' \in [Entries -> Nat]
      /\ locks' \in [Paths -> Entries \cup {None}]
      /\ \A l \in Paths : locks'[l] = IF l = k THEN None ELSE locks[l]
      /\ Counted'
  <2>1. /\ locks' \in [Paths -> Entries \cup {None}] /\ waiters' \in [Entries -> Nat]
        /\ \A l \in Paths : locks'[l] = IF l = k /\ Users(e) = {c} THEN None ELSE locks[l]
        /\ Counted'
    BY <1>1, LeavingTheMap DEF LeaveFree
  <2> QED BY <1>1, <1>4, <2>1
<1>6. \A d \in Calls : entry[d] = e => d = c
  BY <1>4 DEF Users
<1>7. \A l \in Paths : locks[l] = e => l = k
  BY <1>1 DEF LocksInv, OneKey
<1>8. TypeOK'
  <2>1. counter' \in [Entries -> 0..1] /\ queue' \in [Entries -> Seq(Calls)]
    BY <1>3 DEF LocksInv, TypeOK
  <2>2. at' \in [Calls -> {"idle", "waiting", "inside"}]
    BY <1>3 DEF LocksInv, TypeOK
  <2>3. key' \in [Calls -> Paths \cup {None}] /\ entry' \in [Calls -> Entries \cup {None}]
    BY <1>3 DEF LocksInv, TypeOK
  <2> QED BY <1>5, <2>1, <2>2, <2>3 DEF TypeOK
<1>9. Referring'
  BY <1>1, <1>3, <1>5, <1>6 DEF LocksInv, TypeOK, Referring
<1>10. OneKey' /\ Kept'
  <2>1. \A l \in Paths : locks'[l] # None => locks'[l] = locks[l] /\ locks[l] # e /\ counter'[locks[l]] = counter[locks[l]]
    BY <1>1, <1>3, <1>5, <1>7 DEF LocksInv, TypeOK
  <2>2. \A d \in Calls : d # c => entry'[d] = entry[d] /\ at'[d] = at[d]
    BY <1>3 DEF LocksInv, TypeOK
  <2> QED BY <1>1, <2>1, <2>2 DEF LocksInv, OneKey, Kept
<1>11. Queued'
  <2>1. \A d \in Calls : at'[d] = "waiting" <=> at[d] = "waiting"
    BY <1>2, <1>3 DEF LocksInv, TypeOK
  <2>2. \A d \in Calls, f \in Entries : at[d] = "waiting" => (entry'[d] = f <=> entry[d] = f)
    BY <1>2, <1>3 DEF LocksInv, TypeOK
  <2> QED BY <1>3, <2>1, <2>2 DEF LocksInv, Queued
<1>12. OneInside'
  BY <1>3 DEF LocksInv, TypeOK, OneInside
<1> QED BY <1>1, <1>4, <1>5, <1>8, <1>9, <1>10, <1>11, <1>12 DEF LocksInv

LEMMA LocksPreserved == LocksInv /\ [Next]_vars => LocksInv'
<1> SUFFICES ASSUME LocksInv, [Next]_vars PROVE LocksInv'
  OBVIOUS
<1>1. CASE UNCHANGED vars
  BY <1>1 DEF vars, LocksInv, TypeOK, Referring, Counted, OneKey, Kept, Queued, OneInside, Users
<1>2. CASE Next
  BY <1>2, EnterNewPreserves, EnterAgainPreserves, LeaveToHeadPreserves, LeaveFreePreserves
     DEF Next, Leave
<1> QED BY <1>1, <1>2

\* The map, the counts and the references always agree (file-lock.ts:41-66).
THEOREM FileLockInvariant == Spec => []LocksInv
BY LocksInitial, LocksPreserved, PTL DEF Spec

\* Never two calls inside for one path, for any number of calls and paths,
\* however they interleave (file-lock.ts:33-66).
THEOREM Exclusion == Spec => []MutualExclusion
<1>1. LocksInv => MutualExclusion
  BY DEF LocksInv, Referring, OneInside, MutualExclusion, Inside
<1> QED BY <1>1, FileLockInvariant, PTL

\* The map holds an entry exactly while a call for its path is in flight, so
\* it cannot grow without bound (file-lock.ts:38-39).
THEOREM MapIsTight == Spec => []MapTracksCalls
<1>1. LocksInv => MapTracksCalls
  <2> SUFFICES ASSUME LocksInv PROVE MapTracksCalls
    OBVIOUS
  <2>1. ASSUME NEW k \in Paths, locks[k] # None
        PROVE  \E c \in Calls : entry[c] = locks[k] /\ key[c] = k
    BY <2>1 DEF LocksInv, TypeOK, Referring, OneKey, Kept
  <2>2. ASSUME NEW k \in Paths, NEW c \in Calls, key[c] = k
        PROVE  locks[k] # None /\ entry[c] = locks[k]
    BY <2>2 DEF LocksInv, Referring
  <2> QED BY <2>1, <2>2 DEF MapTracksCalls
<1> QED BY <1>1, FileLockInvariant, PTL

\* The operators of the instance are those of this module.
LEMMA LockOperators ==
  /\ \A S : Lock!Cardinality(S) = Cardinality(S)
  /\ \A q : Lock!ToSet(q) = ToSet(q)
<1>1. \A S : Lock!Cardinality(S) = Cardinality(S)
  BY DEF Lock!Cardinality, Cardinality
<1>2. \A q : Lock!ToSet(q) = ToSet(q)
  BY DEF Lock!ToSet, ToSet
<1> QED BY <1>1, <1>2

\* Who is inside, and who is in line, for a path with and without an entry.
LEMMA PathFacts ==
  ASSUME LocksInv, NEW k \in Paths
  PROVE  /\ locks[k] = None => Inside(k) = {} /\ Line(k) = <<>>
         /\ locks[k] # None => /\ Line(k) = queue[locks[k]]
                               /\ \E c \in Calls : Inside(k) = {c}
                               /\ \A c \in Calls : at[c] = "idle" => c \notin Inside(k) \cup ToSet(Line(k))
         /\ Line(k) \in Seq(Calls) /\ Distinct(Line(k))
<1>1. CASE locks[k] = None
  BY <1>1, EmptyQueue DEF LocksInv, Referring, Inside, Line
<1>2. CASE locks[k] # None
  <2>1. locks[k] \in Entries
    BY <1>2 DEF LocksInv, TypeOK
  <2>2. PICK c \in Calls : at[c] = "inside" /\ entry[c] = locks[k]
    BY <1>2 DEF LocksInv, Kept
  <2>3. key[c] = k
    BY <1>2, <2>2 DEF LocksInv, Referring, OneKey
  <2>4. \A d \in Calls : at[d] = "inside" /\ key[d] = k => d = c
    BY <2>2 DEF LocksInv, Referring, OneInside
  <2>5. Inside(k) = {c}
    BY <2>2, <2>3, <2>4 DEF Inside
  <2>6. \A d \in Calls : at[d] = "idle" => d \notin Inside(k) \cup ToSet(queue[locks[k]])
    BY <2>1 DEF Inside, LocksInv, Queued
  <2>7. queue[locks[k]] \in Seq(Calls) /\ Distinct(queue[locks[k]])
    BY <2>1 DEF LocksInv, TypeOK, Queued
  <2> QED BY <1>2, <2>5, <2>6, <2>7 DEF Line
<1> QED BY <1>1, <1>2

\* A path that a step does not touch keeps its holder and its line.
LEMMA Untouched ==
  ASSUME NEW k \in Paths, locks'[k] = locks[k],
         locks[k] # None => queue'[locks[k]] = queue[locks[k]],
         \A c \in Calls : at'[c] = "inside" /\ key'[c] = k <=> at[c] = "inside" /\ key[c] = k
  PROVE  Inside(k)' = Inside(k) /\ Line(k)' = Line(k)
BY DEF Inside, Line

LEMMA EnterNewRefines ==
  ASSUME LocksInv, NEW c \in Calls, NEW k \in Paths, EnterNew(c, k)
  PROVE  Lock!Take(c) \/ UNCHANGED Lock!poolVars
<1>1. PICK e \in Fresh :
        /\ locks' = [locks EXCEPT ![k] = e]
        /\ queue' = [queue EXCEPT ![e] = <<>>]
        /\ key' = [key EXCEPT ![c] = k]
  BY DEF EnterNew, Refer
<1>2. /\ at[c] = "idle" /\ key[c] = None /\ locks[k] = None
      /\ at' = [at EXCEPT ![c] = "inside"]
      /\ e \in Entries /\ e # None /\ \A l \in Paths : locks[l] # e
  BY <1>1 DEF EnterNew, Fresh, LocksInv, Referring
<1>3. CASE k = Watched
  <2>1. Inside(k) = {} /\ Line(k) = <<>>
    BY <1>2, PathFacts
  <2>2. Inside(k)' = {c}
    <3>1. \A d \in Calls : at'[d] = "inside" /\ key'[d] = k <=> d = c
      BY <1>1, <1>2, <2>1 DEF Inside, LocksInv, TypeOK
    <3> QED BY <3>1 DEF Inside
  <2>3. Line(k)' = <<>>
    BY <1>1, <1>2 DEF Line, LocksInv, TypeOK
  <2>4. Cardinality({}) = 0 /\ ToSet(<<>>) = {}
    BY FS_EmptySet, EmptyQueue
  <2> QED BY <1>3, <2>1, <2>2, <2>3, <2>4, LockOperators DEF Lock!Take
<1>4. CASE k # Watched
  <2>1. locks'[Watched] = locks[Watched] /\ (locks[Watched] # None => queue'[locks[Watched]] = queue[locks[Watched]])
    BY <1>1, <1>2, <1>4, WatchedAssumption DEF LocksInv, TypeOK
  <2>2. \A d \in Calls : at'[d] = "inside" /\ key'[d] = Watched <=> at[d] = "inside" /\ key[d] = Watched
    BY <1>1, <1>2, <1>4 DEF LocksInv, TypeOK
  <2> QED BY <2>1, <2>2, Untouched, WatchedAssumption DEF Lock!poolVars
<1> QED BY <1>3, <1>4

LEMMA EnterAgainRefines ==
  ASSUME LocksInv, NEW c \in Calls, NEW k \in Paths, EnterAgain(c, k)
  PROVE  Lock!Join(c) \/ UNCHANGED Lock!poolVars
<1>1. PICK e \in Entries : e = locks[k]
  BY DEF EnterAgain, LocksInv, TypeOK
<1>2. counter[e] = 0 /\ locks[k] # None /\ at[c] = "idle" /\ key[c] = None
  BY <1>1 DEF EnterAgain, LocksInv, Kept, Referring
<1>3. /\ queue' = [queue EXCEPT ![e] = Append(@, c)]
      /\ at' = [at EXCEPT ![c] = "waiting"]
      /\ key' = [key EXCEPT ![c] = k]
      /\ locks' = locks
  BY <1>1, <1>2 DEF EnterAgain, Acquire, Refer
<1>4. \A l \in Paths : Inside(l)' = Inside(l)
  <2>1. \A d \in Calls, l \in Paths : at'[d] = "inside" /\ key'[d] = l <=> at[d] = "inside" /\ key[d] = l
    BY <1>2, <1>3 DEF LocksInv, TypeOK
  <2> QED BY <2>1 DEF Inside
<1>5. CASE k = Watched
  <2>1. PICK d \in Calls : Inside(k) = {d}
    BY <1>2, PathFacts
  <2>2. c \notin Inside(k) \cup ToSet(Line(k)) /\ Line(k) = queue[e]
    BY <1>1, <1>2, PathFacts
  <2>3. Line(k)' = Append(Line(k), c)
    BY <1>1, <1>2, <1>3 DEF Line, LocksInv, TypeOK
  <2>4. Cardinality(Inside(k)) >= 1
    BY <2>1, FS_Singleton
  <2> QED BY <1>4, <1>5, <2>2, <2>3, <2>4, LockOperators DEF Lock!Join
<1>6. CASE k # Watched
  <2>1. locks[Watched] # e
    BY <1>1, <1>2, <1>6, WatchedAssumption DEF LocksInv, OneKey
  <2>2. Line(Watched)' = Line(Watched)
    BY <1>3, <2>1, WatchedAssumption DEF Line, LocksInv, TypeOK
  <2> QED BY <1>4, <2>2, WatchedAssumption DEF Lock!poolVars
<1> QED BY <1>5, <1>6

\* Both ways of leaving return the one permit of the pool.
LEMMA LeaveRefines ==
  ASSUME LocksInv, LocksInv', NEW c \in Calls, Leave(c)
  PROVE  (c \in Inside(Watched) /\ Lock!Return({c})) \/ UNCHANGED Lock!poolVars
<1>1. PICK e \in Entries, k \in Paths : e = entry[c] /\ k = key[c] /\ locks[k] = e
  BY DEF Leave, LeaveToHead, LeaveFree, LocksInv, Referring
<1>2. /\ at[c] = "inside" /\ CountOut(e, k) /\ Refer(c, None, None)
      /\ key' = [key EXCEPT ![c] = None]
      /\ e # None /\ locks[k] # None
  BY <1>1 DEF Leave, LeaveToHead, LeaveFree, Refer
<1>3. \A l \in Paths : locks'[l] = IF l = k /\ Users(e) = {c} THEN None ELSE locks[l]
  BY <1>1, <1>2, LeavingTheMap
<1>4. c \in Inside(k) /\ Inside(k) = {c} /\ Line(k) = queue[e]
  <2>1. c \in Inside(k)
    BY <1>1, <1>2 DEF Inside
  <2> QED BY <1>1, <1>2, <2>1, PathFacts
<1>5. CASE LeaveToHead(c)
  <2>1. queue[e] # <<>> /\ queue[e] \in Seq(Calls) /\ Distinct(queue[e])
    BY <1>1, <1>5 DEF LeaveToHead, LocksInv, TypeOK, Queued
  <2>2. PICK d \in Calls : d = Head(queue[e]) /\ d \in ToSet(queue[e])
    BY <2>1, ShiftProperties, ToSetIndexed
  <2>3. at[d] = "waiting" /\ entry[d] = e /\ d # c
    BY <1>2, <2>1, <2>2 DEF LocksInv, Queued
  <2>4. key[d] = k
    BY <1>1, <1>2, <2>3 DEF LocksInv, Referring, OneKey
  <2>5. /\ queue' = [queue EXCEPT ![e] = Tail(@)]
        /\ at' = [at EXCEPT ![c] = "idle", ![d] = "inside"]
    BY <1>1, <1>5, <2>2 DEF LeaveToHead
  <2>6. locks' = locks
    <3>1. d \in Users(e)
      BY <2>3 DEF Users
    <3> QED BY <1>3, <2>3, <3>1 DEF LocksInv, TypeOK
  <2>7. CASE k = Watched
    <3>1. Inside(k)' = {d}
      <4>1. d \in Inside(k)'
        BY <1>2, <2>3, <2>4, <2>5 DEF Inside, LocksInv, TypeOK
      <4>2. \A x \in Inside(k)' : x = d
        BY <1>2, <1>4, <2>3, <2>5 DEF Inside, LocksInv, TypeOK
      <4> QED BY <4>1, <4>2
    <3>2. Line(k)' = Tail(queue[e])
      BY <1>1, <1>2, <2>5, <2>6 DEF Line, LocksInv, TypeOK
    <3>3. Cardinality({c}) = 1
      BY FS_Singleton
    <3>4. /\ Head(queue[e]) = queue[e][1]
          /\ Tail(queue[e]) = SubSeq(queue[e], 2, Len(queue[e]))
          /\ 1 \in 1..Len(queue[e])
      BY <2>1, TailIsSubSeq
    <3>5. Lock!Heirs(1) = {d}
      BY <1>4, <2>2, <2>7, <3>4 DEF Lock!Heirs
    <3>6. Lock!Rest(1) = Tail(queue[e])
      BY <1>4, <2>7, <3>4 DEF Lock!Rest
    <3> QED BY <1>4, <2>7, <3>1, <3>2, <3>3, <3>5, <3>6, LockOperators DEF Lock!Return
  <2>8. CASE k # Watched
    <3>1. locks[Watched] # e
      BY <1>1, <1>2, <2>8, WatchedAssumption DEF LocksInv, OneKey
    <3>2. locks'[Watched] = locks[Watched] /\ queue'[locks[Watched]] = queue[locks[Watched]]
      BY <2>5, <2>6, <3>1, WatchedAssumption DEF LocksInv, TypeOK
    <3>3. \A x \in Calls : at'[x] = "inside" /\ key'[x] = Watched <=> at[x] = "inside" /\ key[x] = Watched
      BY <1>1, <1>2, <2>3, <2>4, <2>5, <2>8, WatchedAssumption DEF LocksInv, TypeOK
    <3> QED BY <3>2, <3>3, Untouched, WatchedAssumption DEF Lock!poolVars
  <2> QED BY <2>7, <2>8
<1>6. CASE LeaveFree(c)
  <2>1. queue[e] = <<>> /\ queue' = queue /\ at' = [at EXCEPT ![c] = "idle"]
    BY <1>1, <1>6 DEF LeaveFree
  <2>2. CASE k = Watched
    <3>1. Inside(k)' = {}
      BY <1>2, <1>4, <2>1 DEF Inside, LocksInv, TypeOK
    <3>2. Line(k)' = <<>>
      <4>1. locks'[k] = None
        <5>1. \A x \in Calls : ~(at'[x] = "inside" /\ key'[x] = k)
          BY <3>1 DEF Inside
        <5>2. locks'[k] # None => \E x \in Calls : at'[x] = "inside" /\ key'[x] = k
          BY DEF LocksInv, Kept, Referring, OneKey
        <5> QED BY <5>1, <5>2
      <4> QED BY <4>1 DEF Line
    <3>3. Cardinality({c}) = 1 /\ Len(queue[e]) = 0
      BY <2>1, FS_Singleton
    <3>4. Lock!Heirs(1) = {}
      BY <1>4, <2>2, <3>3 DEF Lock!Heirs
    <3>5. Lock!Rest(1) = <<>>
      <4>1. SubSeq(queue[e], 2, 0) = <<>>
        BY <2>1, SubSeqEmpty
      <4> QED BY <1>4, <2>2, <3>3, <4>1 DEF Lock!Rest
    <3> QED BY <1>4, <2>2, <3>1, <3>2, <3>3, <3>4, <3>5, LockOperators DEF Lock!Return
  <2>3. CASE k # Watched
    <3>1. locks'[Watched] = locks[Watched]
      BY <1>3, <2>3, WatchedAssumption
    <3>2. \A x \in Calls : at'[x] = "inside" /\ key'[x] = Watched <=> at[x] = "inside" /\ key[x] = Watched
      BY <1>1, <1>2, <2>1, <2>3, WatchedAssumption DEF LocksInv, TypeOK
    <3> QED BY <2>1, <3>1, <3>2, Untouched, WatchedAssumption DEF Lock!poolVars
  <2> QED BY <2>2, <2>3
<1> QED BY <1>5, <1>6 DEF Leave

\* withFileLock() implements a pool of one permit for every path: whichever
\* path is watched, each step is a step of its pool or leaves it alone
\* (file-lock.ts:33-66).
THEOREM LockRefinesPool == Spec => ImplementsLock
<1>1. Init => Lock!Init
  BY WatchedAssumption DEF Init, Lock!Init, Inside, Line
<1>2. ASSUME LocksInv, LocksInv', [Next]_vars
      PROVE  [Lock!Next]_(Lock!poolVars)
  <2>1. CASE UNCHANGED vars
    BY <2>1 DEF vars, Lock!poolVars, Inside, Line
  <2>2. ASSUME NEW c \in Calls, c \in Inside(Watched), Lock!Return({c})
        PROVE  Lock!Next
    <3>1. {c} \in SUBSET Inside(Watched)
      BY <2>2
    <3> QED BY <2>2, <3>1 DEF Lock!Next
  <2>3. CASE Next
    <3>1. PICK c \in Calls : (\E k \in Paths : EnterNew(c, k) \/ EnterAgain(c, k)) \/ Leave(c)
      BY <2>3 DEF Next
    <3>2. ASSUME NEW k \in Paths, EnterNew(c, k) PROVE [Lock!Next]_(Lock!poolVars)
      BY <1>2, <3>2, EnterNewRefines DEF Lock!Next
    <3>3. ASSUME NEW k \in Paths, EnterAgain(c, k) PROVE [Lock!Next]_(Lock!poolVars)
      BY <1>2, <3>3, EnterAgainRefines DEF Lock!Next
    <3>4. ASSUME Leave(c) PROVE [Lock!Next]_(Lock!poolVars)
      BY <1>2, <2>2, <3>4, LeaveRefines
    <3> QED BY <3>1, <3>2, <3>3, <3>4
  <2> QED BY <1>2, <2>1, <2>3
<1> QED BY <1>1, <1>2, FileLockInvariant, PTL DEF Spec, ImplementsLock, Lock!Spec
=============================================================================
