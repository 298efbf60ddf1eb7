---------------------- MODULE AgentOrchestratorProofs -----------------------
(***************************************************************************)
(* For every set of agents, every limit and every way their spawns, gates, *)
(* timeouts, cancellations and shutdowns interleave: no spawn permit is    *)
(* lost or invented, the permits implement PermitPool, and the spawn call, *)
(* the runtime, the terminal events, the completion promise and the entry  *)
(* of the aggregator of each agent tell the same story.                    *)
(***************************************************************************)
EXTENDS AgentOrchestrator, QueueLemmas

CallStates == {"idle", "waiting", "granted", "importing", "returned", "rejected"}

\* The inductive invariant: what the permits need to know of the spawn calls.
\* A release is harmless because a hooked agent holds its permit, a failing
\* spawn because a started call holds one without a hook yet, and a new call
\* cannot hold or wait for one already.
PermitInv ==
  /\ permits \in Nat
  /\ waitQueue \in Seq(Agents)
  /\ held \subseteq Agents
  /\ IsFiniteSet(held)
  /\ hooked \subseteq held
  /\ call \in [Agents -> CallStates]
  /\ PermitsConserved
  /\ NoIdlePermit
  /\ \A a \in Agents :
       /\ call[a] = "waiting" <=> a \in ToSet(waitQueue)
       /\ call[a] \in {"granted", "importing"} => a \in held \ hooked
       /\ call[a] = "idle" => a \notin held

USE LimitAssumption

LEMMA InitEstablishes == Init => PermitInv
<1> SUFFICES ASSUME Init PROVE PermitInv
  OBVIOUS
<1>1. waitQueue \in Seq(Agents) /\ Len(waitQueue) = 0 /\ ToSet(waitQueue) = {}
  <2>1. <<>> \in Seq(Agents) /\ Len(<<>>) = 0
    OBVIOUS
  <2>2. ToSet(<<>>) = {}
    BY <2>1, ToSetIndexed, Zenon
  <2> QED BY <2>1, <2>2 DEF Init
<1>2. IsFiniteSet({}) /\ Cardinality({}) = 0
  BY FS_EmptySet
<1> QED BY <1>1, <1>2 DEF Init, PermitInv, PermitsConserved, NoIdlePermit, CallStates

\* What semaphore.release() for the agents of R does to permits and queue.
LEMMA HandBackProperties ==
  ASSUME PermitInv, NEW R, R \subseteq held, NEW calls, HandBack(R, calls)
  PROVE  /\ permits' \in Nat
         /\ waitQueue' \in Seq(Agents)
         /\ held' = (held \ R) \cup FrontEntries(waitQueue, Cardinality(R))
         /\ held' \subseteq Agents /\ IsFiniteSet(held')
         /\ PermitsConserved' /\ NoIdlePermit'
         /\ call' = Put(calls, FrontEntries(waitQueue, Cardinality(R)), "granted")
         /\ FrontEntries(waitQueue, Cardinality(R)) \subseteq ToSet(waitQueue)
         /\ ToSet(waitQueue') = ToSet(waitQueue) \ FrontEntries(waitQueue, Cardinality(R))
         /\ ToSet(waitQueue') \subseteq ToSet(waitQueue) /\ held \ R \subseteq held'
<1>1. PICK k : k = Cardinality(R)
  OBVIOUS
<1>2. PICK heirs : heirs = FrontEntries(waitQueue, k)
  OBVIOUS
<1>3. /\ held' = (held \ R) \cup heirs
      /\ waitQueue' = SubSeq(waitQueue, k + 1, Len(waitQueue))
      /\ permits' = permits + k - Cardinality(heirs)
      /\ call' = Put(calls, heirs, "granted")
  BY <1>1, <1>2 DEF HandBack, FrontEntries
<1>4. /\ permits \in Nat /\ waitQueue \in Seq(Agents) /\ held \subseteq Agents
      /\ IsFiniteSet(held) /\ permits + Cardinality(held) = MaxConcurrentAgents
      /\ Distinct(waitQueue) /\ ToSet(waitQueue) \cap held = {}
      /\ waitQueue # <<>> => permits = 0
  BY DEF PermitInv, PermitsConserved, NoIdlePermit, Distinct
<1>5. /\ IsFiniteSet(R) /\ k \in Nat /\ k <= Cardinality(held) /\ Cardinality(held) \in Nat
      /\ IsFiniteSet(held \ R) /\ Cardinality(held \ R) = Cardinality(held) - k
  <2>1. IsFiniteSet(R) /\ Cardinality(R) <= Cardinality(held)
    BY <1>4, FS_Subset
  <2>2. Cardinality(R) \in Nat /\ Cardinality(held) \in Nat
    BY <1>4, <2>1, FS_CardinalityType
  <2>3. /\ IsFiniteSet(held \ R)
        /\ Cardinality(held \ R) = Cardinality(held) - Cardinality(held \cap R)
    BY <1>4, FS_Difference
  <2>4. held \cap R = R
    OBVIOUS
  <2> QED BY <1>1, <2>1, <2>2, <2>3, <2>4
<1>6. /\ heirs \subseteq ToSet(waitQueue) /\ IsFiniteSet(heirs) /\ Cardinality(heirs) <= k
      /\ k <= Len(waitQueue) => Cardinality(heirs) = k
      /\ Cardinality(heirs) \in Nat
  BY <1>2, <1>4, <1>5, FrontProperties, FS_CardinalityType
<1>7. /\ waitQueue' \in Seq(Agents) /\ Distinct(waitQueue')
      /\ ToSet(waitQueue') = ToSet(waitQueue) \ heirs
      /\ waitQueue' # <<>> => k < Len(waitQueue)
  BY <1>2, <1>3, <1>4, <1>5, BackProperties
<1>8. IsFiniteSet(held') /\ Cardinality(held') = Cardinality(held) - k + Cardinality(heirs)
  <2>1. (held \ R) \cap heirs = {}
    BY <1>4, <1>6
  <2>2. /\ IsFiniteSet((held \ R) \cup heirs)
        /\ Cardinality((held \ R) \cup heirs)
             = Cardinality(held \ R) + Cardinality(heirs) - Cardinality((held \ R) \cap heirs)
    BY <1>5, <1>6, FS_Union
  <2>3. Cardinality((held \ R) \cap heirs) = 0
    BY <2>1, FS_EmptySet
  <2> QED BY <1>3, <1>5, <1>6, <2>2, <2>3
<1>9. held' \subseteq Agents
  BY <1>3, <1>4, <1>6, ToSetIndexed
<1>10. permits' \in Nat /\ PermitsConserved'
  BY <1>3, <1>4, <1>5, <1>6, <1>8 DEF PermitsConserved
<1>11. waitQueue' # <<>> => permits' = 0
  <2>1. k < Len(waitQueue) => waitQueue # <<>>
    BY <1>4, <1>5
  <2>2. Len(waitQueue) \in Nat
    BY <1>4
  <2> QED BY <1>3, <1>4, <1>5, <1>6, <1>7, <2>1, <2>2
<1>12. ToSet(waitQueue') \cap held' = {}
  BY <1>3, <1>4, <1>7
<1>13. NoIdlePermit'
  BY <1>7, <1>11, <1>12 DEF NoIdlePermit, Distinct
<1>14. ToSet(waitQueue') \subseteq ToSet(waitQueue) /\ held \ R \subseteq held'
  BY <1>3, <1>7
<1> QED BY <1>1, <1>2, <1>3, <1>6, <1>7, <1>8, <1>9, <1>10, <1>13, <1>14


\* The calls after a hand-back: heirs are granted, all others are as in calls.
LEMMA HandBackCalls ==
  ASSUME PermitInv, NEW R, R \subseteq held, NEW calls \in [Agents -> CallStates],
         HandBack(R, calls)
  PROVE  /\ call' \in [Agents -> CallStates]
         /\ \A a \in Agents :
              IF a \in ToSet(waitQueue) \ ToSet(waitQueue')
                THEN call'[a] = "granted" /\ a \in held'
                ELSE call'[a] = calls[a] /\ (a \in held' <=> a \in held \ R)
<1>1. PICK heirs : heirs = FrontEntries(waitQueue, Cardinality(R))
  OBVIOUS
<1>2. /\ call' = Put(calls, heirs, "granted") /\ held' = (held \ R) \cup heirs
      /\ heirs \subseteq ToSet(waitQueue) /\ ToSet(waitQueue') = ToSet(waitQueue) \ heirs
  BY <1>1, HandBackProperties
<1>3. \A a : a \in ToSet(waitQueue) \ ToSet(waitQueue') <=> a \in heirs
  BY <1>2
<1>4. call' = [a \in Agents |-> IF a \in heirs THEN "granted" ELSE calls[a]]
  BY <1>2 DEF Put
<1>5. call' \in [Agents -> CallStates]
  BY <1>4 DEF CallStates
<1> QED BY <1>2, <1>3, <1>4, <1>5

\* releaseOnce() keeps the invariant, whichever agents it is called for.
LEMMA ReleaseKeeps ==
  ASSUME PermitInv, NEW S, ReleasePermits(S)
  PROVE  PermitInv'
<1>1. Hooked(S) \subseteq held /\ HandBack(Hooked(S), call) /\ hooked' = hooked \ S
      /\ Hooked(S) = S \cap hooked
  BY DEF ReleasePermits, Hooked, PermitInv
<1>2. call \in [Agents -> CallStates]
  BY DEF PermitInv
<1>3. /\ permits' \in Nat /\ waitQueue' \in Seq(Agents)
      /\ held' \subseteq Agents /\ IsFiniteSet(held')
      /\ PermitsConserved' /\ NoIdlePermit'
      /\ ToSet(waitQueue') \subseteq ToSet(waitQueue)
      /\ held \ Hooked(S) \subseteq held'
  BY <1>1, HandBackProperties
<1>4. /\ call' \in [Agents -> CallStates]
      /\ \A a \in Agents :
           IF a \in ToSet(waitQueue) \ ToSet(waitQueue')
             THEN call'[a] = "granted" /\ a \in held'
             ELSE call'[a] = call[a] /\ (a \in held' <=> a \in held \ Hooked(S))
  BY <1>1, <1>2, HandBackCalls
<1>5. hooked' \subseteq held'
  BY <1>1, <1>3 DEF PermitInv
<1>6. ToSet(waitQueue) \cap held = {} /\ hooked \subseteq held
  BY DEF PermitInv, NoIdlePermit
<1>7. ASSUME NEW a \in Agents
      PROVE  /\ call'[a] = "waiting" <=> a \in ToSet(waitQueue')
             /\ call'[a] \in {"granted", "importing"} => a \in held' \ hooked'
             /\ call'[a] = "idle" => a \notin held'
  <2>1. /\ call[a] = "waiting" <=> a \in ToSet(waitQueue)
        /\ call[a] \in {"granted", "importing"} => a \in held /\ a \notin hooked
        /\ call[a] = "idle" => a \notin held
    BY DEF PermitInv
  <2>2. CASE a \in ToSet(waitQueue) /\ a \notin ToSet(waitQueue')
    BY <1>1, <1>4, <1>6, <2>2
  <2>3. CASE ~(a \in ToSet(waitQueue) /\ a \notin ToSet(waitQueue'))
    <3>1. call'[a] = call[a] /\ (a \in held' <=> a \in held /\ a \notin Hooked(S))
      BY <1>4, <2>3
    <3>2. a \in ToSet(waitQueue) <=> a \in ToSet(waitQueue')
      BY <1>3, <2>3
    <3> QED BY <1>1, <2>1, <3>1, <3>2
  <2> QED BY <2>2, <2>3
<1> QED BY <1>3, <1>4, <1>5, <1>7 DEF PermitInv

\* A spawn() that takes a permit, and one that joins the queue.
LEMMA SpawnKeeps ==
  ASSUME PermitInv, NEW a \in Agents, Spawn(a)
  PROVE  PermitInv'
<1>1. /\ permits \in Nat /\ waitQueue \in Seq(Agents) /\ held \subseteq Agents
      /\ IsFiniteSet(held) /\ Cardinality(held) \in Nat
      /\ permits + Cardinality(held) = MaxConcurrentAgents
      /\ Distinct(waitQueue) /\ ToSet(waitQueue) \cap held = {}
      /\ waitQueue # <<>> => permits = 0
      /\ call \in [Agents -> CallStates]
  BY FS_CardinalityType DEF PermitInv, PermitsConserved, NoIdlePermit, Distinct
<1>2. a \notin held /\ a \notin ToSet(waitQueue) /\ hooked \subseteq held /\ hooked' = hooked
  BY DEF Spawn, PermitInv
<1>3. CASE permits > 0
  <2>1. /\ permits' = permits - 1 /\ held' = held \cup {a} /\ waitQueue' = waitQueue
        /\ call' = [call EXCEPT ![a] = "granted"]
    BY <1>1, <1>3 DEF Spawn
  <2>2. IsFiniteSet(held') /\ Cardinality(held') = Cardinality(held) + 1
    BY <1>1, <1>2, <2>1, FS_AddElement
  <2>3. waitQueue = <<>> /\ ToSet(waitQueue) = {}
    BY <1>1, <1>3, ToSetIndexed
  <2>4. call' \in [Agents -> CallStates]
    BY <1>1, <2>1 DEF CallStates
  <2>5. NoIdlePermit'
    BY <2>1, <2>3 DEF NoIdlePermit, PermitInv
  <2>6. ASSUME NEW b \in Agents
        PROVE  /\ call'[b] = "waiting" <=> b \in ToSet(waitQueue')
               /\ call'[b] \in {"granted", "importing"} => b \in held' \ hooked'
               /\ call'[b] = "idle" => b \notin held'
    BY <1>1, <1>2, <2>1 DEF PermitInv
  <2> QED BY <1>1, <1>2, <1>3, <2>1, <2>2, <2>4, <2>5, <2>6 DEF PermitInv, PermitsConserved
<1>4. CASE ~(permits > 0)
  <2>1. /\ permits' = permits /\ permits = 0 /\ held' = held /\ waitQueue' = Append(waitQueue, a)
        /\ call' = [call EXCEPT ![a] = "waiting"]
    BY <1>1, <1>4 DEF Spawn
  <2>2. /\ waitQueue' \in Seq(Agents) /\ Distinct(waitQueue')
        /\ ToSet(waitQueue') = ToSet(waitQueue) \cup {a}
    BY <1>1, <1>2, <2>1, PushProperties
  <2>3. call' \in [Agents -> CallStates]
    BY <1>1, <2>1 DEF CallStates
  <2>4. NoIdlePermit'
    BY <1>1, <1>2, <2>1, <2>2 DEF NoIdlePermit, Distinct
  <2>5. ASSUME NEW b \in Agents
        PROVE  /\ call'[b] = "waiting" <=> b \in ToSet(waitQueue')
               /\ call'[b] \in {"granted", "importing"} => b \in held' \ hooked'
               /\ call'[b] = "idle" => b \notin held'
    BY <1>1, <1>2, <2>1, <2>2 DEF PermitInv
  <2> QED BY <1>1, <1>2, <2>1, <2>2, <2>3, <2>4, <2>5 DEF PermitInv, PermitsConserved
<1> QED BY <1>3, <1>4

LEMMA SpawnTimeoutKeeps ==
  ASSUME PermitInv, NEW i \in 1..Len(waitQueue), SpawnTimeout(i)
  PROVE  PermitInv'
<1>1. /\ waitQueue \in Seq(Agents) /\ Distinct(waitQueue) /\ ToSet(waitQueue) \cap held = {}
      /\ call \in [Agents -> CallStates]
  BY DEF PermitInv, NoIdlePermit, Distinct
<1>2. /\ waitQueue' \in Seq(Agents) /\ Distinct(waitQueue')
      /\ ToSet(waitQueue') = ToSet(waitQueue) \ {waitQueue[i]}
  BY <1>1, SpliceProperties DEF SpawnTimeout
<1>3. waitQueue # <<>> /\ waitQueue[i] \in ToSet(waitQueue) /\ waitQueue[i] \in Agents
  BY <1>1, ToSetIndexed
<1>4. UNCHANGED <<permits, held, hooked>> /\ call' = [call EXCEPT ![waitQueue[i]] = "rejected"]
  BY DEF SpawnTimeout
<1>5. call' \in [Agents -> CallStates]
  BY <1>1, <1>4 DEF CallStates
<1>6. NoIdlePermit'
  BY <1>1, <1>2, <1>3, <1>4 DEF PermitInv, NoIdlePermit, Distinct
<1>7. ASSUME NEW b \in Agents
      PROVE  /\ call'[b] = "waiting" <=> b \in ToSet(waitQueue')
             /\ call'[b] \in {"granted", "importing"} => b \in held' \ hooked'
             /\ call'[b] = "idle" => b \notin held'
  BY <1>1, <1>2, <1>3, <1>4 DEF PermitInv
<1> QED BY <1>2, <1>4, <1>5, <1>6, <1>7 DEF PermitInv, PermitsConserved

\* backend.spawn() for one agent, in its three outcomes.
LEMMA BackendKeeps ==
  ASSUME PermitInv, NEW a \in Agents,
         BackendSpawn(a) \/ BackendSpawnFails(a) \/ BackendImports(a)
  PROVE  PermitInv'
<1>1. /\ call[a] = "granted" /\ a \in held \ hooked /\ call \in [Agents -> CallStates]
      /\ ToSet(waitQueue) \cap held = {} /\ hooked \subseteq held
  BY DEF BackendSpawn, BackendSpawnFails, BackendImports, PermitInv, NoIdlePermit
<1>2. ASSUME BackendSpawn(a) \/ BackendImports(a)
      PROVE  PermitInv'
  <2>1. /\ UNCHANGED <<permits, waitQueue, held>>
        /\ \/ hooked' = hooked \cup {a} /\ call' = [call EXCEPT ![a] = "returned"]
           \/ hooked' = hooked /\ call' = [call EXCEPT ![a] = "importing"]
    BY <1>2 DEF BackendSpawn, BackendImports, Register
  <2>2. call' \in [Agents -> CallStates]
    BY <1>1, <2>1 DEF CallStates
  <2>3. ASSUME NEW b \in Agents
        PROVE  /\ call'[b] = "waiting" <=> b \in ToSet(waitQueue')
               /\ call'[b] \in {"granted", "importing"} => b \in held' \ hooked'
               /\ call'[b] = "idle" => b \notin held'
    BY <1>1, <2>1 DEF PermitInv
  <2> QED BY <1>1, <2>1, <2>2, <2>3 DEF PermitInv, PermitsConserved, NoIdlePermit
<1>3. ASSUME BackendSpawnFails(a)
      PROVE  PermitInv'
  <2>1. PICK calls : calls = [call EXCEPT ![a] = "rejected"]
    OBVIOUS
  <2>2. HandBack({a}, calls) /\ hooked' = hooked /\ {a} \subseteq held
    BY <1>1, <1>3, <2>1 DEF BackendSpawnFails
  <2>3. calls \in [Agents -> CallStates]
    BY <1>1, <2>1 DEF CallStates
  <2>4. /\ permits' \in Nat /\ waitQueue' \in Seq(Agents)
        /\ held' \subseteq Agents /\ IsFiniteSet(held')
        /\ PermitsConserved' /\ NoIdlePermit'
        /\ ToSet(waitQueue') \subseteq ToSet(waitQueue) /\ held \ {a} \subseteq held'
    BY <2>2, HandBackProperties
  <2>5. /\ call' \in [Agents -> CallStates]
        /\ \A b \in Agents :
             IF b \in ToSet(waitQueue) \ ToSet(waitQueue')
               THEN call'[b] = "granted" /\ b \in held'
               ELSE call'[b] = calls[b] /\ (b \in held' <=> b \in held \ {a})
    BY <2>2, <2>3, HandBackCalls
  <2>6. hooked' \subseteq held'
    BY <1>1, <2>2, <2>4
  <2>7. ASSUME NEW b \in Agents
        PROVE  /\ call'[b] = "waiting" <=> b \in ToSet(waitQueue')
               /\ call'[b] \in {"granted", "importing"} => b \in held' \ hooked'
               /\ call'[b] = "idle" => b \notin held'
    <3>1. calls[b] = IF b = a THEN "rejected" ELSE call[b]
      BY <1>1, <2>1
    <3>2. /\ call[b] = "waiting" <=> b \in ToSet(waitQueue)
          /\ call[b] \in {"granted", "importing"} => b \in held /\ b \notin hooked
          /\ call[b] = "idle" => b \notin held
      BY DEF PermitInv
    <3>3. CASE b \in ToSet(waitQueue) /\ b \notin ToSet(waitQueue')
      BY <1>1, <2>2, <2>5, <3>3
    <3>4. CASE ~(b \in ToSet(waitQueue) /\ b \notin ToSet(waitQueue'))
      <4>1. call'[b] = calls[b] /\ (b \in held' <=> b \in held /\ b # a)
        BY <2>5, <3>4
      <4>2. b \in ToSet(waitQueue) <=> b \in ToSet(waitQueue')
        BY <2>4, <3>4
      <4>3. b = a => b \notin ToSet(waitQueue)
        BY <1>1
      <4> QED BY <2>2, <3>1, <3>2, <4>1, <4>2, <4>3
    <3> QED BY <3>3, <3>4
  <2> QED BY <2>4, <2>5, <2>6, <2>7 DEF PermitInv
<1> QED BY <1>2, <1>3

\* The spawns that waited for the import, some of which fail.
LEMMA EngineLoadsKeeps ==
  ASSUME PermitInv, NEW Failed, EngineLoads(Failed)
  PROVE  PermitInv'
<1>1. PICK importing : importing = {a \in Agents : call[a] = "importing"}
  OBVIOUS
<1>2. PICK started : started = importing \ Failed
  OBVIOUS
<1>3. PICK calls : calls = Put(Put(call, started, "returned"), Failed, "rejected")
  OBVIOUS
<1>4. Failed \subseteq importing /\ hooked' = hooked \cup started /\ HandBack(Failed, calls)
  BY <1>1, <1>2, <1>3 DEF EngineLoads, Register
<1>5. /\ call \in [Agents -> CallStates] /\ importing \subseteq held \ hooked
      /\ ToSet(waitQueue) \cap held = {} /\ hooked \subseteq held
  BY <1>1 DEF PermitInv, NoIdlePermit
<1>6. calls = [a \in Agents |-> IF a \in Failed THEN "rejected"
                                ELSE IF a \in started THEN "returned" ELSE call[a]]
  BY <1>3, <1>5 DEF Put
<1>7. calls \in [Agents -> CallStates]
  BY <1>5, <1>6 DEF CallStates
<1>8. /\ permits' \in Nat /\ waitQueue' \in Seq(Agents)
      /\ held' \subseteq Agents /\ IsFiniteSet(held')
      /\ PermitsConserved' /\ NoIdlePermit'
      /\ ToSet(waitQueue') \subseteq ToSet(waitQueue) /\ held \ Failed \subseteq held'
  BY <1>4, <1>5, HandBackProperties
<1>9. /\ call' \in [Agents -> CallStates]
      /\ \A b \in Agents :
           IF b \in ToSet(waitQueue) \ ToSet(waitQueue')
             THEN call'[b] = "granted" /\ b \in held'
             ELSE call'[b] = calls[b] /\ (b \in held' <=> b \in held \ Failed)
  BY <1>4, <1>5, <1>7, HandBackCalls
<1>10. hooked' \subseteq held'
  BY <1>2, <1>4, <1>5, <1>8
<1>11. ASSUME NEW b \in Agents
       PROVE  /\ call'[b] = "waiting" <=> b \in ToSet(waitQueue')
              /\ call'[b] \in {"granted", "importing"} => b \in held' \ hooked'
              /\ call'[b] = "idle" => b \notin held'
  <2>1. CASE b \in importing
    <3>1. calls[b] \in {"rejected", "returned"} /\ b \notin ToSet(waitQueue)
      BY <1>2, <1>5, <1>6, <2>1
    <3>2. call'[b] = calls[b] /\ b \notin ToSet(waitQueue')
      BY <1>8, <1>9, <3>1
    <3> QED BY <3>1, <3>2
  <2>2. CASE b \notin importing
    <3>1. calls[b] = call[b] /\ (b \in hooked' <=> b \in hooked) /\ b \notin Failed
          /\ call[b] # "importing"
      BY <1>1, <1>2, <1>4, <1>6, <2>2
    <3>2. /\ call[b] = "waiting" <=> b \in ToSet(waitQueue)
          /\ call[b] \in {"granted", "importing"} => b \in held /\ b \notin hooked
          /\ call[b] = "idle" => b \notin held
      BY DEF PermitInv
    <3>3. CASE b \in ToSet(waitQueue) /\ b \notin ToSet(waitQueue')
      BY <1>5, <1>9, <3>1, <3>3
    <3>4. CASE ~(b \in ToSet(waitQueue) /\ b \notin ToSet(waitQueue'))
      <4>1. call'[b] = calls[b] /\ (b \in held' <=> b \in held)
        BY <1>9, <3>1, <3>4
      <4>2. b \in ToSet(waitQueue) <=> b \in ToSet(waitQueue')
        BY <1>8, <3>4
      <4> QED BY <3>1, <3>2, <4>1, <4>2
    <3> QED BY <3>3, <3>4
  <2> QED BY <2>1, <2>2
<1> QED BY <1>8, <1>9, <1>10, <1>11 DEF PermitInv

LEMMA ShutdownKeeps ==
  ASSUME PermitInv, ShutdownAll
  PROVE  PermitInv'
<1>1. Hooked(active) \subseteq held /\ HandBack(Hooked(active), call) /\ hooked' = {}
  BY DEF ShutdownAll, Hooked, PermitInv
<1>2. call \in [Agents -> CallStates] /\ ToSet(waitQueue) \cap held = {}
      /\ Hooked(active) \subseteq hooked
  BY DEF PermitInv, NoIdlePermit, Hooked
<1>3. /\ permits' \in Nat /\ waitQueue' \in Seq(Agents)
      /\ held' \subseteq Agents /\ IsFiniteSet(held')
      /\ PermitsConserved' /\ NoIdlePermit'
      /\ ToSet(waitQueue') \subseteq ToSet(waitQueue)
  BY <1>1, HandBackProperties
<1>4. /\ call' \in [Agents -> CallStates]
      /\ \A a \in Agents :
           IF a \in ToSet(waitQueue) \ ToSet(waitQueue')
             THEN call'[a] = "granted" /\ a \in held'
             ELSE call'[a] = call[a] /\ (a \in held' <=> a \in held \ Hooked(active))
  BY <1>1, <1>2, HandBackCalls
<1>5. ASSUME NEW a \in Agents
      PROVE  /\ call'[a] = "waiting" <=> a \in ToSet(waitQueue')
             /\ call'[a] \in {"granted", "importing"} => a \in held' \ hooked'
             /\ call'[a] = "idle" => a \notin held'
  BY <1>1, <1>2, <1>3, <1>4 DEF PermitInv
<1> QED BY <1>1, <1>3, <1>4, <1>5 DEF PermitInv

\* Every other action releases permits through releaseOnce() or leaves them.
LEMMA StepPreserves ==
  ASSUME PermitInv, [Next]_vars
  PROVE  PermitInv'
<1>1. ASSUME UNCHANGED permitVars PROVE PermitInv'
  BY <1>1 DEF permitVars, PermitInv, PermitsConserved, NoIdlePermit
<1>2. ASSUME NEW a \in Agents, AgentStep(a)
      PROVE  PermitInv'
  <2>1. CASE Spawn(a)
    BY <2>1, SpawnKeeps
  <2>2. CASE BackendSpawn(a) \/ BackendSpawnFails(a) \/ BackendImports(a)
    BY <2>2, BackendKeeps
  <2>3. CASE AgentTimeout(a) \/ CompletesQueued(a) \/ CompletesResumed(a) \/ GateUnwinds(a)
             \/ GateResumesQueued(a) \/ WaitForCompletion(a)
    BY <1>1, <2>3 DEF AgentTimeout, CompletesQueued, CompletesResumed, GateUnwinds,
                      GateResumesQueued, WaitForCompletion
  <2>4. CASE LoopTimesOut(a) \/ LoopFails(a)
    BY <2>4, ReleaseKeeps DEF LoopTimesOut, LoopFails, EndsInError
  <2>5. CASE CompletesUnheard(a)
    BY <2>5, ReleaseKeeps DEF CompletesUnheard
  <2>6. CASE CompletesAccepted(a) \/ GateAcceptsQueued(a)
    BY <2>6, ReleaseKeeps DEF CompletesAccepted, GateAcceptsQueued, Accept
  <2>7. CASE WaitTimeout(a) \/ CancelActive(a) \/ CancelEnded(a)
    BY <2>7, ReleaseKeeps DEF WaitTimeout, CancelActive, CancelEnded
  <2> QED BY <1>2, <2>1, <2>2, <2>3, <2>4, <2>5, <2>6, <2>7 DEF AgentStep, LoopCompletes
<1>3. ASSUME NEW i \in 1..Len(waitQueue), SpawnTimeout(i)
      PROVE  PermitInv'
  BY <1>3, SpawnTimeoutKeeps
<1>4. ASSUME NEW Failed, EngineLoads(Failed)
      PROVE  PermitInv'
  BY <1>4, EngineLoadsKeeps
<1>5. CASE WaitForAll
  BY <1>1, <1>5 DEF WaitForAll
<1>6. CASE WaitAllTimeout
  BY <1>6, ReleaseKeeps DEF WaitAllTimeout
<1>7. CASE ShutdownAll
  BY <1>7, ShutdownKeeps
<1>8. CASE UNCHANGED vars
  BY <1>1, <1>8 DEF vars
<1> QED BY <1>2, <1>3, <1>4, <1>5, <1>6, <1>7, <1>8 DEF Next

\* The invariant of the permits holds throughout (agent-orchestrator.ts:103-181).
THEOREM PermitInvariant == Spec => []PermitInv
<1> QED BY InitEstablishes, StepPreserves, PTL DEF Spec

\* No interleaving of terminal events, wait timeouts, cancellations, failed
\* spawns and shutdowns loses a spawn permit or releases one twice
\* (releaseOnce, agent-orchestrator.ts:124-141).
THEOREM SpawnPermitsConserved == Spec => []PermitsConserved
<1>1. PermitInv => PermitsConserved
  BY DEF PermitInv
<1> QED BY <1>1, PermitInvariant, PTL

\* A spawn() waits only while every permit is out (agent-orchestrator.ts:115-117).
THEOREM SpawnWaitsOnlyAtTheLimit == Spec => []NoIdlePermit
<1>1. PermitInv => NoIdlePermit
  BY DEF PermitInv
<1> QED BY <1>1, PermitInvariant, PTL

-----------------------------------------------------------------------------
(* The permits implement PermitPool *)

\* The operators of the instance are those of this module.
LEMMA SameOperators ==
  /\ \A S : Pool!Cardinality(S) = Cardinality(S)
  /\ \A q : Pool!ToSet(q) = ToSet(q)
  /\ \A q, i : Pool!RemoveAt(q, i) = RemoveAt(q, i)
<1>1. \A S : Pool!Cardinality(S) = Cardinality(S)
  BY DEF Pool!Cardinality, Cardinality
<1>2. \A q : Pool!ToSet(q) = ToSet(q)
  BY DEF Pool!ToSet, ToSet
<1>3. \A q, i : Pool!RemoveAt(q, i) = RemoveAt(q, i)
  BY DEF Pool!RemoveAt, RemoveAt
<1> QED BY <1>1, <1>2, <1>3

\* Giving back a set of permits is one step of the pool, giving back none is
\* a step that the pool does not see.
LEMMA HandBackIsReturn ==
  ASSUME PermitInv, NEW R, R \subseteq held, NEW calls, HandBack(R, calls)
  PROVE  Pool!Next \/ UNCHANGED <<held, waitQueue>>
<1>1. PICK k : k = Cardinality(R)
  OBVIOUS
<1>2. /\ held' = (held \ R) \cup FrontEntries(waitQueue, k)
      /\ waitQueue' = SubSeq(waitQueue, k + 1, Len(waitQueue))
  BY <1>1 DEF HandBack, FrontEntries
<1>3. CASE R = {}
  <2>1. k = 0
    BY <1>1, <1>3, FS_EmptySet
  <2>2. waitQueue \in Seq(Agents)
    BY DEF PermitInv
  <2>3. SubSeq(waitQueue, 1, Len(waitQueue)) = waitQueue
    BY <2>2, SubSeqFull
  <2>4. FrontEntries(waitQueue, 0) = {}
    BY DEF FrontEntries
  <2>5. 0 + 1 = 1
    OBVIOUS
  <2> QED BY <1>2, <1>3, <2>1, <2>3, <2>4, <2>5
<1>4. CASE R # {}
  <2>1. Pool!Heirs(k) = FrontEntries(waitQueue, k)
    BY DEF Pool!Heirs, FrontEntries
  <2>2. Pool!Rest(k) = SubSeq(waitQueue, k + 1, Len(waitQueue))
    BY DEF Pool!Rest
  <2>3. Pool!Cardinality(R) = k
    BY <1>1, SameOperators
  <2>4. Pool!Return(R)
    BY <1>2, <1>4, <2>1, <2>2, <2>3 DEF Pool!Return
  <2>5. R \in SUBSET held
    OBVIOUS
  <2> QED BY <2>4, <2>5 DEF Pool!Next
<1> QED BY <1>3, <1>4

LEMMA ReleaseIsReturn ==
  ASSUME PermitInv, NEW S, ReleasePermits(S)
  PROVE  Pool!Next \/ UNCHANGED <<held, waitQueue>>
<1>1. Hooked(S) \subseteq held /\ HandBack(Hooked(S), call)
  BY DEF ReleasePermits, Hooked, PermitInv
<1> QED BY <1>1, HandBackIsReturn

LEMMA PoolStep ==
  ASSUME PermitInv, Next
  PROVE  Pool!Next \/ UNCHANGED <<held, waitQueue>>
<1>0. /\ Cardinality(held) \in Nat /\ permits + Cardinality(held) = MaxConcurrentAgents
      /\ permits \in Nat
  BY FS_CardinalityType DEF PermitInv, PermitsConserved
<1>1. ASSUME NEW a \in Agents, AgentStep(a)
      PROVE  Pool!Next \/ UNCHANGED <<held, waitQueue>>
  <2>1. CASE Spawn(a)
    <3>1. call[a] = "idle" /\ a \notin held \cup ToSet(waitQueue)
      BY <2>1 DEF Spawn, PermitInv
    <3>2. CASE permits > 0
      <4>1. held' = held \cup {a} /\ waitQueue' = waitQueue
        BY <2>1, <3>2 DEF Spawn
      <4>2. Pool!Take(a)
        BY <1>0, <3>1, <3>2, <4>1, SameOperators DEF Pool!Take
      <4> QED BY <4>2 DEF Pool!Next
    <3>3. CASE permits = 0
      <4>1. held' = held /\ waitQueue' = Append(waitQueue, a)
        BY <2>1, <3>3 DEF Spawn
      <4>2. Pool!Join(a)
        BY <1>0, <3>1, <3>3, <4>1, SameOperators DEF Pool!Join
      <4> QED BY <4>2 DEF Pool!Next
    <3> QED BY <1>0, <3>2, <3>3
  <2>2. CASE BackendSpawnFails(a)
    <3>1. {a} \subseteq held /\ HandBack({a}, [call EXCEPT ![a] = "rejected"])
      BY <2>2 DEF BackendSpawnFails, PermitInv
    <3> QED BY <3>1, HandBackIsReturn
  <2>3. CASE BackendSpawn(a) \/ BackendImports(a) \/ AgentTimeout(a) \/ CompletesQueued(a)
             \/ CompletesResumed(a) \/ GateUnwinds(a) \/ GateResumesQueued(a)
             \/ WaitForCompletion(a)
    BY <2>3 DEF BackendSpawn, BackendImports, AgentTimeout, CompletesQueued, CompletesResumed,
                GateUnwinds, GateResumesQueued, WaitForCompletion, permitVars
  <2>4. CASE LoopTimesOut(a) \/ LoopFails(a)
    BY <2>4, ReleaseIsReturn DEF LoopTimesOut, LoopFails, EndsInError
  <2>5. CASE CompletesUnheard(a)
    BY <2>5, ReleaseIsReturn DEF CompletesUnheard
  <2>6. CASE CompletesAccepted(a) \/ GateAcceptsQueued(a)
    BY <2>6, ReleaseIsReturn DEF CompletesAccepted, GateAcceptsQueued, Accept
  <2>7. CASE WaitTimeout(a) \/ CancelActive(a) \/ CancelEnded(a)
    BY <2>7, ReleaseIsReturn DEF WaitTimeout, CancelActive, CancelEnded
  <2> QED BY <1>1, <2>1, <2>2, <2>3, <2>4, <2>5, <2>6, <2>7 DEF AgentStep, LoopCompletes
<1>2. ASSUME NEW i \in 1..Len(waitQueue), SpawnTimeout(i)
      PROVE  Pool!Next
  <2>1. Pool!GiveUp(i)
    BY <1>2, SameOperators DEF SpawnTimeout, Pool!GiveUp
  <2> QED BY <2>1 DEF Pool!Next
<1>3. ASSUME NEW Failed, EngineLoads(Failed)
      PROVE  Pool!Next \/ UNCHANGED <<held, waitQueue>>
  <2>1. Failed \subseteq held
    BY <1>3 DEF EngineLoads, PermitInv
  <2> QED BY <1>3, <2>1, HandBackIsReturn DEF EngineLoads
<1>4. CASE WaitForAll
  BY <1>4 DEF WaitForAll, permitVars
<1>5. CASE WaitAllTimeout
  BY <1>5, ReleaseIsReturn DEF WaitAllTimeout
<1>6. CASE ShutdownAll
  <2>1. Hooked(active) \subseteq held /\ HandBack(Hooked(active), call)
    BY <1>6 DEF ShutdownAll, Hooked, PermitInv
  <2> QED BY <2>1, HandBackIsReturn
<1> QED BY <1>1, <1>2, <1>3, <1>4, <1>5, <1>6 DEF Next

\* The spawn permits are a permit pool, whatever the agents that hold them do:
\* an agent that queued earlier is served earlier, even when a timeout or a
\* shutdown gives back many permits at once (agent-orchestrator.ts:599-609, 701-708).
THEOREM PermitsRefinePool == Spec => ImplementsPool
<1>1. Init => Pool!Init
  BY DEF Init, Pool!Init
<1>2. PermitInv /\ [Next]_vars => [Pool!Next]_(Pool!poolVars)
  <2>1. ASSUME UNCHANGED vars PROVE UNCHANGED <<held, waitQueue>>
    BY <2>1 DEF vars, permitVars
  <2> QED BY <2>1, PoolStep DEF Pool!poolVars
<1> QED BY <1>1, <1>2, PermitInvariant, PTL DEF Spec, Pool!Spec, ImplementsPool

-----------------------------------------------------------------------------
(* Agents, trackers and the aggregator *)

\* An agent whose engine was imported after it had been cancelled or shut down:
\* its loop runs, aborted, and its terminal event is out already.
Doomed(a) == ~WarmStart /\ a \in sent \cap aborted

\* No agent is doomed, or cancel() does not come upon one.
Calm == WarmStart \/ "cancel" \notin Operations

\* No timeout of waitForAll() comes upon an agent whose engine is being imported.
Prompt == WarmStart \/ "waitForAll" \notin Operations

\* How the parts of the state agree on one agent: the spawn() call, the
\* runtime, the loop, the terminal event guard, the tracker, its handler and the
\* entry of the aggregator.
Consistent(a) ==
  /\ call[a] \in {"idle", "waiting", "granted"} => a \notin active \cup sent /\ aggregator[a] = "absent"
  /\ call[a] # "returned" => track[a] = "none" /\ a \notin looping \cup processing \cup pending \cup waiting
  /\ call[a] = "importing" => ~WarmStart /\ (a \in active \/ Doomed(a))
  /\ call[a] = "importing" /\ Prompt => aggregator[a] = "absent"
  /\ a \in active => a \notin sent \cup pending /\ track[a] # "settled"
  /\ a \in pending => a \in sent /\ a \notin looping \cup aborted
  /\ a \in sent \cap looping => a \in aborted
  /\ a \in processing => track[a] = "open"
  /\ track[a] = "open" => a \in active \/ a \in processing \cap pending \/ Doomed(a)
  /\ track[a] = "open" /\ Prompt => aggregator[a] = "pending" \/ Doomed(a)
  /\ track[a] = "open" /\ Calm => a \in hooked
  /\ track[a] = "settled" => a \notin waiting /\ aggregator[a] \in {verdict[a], "cancelled"}
  /\ track[a] = "abandoned" => aggregator[a] \in {"timed_out", "cancelled"}
  /\ events[a] = followUps[a] + IF a \in sent THEN 1 ELSE 0

\* The types, those of the permits excepted.
Typed ==
  /\ engineLoaded \in BOOLEAN /\ stopped \in BOOLEAN
  /\ \A set \in {active, looping, aborted, sent, retained, contexts, processing, pending, waiting} :
        set \subseteq Agents
  /\ status \in [Agents -> {"none", "running"} \cup TerminalStatus]
  /\ track \in [Agents -> {"none", "open", "settled", "abandoned"}]
  /\ verdict \in [Agents -> {"none"} \cup TerminalStatus]
  /\ followUps \in [Agents -> 0..2]
  /\ aggregator \in [Agents -> {"absent", "pending"} \cup TerminalStatus]
  /\ waitAll \in {"idle", "waiting", "deaf", "done", "timed_out"}
  /\ events \in [Agents -> Nat]

AgentInv ==
  /\ PermitInv /\ Typed
  /\ WarmStart => engineLoaded
  /\ waitAll = "idle" \/ "waitForAll" \in Operations
  /\ \A a \in Agents : Consistent(a)

\* What a step that is not about agent b leaves of it.
Same(b) ==
  /\ b \in active' <=> b \in active
  /\ b \in sent' <=> b \in sent
  /\ b \in looping' <=> b \in looping
  /\ b \in aborted' <=> b \in aborted
  /\ b \in processing' <=> b \in processing
  /\ b \in pending' <=> b \in pending
  /\ b \in waiting' <=> b \in waiting
  /\ b \in hooked' <=> b \in hooked
  /\ track'[b] = track[b] /\ verdict'[b] = verdict[b] /\ followUps'[b] = followUps[b]
  /\ aggregator'[b] = aggregator[b] /\ events'[b] = events[b]

\* A spawn() call stays where it is, or goes on or is rejected before the backend
\* is asked.
CallMoves(b) ==
  \/ call'[b] = call[b]
  \/ /\ call[b] \in {"idle", "waiting", "granted"}
     /\ call'[b] \in {"waiting", "granted", "rejected"}

\* An agent on record as timed out or cancelled, and what a step keeps of b.
Late(b) == aggregator[b] \in {"timed_out", "cancelled"}
Kept(b) == Consistent(b)' /\ (Prompt /\ Late(b) => Late(b)')

LEMMA SameKeeps ==
  ASSUME NEW b \in Agents, Consistent(b), Same(b), CallMoves(b)
  PROVE  Kept(b)
BY DEF Consistent, Same, CallMoves, Doomed, Calm, Prompt, Kept, Late

\* What settling the trackers of S does to agent b.
LEMMA SettleAt ==
  ASSUME Typed, NEW S, NEW v \in TerminalStatus, Settle(S, v), NEW b \in Agents
  PROVE  /\ track'[b] = IF b \in S THEN "settled" ELSE track[b]
         /\ verdict'[b] = IF b \in S THEN v ELSE verdict[b]
         /\ processing' = processing \ S /\ pending' = pending \ S /\ waiting' = waiting \ S
         /\ followUps' = followUps
         /\ track' \in [Agents -> {"none", "open", "settled", "abandoned"}]
         /\ verdict' \in [Agents -> {"none"} \cup TerminalStatus]
<1>1. /\ track' = Put(track, S, "settled") /\ verdict' = Put(verdict, S, v)
      /\ processing' = processing \ S /\ pending' = pending \ S /\ waiting' = waiting \ S
      /\ followUps' = followUps
  BY DEF Settle
<1>2. /\ track \in [Agents -> {"none", "open", "settled", "abandoned"}]
      /\ verdict \in [Agents -> {"none"} \cup TerminalStatus]
  BY DEF Typed
<1>3. /\ Put(track, S, "settled") \in [Agents -> {"none", "open", "settled", "abandoned"}]
      /\ \A x \in Agents : Put(track, S, "settled")[x] = IF x \in S THEN "settled" ELSE track[x]
  <2>1. "settled" \in {"none", "open", "settled", "abandoned"}
    OBVIOUS
  <2> QED BY <1>2, <2>1 DEF Put
<1>4. /\ Put(verdict, S, v) \in [Agents -> {"none"} \cup TerminalStatus]
      /\ \A x \in Agents : Put(verdict, S, v)[x] = IF x \in S THEN v ELSE verdict[x]
  <2>1. v \in {"none"} \cup TerminalStatus
    OBVIOUS
  <2> QED BY <1>2, <2>1 DEF Put
<1> QED BY <1>1, <1>3, <1>4

\* What publishing for the agents of S does to agent b.
LEMMA PublishAt ==
  ASSUME Typed, NEW S, Publish(S), NEW b \in Agents
  PROVE  /\ sent' = sent \cup S
         /\ b \in S \ sent => events'[b] = events[b] + 1
         /\ b \notin S \ sent => events'[b] = events[b]
         /\ events' \in [Agents -> Nat]
<1>1. /\ events \in [Agents -> Nat] /\ sent' = sent \cup S
      /\ events' = [a \in Agents |-> events[a] + IF a \in S \ sent THEN 1 ELSE 0]
  BY DEF Typed, Publish, Publishing
<1>2. events' \in [Agents -> Nat]
  BY <1>1
<1>3. events'[b] = events[b] + IF b \in S \ sent THEN 1 ELSE 0
  BY <1>1
<1>4. events[b] + 0 = events[b]
  BY <1>1
<1> QED BY <1>1, <1>2, <1>3, <1>4

\* The domains of the functions, and what holds of one agent.
LEMMA AgentFacts ==
  ASSUME AgentInv
  PROVE  /\ call \in [Agents -> CallStates]
         /\ track \in [Agents -> {"none", "open", "settled", "abandoned"}]
         /\ verdict \in [Agents -> {"none"} \cup TerminalStatus]
         /\ aggregator \in [Agents -> {"absent", "pending"} \cup TerminalStatus]
         /\ followUps \in [Agents -> 0..2] /\ events \in [Agents -> Nat]
         /\ PermitInv /\ Typed /\ (WarmStart => engineLoaded)
         /\ (waitAll = "idle" \/ "waitForAll" \in Operations)
         /\ \A b \in Agents : Consistent(b)
BY DEF AgentInv, Typed, PermitInv

\* Where the backend and the trackers are left alone, only the call moves.
LEMMA NothingElse ==
  ASSUME NEW b \in Agents, UNCHANGED <<hooked, backendVars, trackVars, aggregator>>
  PROVE  Same(b)
BY DEF Same, backendVars, trackVars

LEMMA SpawnAgrees ==
  ASSUME AgentInv, NEW a \in Agents, Spawn(a), NEW b \in Agents
  PROVE  Kept(b)
<1>1. Same(b)
  BY NothingElse DEF Spawn, resultVars
<1>2. CallMoves(b)
  BY AgentFacts DEF Spawn, CallMoves
<1> QED BY <1>1, <1>2, AgentFacts, SameKeeps

LEMMA SpawnTimeoutAgrees ==
  ASSUME AgentInv, NEW i \in 1..Len(waitQueue), SpawnTimeout(i), NEW b \in Agents
  PROVE  Kept(b)
<1>1. Same(b)
  BY NothingElse DEF SpawnTimeout, resultVars
<1>2. waitQueue \in Seq(Agents) /\ waitQueue[i] \in ToSet(waitQueue) /\ waitQueue[i] \in Agents
  BY ToSetIndexed DEF AgentInv, PermitInv
<1>3. call[waitQueue[i]] = "waiting"
  BY <1>2 DEF AgentInv, PermitInv
<1>4. CallMoves(b)
  BY <1>2, <1>3, AgentFacts DEF SpawnTimeout, CallMoves
<1> QED BY <1>1, <1>4, AgentFacts, SameKeeps

LEMMA BackendSpawnAgrees ==
  ASSUME AgentInv, NEW a \in Agents, BackendSpawn(a), NEW b \in Agents
  PROVE  Kept(b)
<1>1. /\ call[a] = "granted" /\ call' = [call EXCEPT ![a] = "returned"]
      /\ active' = active \cup {a} /\ looping' = looping \cup {a} /\ hooked' = hooked \cup {a}
      /\ track' = Put(track, {a}, "open") /\ aggregator' = Put(aggregator, {a}, "pending")
      /\ UNCHANGED <<sent, aborted, processing, pending, waiting, verdict, followUps, events>>
  BY DEF BackendSpawn, EnterRuntime, Register
<1>2. /\ track'[b] = IF b = a THEN "open" ELSE track[b]
      /\ aggregator'[b] = IF b = a THEN "pending" ELSE aggregator[b]
      /\ call'[b] = IF b = a THEN "returned" ELSE call[b]
  BY <1>1, AgentFacts DEF Put
<1>3. Consistent(b)
  BY AgentFacts
<1>4. CASE b # a
  <2>1. Same(b) /\ CallMoves(b)
    BY <1>1, <1>2, <1>4 DEF Same, CallMoves
  <2> QED BY <1>3, <2>1, SameKeeps
<1>5. CASE b = a
  <2>1. Consistent(b)'
    BY <1>1, <1>2, <1>3, <1>5 DEF Consistent, Doomed, Calm, Prompt
  <2>2. ~Late(b)
    BY <1>1, <1>3, <1>5 DEF Consistent, Late, Prompt, Doomed
  <2> QED BY <2>1, <2>2 DEF Kept
<1> QED BY <1>4, <1>5

LEMMA BackendImportsAgrees ==
  ASSUME AgentInv, NEW a \in Agents, BackendImports(a), NEW b \in Agents
  PROVE  Kept(b)
<1>1. /\ call[a] = "granted" /\ call' = [call EXCEPT ![a] = "importing"] /\ ~WarmStart
      /\ active' = active \cup {a}
      /\ UNCHANGED <<looping, hooked, track, aggregator, sent, aborted, processing, pending,
                     waiting, verdict, followUps, events>>
  BY AgentFacts DEF BackendImports, EnterRuntime, trackVars, resultVars
<1>2. call'[b] = IF b = a THEN "importing" ELSE call[b]
  BY <1>1, AgentFacts
<1>3. Consistent(b)
  BY AgentFacts
<1>4. CASE b # a
  <2>1. Same(b) /\ CallMoves(b)
    BY <1>1, <1>2, <1>4 DEF Same, CallMoves
  <2> QED BY <1>3, <2>1, SameKeeps
<1>5. CASE b = a
  <2>1. Consistent(b)'
    BY <1>1, <1>2, <1>3, <1>5 DEF Consistent, Doomed, Calm, Prompt
  <2> QED BY <1>1, <2>1 DEF Kept, Late
<1> QED BY <1>4, <1>5

LEMMA BackendSpawnFailsAgrees ==
  ASSUME AgentInv, NEW a \in Agents, BackendSpawnFails(a), NEW b \in Agents
  PROVE  Kept(b)
<1>0. /\ call[a] = "granted" /\ {a} \subseteq held
      /\ active' = active \cup {a}
      /\ UNCHANGED <<looping, hooked, track, aggregator, sent, aborted, processing, pending,
                     waiting, verdict, followUps, events>>
  BY AgentFacts DEF BackendSpawnFails, EnterRuntime, trackVars, resultVars, PermitInv
<1>1. PICK calls : calls = [call EXCEPT ![a] = "rejected"]
  OBVIOUS
<1>2. calls \in [Agents -> CallStates] /\ calls[b] = IF b = a THEN "rejected" ELSE call[b]
  BY <1>1, AgentFacts DEF CallStates
<1>3. IF b \in ToSet(waitQueue) \ ToSet(waitQueue')
        THEN call'[b] = "granted" /\ b \in held'
        ELSE call'[b] = calls[b] /\ (b \in held' <=> b \in held \ {a})
  <2>1. HandBack({a}, calls)
    BY <1>1 DEF BackendSpawnFails
  <2> QED BY <1>0, <1>2, <2>1, HandBackCalls, AgentFacts
<1>4. b \in ToSet(waitQueue) => call[b] = "waiting"
  BY AgentFacts DEF PermitInv
<1>5. Consistent(b)
  BY AgentFacts
<1>6. CASE b # a
  <2>1. Same(b)
    BY <1>0, <1>6 DEF Same
  <2>2. CallMoves(b)
    BY <1>2, <1>3, <1>4, <1>6 DEF CallMoves
  <2> QED BY <1>5, <2>1, <2>2, SameKeeps
<1>7. CASE b = a
  <2>1. call'[b] = "rejected"
    BY <1>0, <1>2, <1>3, <1>4, <1>7
  <2>2. Consistent(b)'
    BY <1>0, <1>5, <1>7, <2>1 DEF Consistent, Doomed, Calm, Prompt
  <2>3. ~Late(b)
    BY <1>0, <1>5, <1>7 DEF Consistent, Late, Prompt, Doomed
  <2> QED BY <2>2, <2>3 DEF Kept
<1> QED BY <1>6, <1>7

LEMMA EngineLoadsAgrees ==
  ASSUME AgentInv, NEW Failed, EngineLoads(Failed), NEW b \in Agents
  PROVE  Kept(b)
<1>1. PICK importing : importing = {a \in Agents : call[a] = "importing"}
  OBVIOUS
<1>2. PICK started : started = importing \ Failed
  OBVIOUS
<1>3. PICK calls : calls = Put(Put(call, started, "returned"), Failed, "rejected")
  OBVIOUS
<1>4. /\ Failed \subseteq importing /\ importing # {} /\ HandBack(Failed, calls)
      /\ looping' = looping \cup started /\ hooked' = hooked \cup started
      /\ track' = Put(track, started, "open") /\ aggregator' = Put(aggregator, started, "pending")
      /\ UNCHANGED <<active, sent, aborted, processing, pending, waiting, verdict, followUps,
                     events>>
  BY <1>1, <1>2, <1>3 DEF EngineLoads, Register
<1>5. /\ call \in [Agents -> CallStates] /\ Failed \subseteq held
      /\ b \in ToSet(waitQueue) => call[b] = "waiting"
  BY <1>1, <1>4, AgentFacts DEF PermitInv
<1>6. calls = [a \in Agents |-> IF a \in Failed THEN "rejected"
                                ELSE IF a \in started THEN "returned" ELSE call[a]]
  BY <1>3, <1>5 DEF Put
<1>7. calls \in [Agents -> CallStates]
  BY <1>5, <1>6 DEF CallStates
<1>8. IF b \in ToSet(waitQueue) \ ToSet(waitQueue')
        THEN call'[b] = "granted" /\ b \in held'
        ELSE call'[b] = calls[b] /\ (b \in held' <=> b \in held \ Failed)
  BY <1>4, <1>5, <1>7, HandBackCalls, AgentFacts
<1>9. Consistent(b)
  BY AgentFacts
<1>10. ~WarmStart
  <2>1. PICK c \in Agents : call[c] = "importing"
    BY <1>1, <1>4
  <2>2. Consistent(c)
    BY AgentFacts
  <2> QED BY <2>1, <2>2 DEF Consistent
<1>11. /\ track'[b] = IF b \in started THEN "open" ELSE track[b]
       /\ aggregator'[b] = IF b \in started THEN "pending" ELSE aggregator[b]
  BY <1>4, AgentFacts DEF Put
<1>12. CASE b \in started
  <2>1. call[b] = "importing" /\ call'[b] = "returned"
    BY <1>1, <1>2, <1>5, <1>6, <1>8, <1>12
  <2>2. Consistent(b)'
    BY <1>4, <1>9, <1>10, <1>11, <1>12, <2>1 DEF Consistent, Doomed, Calm, Prompt
  <2>3. ~(Prompt /\ Late(b))
    BY <1>9, <2>1 DEF Consistent, Late
  <2> QED BY <2>2, <2>3 DEF Kept
<1>13. CASE b \in Failed
  <2>1. call[b] = "importing" /\ call'[b] = "rejected" /\ b \notin started
    BY <1>1, <1>2, <1>4, <1>5, <1>6, <1>8, <1>13
  <2>2. Consistent(b)'
    BY <1>4, <1>9, <1>10, <1>11, <2>1 DEF Consistent, Doomed, Calm, Prompt
  <2>3. ~(Prompt /\ Late(b))
    BY <1>9, <2>1 DEF Consistent, Late
  <2> QED BY <2>2, <2>3 DEF Kept
<1>14. CASE b \notin started \cup Failed
  <2>1. Same(b)
    BY <1>4, <1>11, <1>14 DEF Same
  <2>2. CallMoves(b)
    BY <1>5, <1>6, <1>8, <1>14 DEF CallMoves
  <2> QED BY <1>9, <2>1, <2>2, SameKeeps
<1> QED BY <1>12, <1>13, <1>14

\* A release of S moves calls, and takes the hook of agents of S only.
LEMMA ReleaseAt ==
  ASSUME AgentInv, NEW S, ReleasePermits(S), NEW b \in Agents
  PROVE  CallMoves(b) /\ (call[b] \in {"importing", "returned"} => call'[b] = call[b])
         /\ (b \notin S => (b \in hooked' <=> b \in hooked))
<1>1. Hooked(S) \subseteq held /\ HandBack(Hooked(S), call) /\ hooked' = hooked \ S
  BY AgentFacts DEF ReleasePermits, Hooked, PermitInv
<1>2. call \in [Agents -> CallStates] /\ (b \in ToSet(waitQueue) => call[b] = "waiting")
  BY AgentFacts DEF PermitInv
<1>3. IF b \in ToSet(waitQueue) \ ToSet(waitQueue')
        THEN call'[b] = "granted" /\ b \in held'
        ELSE call'[b] = call[b] /\ (b \in held' <=> b \in held \ Hooked(S))
  BY <1>1, <1>2, HandBackCalls, AgentFacts
<1> QED BY <1>1, <1>2, <1>3 DEF CallMoves

LEMMA AgentTimeoutAgrees ==
  ASSUME AgentInv, NEW a \in Agents, AgentTimeout(a), NEW b \in Agents
  PROVE  Kept(b)
<1>1. /\ a \in looping /\ aborted' = aborted \cup {a}
      /\ UNCHANGED <<call, hooked, active, looping, sent, events, track, verdict, followUps,
                     processing, pending, waiting, aggregator>>
  BY DEF AgentTimeout, permitVars, trackVars, resultVars
<1>2. Consistent(b)
  BY AgentFacts
<1>3. Consistent(b)'
  BY <1>1, <1>2 DEF Consistent, Doomed, Calm, Prompt
<1> QED BY <1>1, <1>3 DEF Kept, Late

\* A loop that ends in an error: its tracker, if it listens, settles.
LEMMA EndsInErrorAgrees ==
  ASSUME AgentInv, NEW a \in Agents, NEW s \in TerminalStatus, EndsInError(a, s), NEW b \in Agents
  PROVE  Kept(b)
<1>1. PICK settling : settling = Listening(Publishing({a}))
  OBVIOUS
<1>2. /\ a \in looping /\ looping' = looping \ {a} /\ active' = active \ {a} /\ aborted' = aborted
      /\ Publish({a}) /\ Settle(settling, s) /\ aggregator' = Put(aggregator, settling, s)
      /\ ReleasePermits(Publishing({a}))
  BY <1>1 DEF EndsInError, MayEnd, EndLoop, Record
<1>3. settling = {x \in {a} \ sent : track[x] = "open"} /\ Publishing({a}) = {a} \ sent
  BY <1>1 DEF Listening, Publishing
<1>4. /\ track'[b] = IF b \in settling THEN "settled" ELSE track[b]
      /\ verdict'[b] = IF b \in settling THEN s ELSE verdict[b]
      /\ processing' = processing \ settling /\ pending' = pending \ settling
      /\ waiting' = waiting \ settling /\ followUps' = followUps
  BY <1>2, SettleAt, AgentFacts
<1>5. /\ sent' = sent \cup {a}
      /\ b \in {a} \ sent => events'[b] = events[b] + 1
      /\ b \notin {a} \ sent => events'[b] = events[b]
  BY <1>2, PublishAt, AgentFacts
<1>6. aggregator'[b] = IF b \in settling THEN s ELSE aggregator[b]
  BY <1>2, AgentFacts DEF Put
<1>7. /\ CallMoves(b) /\ (call[b] \in {"importing", "returned"} => call'[b] = call[b])
      /\ b \notin {a} \ sent => (b \in hooked' <=> b \in hooked)
  BY <1>2, <1>3, ReleaseAt
<1>8. Consistent(b)
  BY AgentFacts
<1>9. CASE b # a
  <2>1. Same(b)
    BY <1>2, <1>3, <1>4, <1>5, <1>6, <1>7, <1>9 DEF Same
  <2> QED BY <1>7, <1>8, <2>1, SameKeeps
<1>10. CASE b = a /\ a \in sent
  <2>1. b \notin settling /\ call'[b] = call[b] /\ call[b] = "returned"
    BY <1>2, <1>3, <1>7, <1>8, <1>10 DEF Consistent
  <2>2. Consistent(b)'
    BY <1>2, <1>4, <1>5, <1>6, <1>7, <1>8, <1>10, <2>1 DEF Consistent, Doomed, Calm, Prompt
  <2> QED BY <1>6, <2>1, <2>2 DEF Kept, Late
<1>11. CASE b = a /\ a \notin sent /\ track[a] = "open"
  <2>1. b \in settling /\ call'[b] = call[b] /\ call[b] = "returned"
    BY <1>2, <1>3, <1>7, <1>8, <1>11 DEF Consistent
  <2>2. events'[b] = followUps'[b] + 1
    BY <1>4, <1>5, <1>8, <1>11, AgentFacts DEF Consistent
  <2>3. Consistent(b)'
    BY <1>2, <1>4, <1>5, <1>6, <1>8, <1>11, <2>1, <2>2 DEF Consistent, Doomed, Calm, Prompt
  <2>4. ~(Prompt /\ Late(b))
    BY <1>8, <1>11 DEF Consistent, Late, Prompt, Doomed
  <2> QED BY <2>3, <2>4 DEF Kept
<1>12. CASE b = a /\ a \notin sent /\ track[a] # "open"
  <2>1. b \notin settling /\ call'[b] = call[b] /\ call[b] = "returned"
    BY <1>2, <1>3, <1>7, <1>8, <1>12 DEF Consistent
  <2>2. events'[b] = followUps'[b] + 1
    BY <1>4, <1>5, <1>8, <1>12, AgentFacts DEF Consistent
  <2>3. Consistent(b)'
    BY <1>2, <1>4, <1>5, <1>6, <1>8, <1>12, <2>1, <2>2 DEF Consistent, Doomed, Calm, Prompt
  <2> QED BY <1>6, <2>1, <2>3 DEF Kept, Late
<1> QED BY <1>9, <1>10, <1>11, <1>12

\* What a loop that completes has in common: its terminal event is not out yet.
LEMMA Completing ==
  ASSUME AgentInv, NEW a \in Agents, MayEnd(a), a \notin aborted
  PROVE  /\ a \in looping /\ a \notin sent /\ a \notin pending
         /\ call[a] = "returned" /\ events[a] = followUps[a]
<1>1. Consistent(a) /\ a \in looping /\ followUps[a] \in Int /\ followUps[a] + 0 = followUps[a]
  BY AgentFacts DEF MayEnd
<1>2. a \notin sent /\ a \notin pending /\ call[a] = "returned"
  BY <1>1 DEF Consistent
<1>3. events[a] = followUps[a] + 0
  BY <1>1, <1>2 DEF Consistent
<1> QED BY <1>1, <1>2, <1>3

LEMMA CompletesUnheardAgrees ==
  ASSUME AgentInv, NEW a \in Agents, CompletesUnheard(a), NEW b \in Agents
  PROVE  Kept(b)
<1>1. /\ looping' = looping \ {a} /\ active' = active \ {a} /\ aborted' = aborted
      /\ Publish({a}) /\ ReleasePermits({a} \ Gated) /\ track[a] # "open"
      /\ MayEnd(a) /\ a \notin aborted
      /\ UNCHANGED <<track, verdict, followUps, processing, pending, waiting, aggregator>>
  BY DEF CompletesUnheard, EndLoop, trackVars, resultVars
<1>2. /\ a \in looping /\ a \notin sent /\ a \notin pending
      /\ call[a] = "returned" /\ events[a] = followUps[a]
  BY <1>1, Completing
<1>3. /\ sent' = sent \cup {a}
      /\ b \in {a} \ sent => events'[b] = events[b] + 1
      /\ b \notin {a} \ sent => events'[b] = events[b]
  BY <1>1, PublishAt, AgentFacts
<1>4. /\ CallMoves(b) /\ (call[b] \in {"importing", "returned"} => call'[b] = call[b])
      /\ b \notin {a} \ Gated => (b \in hooked' <=> b \in hooked)
  BY <1>1, ReleaseAt
<1>5. Consistent(b)
  BY AgentFacts
<1>6. CASE b # a
  <2>1. Same(b)
    BY <1>1, <1>3, <1>4, <1>6 DEF Same
  <2> QED BY <1>4, <1>5, <2>1, SameKeeps
<1>7. CASE b = a
  <2>1. events'[b] = followUps'[b] + 1 /\ call'[b] = "returned"
    BY <1>1, <1>2, <1>3, <1>4, <1>7
  <2>2. Consistent(b)'
    BY <1>1, <1>2, <1>3, <1>5, <1>7, <2>1 DEF Consistent, Doomed, Calm, Prompt
  <2> QED BY <1>1, <2>2 DEF Kept, Late
<1> QED BY <1>6, <1>7

LEMMA CompletesQueuedAgrees ==
  ASSUME AgentInv, NEW a \in Agents, CompletesQueued(a), NEW b \in Agents
  PROVE  Kept(b)
<1>1. /\ looping' = looping \ {a} /\ active' = active \ {a} /\ aborted' = aborted
      /\ Publish({a}) /\ pending' = pending \cup {a}
      /\ track[a] = "open" /\ a \in processing /\ MayEnd(a) /\ a \notin aborted
      /\ UNCHANGED <<call, hooked, track, verdict, followUps, processing, waiting, aggregator>>
  BY DEF CompletesQueued, EndLoop, permitVars, resultVars
<1>2. /\ a \in looping /\ a \notin sent /\ a \notin pending
      /\ call[a] = "returned" /\ events[a] = followUps[a]
  BY <1>1, Completing
<1>3. /\ sent' = sent \cup {a}
      /\ b \in {a} \ sent => events'[b] = events[b] + 1
      /\ b \notin {a} \ sent => events'[b] = events[b]
  BY <1>1, PublishAt, AgentFacts
<1>5. Consistent(b)
  BY AgentFacts
<1>6. CASE b # a
  <2>1. Same(b) /\ CallMoves(b)
    BY <1>1, <1>3, <1>6 DEF Same, CallMoves
  <2> QED BY <1>5, <2>1, SameKeeps
<1>7. CASE b = a
  <2>1. events'[b] = followUps'[b] + 1
    BY <1>1, <1>2, <1>3, <1>7
  <2>2. Consistent(b)'
    BY <1>1, <1>2, <1>3, <1>5, <1>7, <2>1 DEF Consistent, Doomed, Calm, Prompt
  <2> QED BY <1>1, <2>2 DEF Kept, Late
<1> QED BY <1>6, <1>7

\* The final verdict on a report settles the tracker and frees the permit.
LEMMA AcceptAt ==
  ASSUME AgentInv, NEW a \in Agents, Accept(a), NEW b \in Agents
  PROVE  \E v \in {"completed", "failed"} :
           /\ track'[b] = IF b = a THEN "settled" ELSE track[b]
           /\ verdict'[b] = IF b = a THEN v ELSE verdict[b]
           /\ processing' = processing \ {a} /\ pending' = pending \ {a}
           /\ waiting' = waiting \ {a} /\ followUps' = followUps
           /\ aggregator'[b] = IF b = a THEN v ELSE aggregator[b]
           /\ CallMoves(b) /\ (call[b] \in {"importing", "returned"} => call'[b] = call[b])
           /\ b # a => (b \in hooked' <=> b \in hooked)
<1>1. PICK v \in {"completed", "failed"} :
        /\ Settle({a}, v) /\ ReleasePermits({a})
        /\ aggregator' = [aggregator EXCEPT ![a] = v]
  BY DEF Accept, Record, GateVerdicts
<1>2. v \in TerminalStatus
  BY DEF TerminalStatus
<1>3. /\ track'[b] = IF b \in {a} THEN "settled" ELSE track[b]
      /\ verdict'[b] = IF b \in {a} THEN v ELSE verdict[b]
      /\ processing' = processing \ {a} /\ pending' = pending \ {a}
      /\ waiting' = waiting \ {a} /\ followUps' = followUps
  BY <1>1, <1>2, SettleAt, AgentFacts
<1>4. /\ CallMoves(b) /\ (call[b] \in {"importing", "returned"} => call'[b] = call[b])
      /\ b \notin {a} => (b \in hooked' <=> b \in hooked)
  BY <1>1, ReleaseAt
<1>5. aggregator'[b] = IF b = a THEN v ELSE aggregator[b]
  BY <1>1, AgentFacts
<1> QED BY <1>3, <1>4, <1>5

LEMMA CompletesAcceptedAgrees ==
  ASSUME AgentInv, NEW a \in Agents, CompletesAccepted(a), NEW b \in Agents
  PROVE  Kept(b)
<1>1. /\ looping' = looping \ {a} /\ active' = active \ {a} /\ aborted' = aborted
      /\ Publish({a}) /\ Accept(a) /\ track[a] = "open" /\ MayEnd(a) /\ a \notin aborted
  BY DEF CompletesAccepted, EndLoop
<1>2. /\ a \in looping /\ a \notin sent /\ a \notin pending
      /\ call[a] = "returned" /\ events[a] = followUps[a]
  BY <1>1, Completing
<1>3. /\ sent' = sent \cup {a}
      /\ b \in {a} \ sent => events'[b] = events[b] + 1
      /\ b \notin {a} \ sent => events'[b] = events[b]
  BY <1>1, PublishAt, AgentFacts
<1>4. PICK v \in {"completed", "failed"} :
        /\ track'[b] = IF b = a THEN "settled" ELSE track[b]
        /\ verdict'[b] = IF b = a THEN v ELSE verdict[b]
        /\ processing' = processing \ {a} /\ pending' = pending \ {a}
        /\ waiting' = waiting \ {a} /\ followUps' = followUps
        /\ aggregator'[b] = IF b = a THEN v ELSE aggregator[b]
        /\ CallMoves(b) /\ (call[b] \in {"importing", "returned"} => call'[b] = call[b])
        /\ b # a => (b \in hooked' <=> b \in hooked)
  BY <1>1, AcceptAt
<1>5. Consistent(b)
  BY AgentFacts
<1>6. CASE b # a
  <2>1. Same(b)
    BY <1>1, <1>3, <1>4, <1>6 DEF Same
  <2> QED BY <1>4, <1>5, <2>1, SameKeeps
<1>7. CASE b = a
  <2>1. events'[b] = followUps'[b] + 1 /\ call'[b] = "returned"
    BY <1>1, <1>2, <1>3, <1>4, <1>7
  <2>2. Consistent(b)'
    BY <1>1, <1>2, <1>3, <1>4, <1>7, <2>1 DEF Consistent
  <2>3. ~(Prompt /\ Late(b))
    BY <1>1, <1>5, <1>7 DEF Consistent, Late, Prompt, Doomed
  <2> QED BY <2>2, <2>3 DEF Kept
<1> QED BY <1>6, <1>7

LEMMA CompletesResumedAgrees ==
  ASSUME AgentInv, NEW a \in Agents, CompletesResumed(a), NEW b \in Agents
  PROVE  Kept(b)
<1>1. /\ followUps' = [followUps EXCEPT ![a] = @ + 1] /\ processing' = processing \cup {a}
      /\ pending' = pending \ {a} /\ active' = active \cup {a} /\ looping' = looping \cup {a}
      /\ sent' = sent \ {a} /\ events' = [events EXCEPT ![a] = @ + 1]
      /\ track[a] = "open" /\ MayEnd(a) /\ a \notin aborted
      /\ UNCHANGED <<call, hooked, aborted, track, verdict, waiting, aggregator>>
  BY DEF CompletesResumed, FollowUp, permitVars, resultVars
<1>2. /\ a \in looping /\ a \notin sent /\ a \notin pending
      /\ call[a] = "returned" /\ events[a] = followUps[a]
  BY <1>1, Completing
<1>3. /\ followUps'[b] = IF b = a THEN followUps[b] + 1 ELSE followUps[b]
      /\ events'[b] = IF b = a THEN events[b] + 1 ELSE events[b]
      /\ followUps[b] + 1 \in Int /\ (followUps[b] + 1) + 0 = followUps[b] + 1
  BY <1>1, AgentFacts
<1>4. Consistent(b)
  BY AgentFacts
<1>5. CASE b # a
  <2>1. Same(b) /\ CallMoves(b)
    BY <1>1, <1>3, <1>5 DEF Same, CallMoves
  <2> QED BY <1>4, <2>1, SameKeeps
<1>6. CASE b = a
  <2>1. events'[b] = followUps'[b] + 0
    BY <1>2, <1>3, <1>6
  <2>2. Consistent(b)'
    BY <1>1, <1>2, <1>4, <1>6, <2>1 DEF Consistent, Doomed, Calm, Prompt
  <2> QED BY <1>1, <2>2 DEF Kept, Late
<1> QED BY <1>5, <1>6

LEMMA GateUnwindsAgrees ==
  ASSUME AgentInv, NEW a \in Agents, GateUnwinds(a), NEW b \in Agents
  PROVE  Kept(b)
<1>1. /\ a \in processing \ pending /\ processing' = processing \ {a}
      /\ UNCHANGED <<call, hooked, active, looping, sent, aborted, track, verdict, followUps,
                     pending, waiting, aggregator, events>>
  BY DEF GateUnwinds, permitVars, backendVars, resultVars
<1>2. Consistent(b)
  BY AgentFacts
<1>3. Consistent(b)'
  BY <1>1, <1>2 DEF Consistent, Doomed, Calm, Prompt
<1> QED BY <1>1, <1>3 DEF Kept, Late

LEMMA GateAcceptsQueuedAgrees ==
  ASSUME AgentInv, NEW a \in Agents, GateAcceptsQueued(a), NEW b \in Agents
  PROVE  Kept(b)
<1>1. /\ a \in processing \cap pending /\ Accept(a)
      /\ UNCHANGED <<active, looping, aborted, sent, events>>
  BY DEF GateAcceptsQueued
<1>2. PICK v \in {"completed", "failed"} :
        /\ track'[b] = IF b = a THEN "settled" ELSE track[b]
        /\ verdict'[b] = IF b = a THEN v ELSE verdict[b]
        /\ processing' = processing \ {a} /\ pending' = pending \ {a}
        /\ waiting' = waiting \ {a} /\ followUps' = followUps
        /\ aggregator'[b] = IF b = a THEN v ELSE aggregator[b]
        /\ CallMoves(b) /\ (call[b] \in {"importing", "returned"} => call'[b] = call[b])
        /\ b # a => (b \in hooked' <=> b \in hooked)
  BY <1>1, AcceptAt
<1>3. Consistent(b)
  BY AgentFacts
<1>4. CASE b # a
  <2>1. Same(b)
    BY <1>1, <1>2, <1>4 DEF Same
  <2> QED BY <1>2, <1>3, <2>1, SameKeeps
<1>5. CASE b = a
  <2>1. call'[b] = "returned" /\ b \notin active /\ track[b] = "open"
    BY <1>1, <1>2, <1>3, <1>5 DEF Consistent
  <2>2. Consistent(b)'
    BY <1>1, <1>2, <1>3, <1>5, <2>1 DEF Consistent, Doomed, Calm, Prompt
  <2>3. ~(Prompt /\ Late(b))
    BY <1>1, <1>3, <1>5, <2>1 DEF Consistent, Late, Doomed
  <2> QED BY <2>2, <2>3 DEF Kept
<1> QED BY <1>4, <1>5

LEMMA GateResumesQueuedAgrees ==
  ASSUME AgentInv, NEW a \in Agents, GateResumesQueued(a), NEW b \in Agents
  PROVE  Kept(b)
<1>1. /\ followUps' = [followUps EXCEPT ![a] = @ + 1] /\ processing' = processing \cup {a}
      /\ pending' = pending \ {a} /\ active' = active \cup {a} /\ looping' = looping \cup {a}
      /\ sent' = sent \ {a} /\ a \in processing \cap pending
      /\ UNCHANGED <<call, hooked, aborted, track, verdict, waiting, aggregator, events>>
  BY DEF GateResumesQueued, FollowUp, permitVars, resultVars
<1>2. /\ followUps'[b] = IF b = a THEN followUps[b] + 1 ELSE followUps[b]
      /\ followUps[b] + 1 \in Int /\ (followUps[b] + 1) + 0 = followUps[b] + 1
  BY <1>1, AgentFacts
<1>3. Consistent(b)
  BY AgentFacts
<1>4. CASE b # a
  <2>1. Same(b) /\ CallMoves(b)
    BY <1>1, <1>2, <1>4 DEF Same, CallMoves
  <2> QED BY <1>3, <2>1, SameKeeps
<1>5. CASE b = a
  <2>1. /\ call[b] = "returned" /\ track[b] = "open" /\ b \in sent
        /\ events[b] = followUps[b] + 1
    BY <1>1, <1>3, <1>5 DEF Consistent
  <2>2. events'[b] = followUps'[b] + 0
    BY <1>1, <1>2, <1>5, <2>1
  <2>3. Consistent(b)'
    BY <1>1, <1>3, <1>5, <2>1, <2>2 DEF Consistent, Doomed, Calm, Prompt
  <2> QED BY <1>1, <2>3 DEF Kept, Late
<1> QED BY <1>4, <1>5

LEMMA WaitForCompletionAgrees ==
  ASSUME AgentInv, NEW a \in Agents, WaitForCompletion(a), NEW b \in Agents
  PROVE  Kept(b)
<1>1. /\ track[a] \in {"open", "abandoned"} /\ waiting' = waiting \cup {a}
      /\ UNCHANGED <<call, hooked, active, looping, sent, aborted, track, verdict, followUps,
                     processing, pending, aggregator, events>>
  BY DEF WaitForCompletion, permitVars, backendVars, resultVars
<1>2. Consistent(b)
  BY AgentFacts
<1>3. Consistent(b)'
  BY <1>1, <1>2 DEF Consistent, Doomed, Calm, Prompt
<1> QED BY <1>1, <1>3 DEF Kept, Late

LEMMA WaitTimeoutAgrees ==
  ASSUME AgentInv, NEW a \in Agents, WaitTimeout(a), NEW b \in Agents
  PROVE  Kept(b)
<1>1. /\ a \in waiting /\ waiting' = waiting \ {a}
      /\ track' = Put(track, Listening({a}), "abandoned")
      /\ aggregator' = [aggregator EXCEPT ![a] = "timed_out"]
      /\ ReleasePermits({a})
      /\ UNCHANGED <<active, looping, sent, aborted, verdict, followUps, processing, pending,
                     events>>
  BY DEF WaitTimeout, Record
<1>2. /\ track'[b] = IF b = a /\ track[a] = "open" THEN "abandoned" ELSE track[b]
      /\ aggregator'[b] = IF b = a THEN "timed_out" ELSE aggregator[b]
  BY <1>1, AgentFacts DEF Put, Listening
<1>3. /\ CallMoves(b) /\ (call[b] \in {"importing", "returned"} => call'[b] = call[b])
      /\ b \notin {a} => (b \in hooked' <=> b \in hooked)
  BY <1>1, ReleaseAt
<1>4. Consistent(b) /\ processing = {}
  BY AgentFacts DEF WaitTimeout, Quiescent
<1>5. CASE b # a
  <2>1. Same(b)
    BY <1>1, <1>2, <1>3, <1>5 DEF Same
  <2> QED BY <1>3, <1>4, <2>1, SameKeeps
<1>6. CASE b = a
  <2>1. call'[b] = "returned" /\ call[b] = "returned" /\ track[b] # "settled"
        /\ track'[b] # "open" /\ track'[b] # "settled"
    BY <1>1, <1>2, <1>3, <1>4, <1>6 DEF Consistent
  <2>2. Consistent(b)'
    BY <1>1, <1>2, <1>4, <1>6, <2>1 DEF Consistent, Doomed, Calm, Prompt
  <2>3. Late(b)'
    BY <1>2, <1>6 DEF Late
  <2> QED BY <2>2, <2>3 DEF Kept
<1> QED BY <1>5, <1>6

\* What a forced shutdown of active agents does to agent b.
LEMMA ForceShutdownAt ==
  ASSUME AgentInv, NEW S \in SUBSET active, NEW agg,
         agg \in [Agents -> {"absent", "pending"} \cup TerminalStatus],
         ForceShutdown(S, agg), NEW b \in Agents
  PROVE  /\ aborted' = aborted \cup S /\ active' = active \ S /\ looping' = looping
         /\ followUps' = followUps
         /\ b \notin S =>
              /\ b \in sent' <=> b \in sent
              /\ b \in processing' <=> b \in processing
              /\ b \in pending' <=> b \in pending
              /\ b \in waiting' <=> b \in waiting
              /\ track'[b] = track[b] /\ verdict'[b] = verdict[b] /\ events'[b] = events[b]
              /\ aggregator'[b] = agg[b]
         /\ b \in S =>
              /\ b \notin sent /\ b \in sent' /\ events'[b] = followUps[b] + 1
              /\ b \in processing' => b \in processing
              /\ b \notin pending'
              /\ b \in waiting' => b \in waiting
              /\ track[b] = "open" =>
                   /\ track'[b] = "settled" /\ verdict'[b] = "cancelled"
                   /\ b \notin processing' /\ b \notin waiting'
                   /\ aggregator'[b] = "cancelled"
              /\ track[b] # "open" =>
                   /\ track'[b] = track[b] /\ verdict'[b] = verdict[b]
                   /\ aggregator'[b] = agg[b]
<1>1. PICK settling : settling = Listening(Publishing(S))
  OBVIOUS
<1>2. /\ aborted' = aborted \cup S /\ active' = active \ S /\ looping' = looping
      /\ Publish(S) /\ Settle(settling, "cancelled") /\ aggregator' = Put(agg, settling, "cancelled")
  BY <1>1 DEF ForceShutdown
<1>3. \A x \in settling : x \in S \ sent /\ track[x] = "open"
  BY <1>1 DEF Listening, Publishing
<1>4. b \in S \ sent /\ track[b] = "open" => b \in settling
  BY <1>1 DEF Listening, Publishing
<1>5. "cancelled" \in TerminalStatus
  BY DEF TerminalStatus
<1>6. /\ track'[b] = IF b \in settling THEN "settled" ELSE track[b]
      /\ verdict'[b] = IF b \in settling THEN "cancelled" ELSE verdict[b]
      /\ processing' = processing \ settling /\ pending' = pending \ settling
      /\ waiting' = waiting \ settling /\ followUps' = followUps
  BY <1>2, <1>5, SettleAt, AgentFacts
<1>7. /\ sent' = sent \cup S
      /\ b \in S \ sent => events'[b] = events[b] + 1
      /\ b \notin S \ sent => events'[b] = events[b]
  BY <1>2, PublishAt, AgentFacts
<1>8. aggregator'[b] = IF b \in settling THEN "cancelled" ELSE agg[b]
  BY <1>2 DEF Put
<1>9. ASSUME b \in S
      PROVE  b \notin sent /\ b \notin pending /\ events'[b] = followUps[b] + 1
  <2>1. Consistent(b) /\ b \in active
    BY <1>9, AgentFacts
  <2>2. b \notin sent /\ b \notin pending /\ events[b] = followUps[b] + 0
    BY <2>1 DEF Consistent
  <2> QED BY <1>7, <1>9, <2>2, AgentFacts
<1>10. ASSUME b \notin S
       PROVE  b \notin settling /\ b \notin S \ sent
  BY <1>3, <1>10
<1>11. ASSUME b \in S, track[b] # "open"
       PROVE  b \notin settling
  BY <1>3, <1>11
<1>12. ASSUME b \in S, track[b] = "open"
       PROVE  b \in settling
  BY <1>4, <1>9, <1>12
<1> QED BY <1>2, <1>6, <1>7, <1>8, <1>9, <1>10, <1>11, <1>12

LEMMA CancelActiveAgrees ==
  ASSUME AgentInv, NEW a \in Agents, CancelActive(a), NEW b \in Agents
  PROVE  Kept(b)
<1>1. PICK agg : agg = IF aggregator[a] = "absent" THEN aggregator
                       ELSE [aggregator EXCEPT ![a] = "cancelled"]
  OBVIOUS
<1>2. /\ a \in active /\ processing = {} /\ ForceShutdown({a}, agg) /\ ReleasePermits({a})
  BY <1>1 DEF CancelActive, Quiescent
<1>3. agg \in [Agents -> {"absent", "pending"} \cup TerminalStatus]
  BY <1>1, AgentFacts DEF TerminalStatus
<1>4. agg[b] = IF b = a /\ aggregator[a] # "absent" THEN "cancelled" ELSE aggregator[b]
  BY <1>1, AgentFacts
<1>5. /\ aborted' = aborted \cup {a} /\ active' = active \ {a} /\ looping' = looping
      /\ followUps' = followUps
      /\ b \notin {a} =>
           /\ b \in sent' <=> b \in sent
           /\ b \in processing' <=> b \in processing
           /\ b \in pending' <=> b \in pending
           /\ b \in waiting' <=> b \in waiting
           /\ track'[b] = track[b] /\ verdict'[b] = verdict[b] /\ events'[b] = events[b]
           /\ aggregator'[b] = agg[b]
      /\ b \in {a} =>
           /\ b \notin sent /\ b \in sent' /\ events'[b] = followUps[b] + 1
           /\ b \in processing' => b \in processing
           /\ b \notin pending'
           /\ b \in waiting' => b \in waiting
           /\ track[b] = "open" =>
                /\ track'[b] = "settled" /\ verdict'[b] = "cancelled"
                /\ b \notin processing' /\ b \notin waiting'
                /\ aggregator'[b] = "cancelled"
           /\ track[b] # "open" =>
                /\ track'[b] = track[b] /\ verdict'[b] = verdict[b]
                /\ aggregator'[b] = agg[b]
  <2>1. {a} \in SUBSET active
    BY <1>2
  <2> QED BY <1>2, <1>3, <2>1, ForceShutdownAt
<1>6. /\ CallMoves(b) /\ (call[b] \in {"importing", "returned"} => call'[b] = call[b])
      /\ b \notin {a} => (b \in hooked' <=> b \in hooked)
  BY <1>2, ReleaseAt
<1>7. Consistent(b)
  BY AgentFacts
<1>8. CASE b # a
  <2>1. Same(b)
    BY <1>4, <1>5, <1>6, <1>8 DEF Same
  <2> QED BY <1>6, <1>7, <2>1, SameKeeps
<1>9. CASE b = a
  <2>1. call[b] \notin {"idle", "waiting", "granted"} /\ call'[b] = call[b] /\ track[b] # "settled"
    BY <1>2, <1>6, <1>7, <1>9, AgentFacts DEF Consistent, CallMoves
  <2>2. track'[b] # "open"
    BY <1>5, <1>9
  <2>3. Consistent(b)'
    BY <1>2, <1>4, <1>5, <1>7, <1>9, <2>1, <2>2 DEF Consistent, Doomed, Calm, Prompt
  <2>4. Late(b) => Late(b)'
    BY <1>4, <1>5, <1>9 DEF Late
  <2> QED BY <2>3, <2>4 DEF Kept
<1> QED BY <1>8, <1>9

LEMMA CancelEndedAgrees ==
  ASSUME AgentInv, NEW a \in Agents, CancelEnded(a), NEW b \in Agents
  PROVE  Kept(b)
<1>1. /\ "cancel" \in Operations /\ processing = {} /\ a \notin active /\ call[a] = "returned"
      /\ aggregator' = [aggregator EXCEPT ![a] = "cancelled"] /\ ReleasePermits({a})
      /\ UNCHANGED <<active, looping, sent, aborted, track, verdict, followUps, processing,
                     pending, waiting, events>>
  BY DEF CancelEnded, Quiescent, Record, backendVars, trackVars
<1>2. aggregator'[b] = IF b = a THEN "cancelled" ELSE aggregator[b]
  BY <1>1, AgentFacts
<1>3. /\ CallMoves(b) /\ (call[b] \in {"importing", "returned"} => call'[b] = call[b])
      /\ b \notin {a} => (b \in hooked' <=> b \in hooked)
  BY <1>1, ReleaseAt
<1>4. Consistent(b)
  BY AgentFacts
<1>5. CASE b # a
  <2>1. Same(b)
    BY <1>1, <1>2, <1>3, <1>5 DEF Same
  <2> QED BY <1>3, <1>4, <2>1, SameKeeps
<1>6. CASE b = a
  <2>1. call'[b] = "returned"
    BY <1>1, <1>3, <1>6
  <2>2. track[b] = "open" => ~WarmStart /\ ~Calm
    BY <1>1, <1>4, <1>6 DEF Consistent, Doomed, Calm, Prompt
  <2>3. Consistent(b)'
    BY <1>1, <1>2, <1>4, <1>6, <2>1, <2>2 DEF Consistent, Doomed, Calm, Prompt
  <2>4. Late(b)'
    BY <1>2, <1>6 DEF Late
  <2> QED BY <2>3, <2>4 DEF Kept
<1> QED BY <1>5, <1>6

LEMMA WaitAllTimeoutAgrees ==
  ASSUME AgentInv, WaitAllTimeout, NEW b \in Agents
  PROVE  Kept(b)
<1>1. PICK agg : agg = Put(aggregator, active, "timed_out")
  OBVIOUS
<1>2. /\ processing = {} /\ ForceShutdown(active, agg) /\ ReleasePermits(active)
      /\ "waitForAll" \in Operations
  BY <1>1, AgentFacts DEF WaitAllTimeout, Quiescent
<1>3. agg \in [Agents -> {"absent", "pending"} \cup TerminalStatus]
  BY <1>1, AgentFacts DEF TerminalStatus, Put
<1>4. agg[b] = IF b \in active THEN "timed_out" ELSE aggregator[b]
  BY <1>1, AgentFacts DEF Put
<1>5. /\ aborted' = aborted \cup active /\ active' = active \ active /\ looping' = looping
      /\ followUps' = followUps
      /\ b \notin active =>
           /\ b \in sent' <=> b \in sent
           /\ b \in processing' <=> b \in processing
           /\ b \in pending' <=> b \in pending
           /\ b \in waiting' <=> b \in waiting
           /\ track'[b] = track[b] /\ verdict'[b] = verdict[b] /\ events'[b] = events[b]
           /\ aggregator'[b] = agg[b]
      /\ b \in active =>
           /\ b \notin sent /\ b \in sent' /\ events'[b] = followUps[b] + 1
           /\ b \in processing' => b \in processing
           /\ b \notin pending'
           /\ b \in waiting' => b \in waiting
           /\ track[b] = "open" =>
                /\ track'[b] = "settled" /\ verdict'[b] = "cancelled"
                /\ b \notin processing' /\ b \notin waiting'
                /\ aggregator'[b] = "cancelled"
           /\ track[b] # "open" =>
                /\ track'[b] = track[b] /\ verdict'[b] = verdict[b]
                /\ aggregator'[b] = agg[b]
  <2>1. active \in SUBSET active
    OBVIOUS
  <2> QED BY <1>2, <1>3, <2>1, ForceShutdownAt
<1>6. /\ CallMoves(b) /\ (call[b] \in {"importing", "returned"} => call'[b] = call[b])
      /\ b \notin active => (b \in hooked' <=> b \in hooked)
  BY <1>2, ReleaseAt
<1>7. Consistent(b)
  BY AgentFacts
<1>8. CASE b \notin active
  <2>1. b \in aborted' <=> b \in aborted
    BY <1>5, <1>8
  <2>2. Same(b)
    BY <1>4, <1>5, <1>6, <1>8 DEF Same
  <2> QED BY <1>6, <1>7, <2>2, SameKeeps
<1>9. CASE b \in active
  <2>1. call[b] \notin {"idle", "waiting", "granted"} /\ call'[b] = call[b] /\ track[b] # "settled"
    BY <1>6, <1>7, <1>9, AgentFacts DEF Consistent, CallMoves
  <2>2. track'[b] # "open" /\ b \in aborted' /\ b \notin active'
    BY <1>5, <1>9
  <2>3. Consistent(b)'
    BY <1>2, <1>4, <1>5, <1>7, <1>9, <2>1, <2>2 DEF Consistent, Doomed, Calm, Prompt
  <2>4. Late(b)'
    BY <1>4, <1>5, <1>9 DEF Late
  <2> QED BY <2>3, <2>4 DEF Kept
<1> QED BY <1>8, <1>9

LEMMA ShutdownAllAgrees ==
  ASSUME AgentInv, ShutdownAll, NEW b \in Agents
  PROVE  Kept(b)
<1>1. PICK settling : settling = Listening(Publishing(active))
  OBVIOUS
<1>2. /\ processing = {} /\ aborted' = aborted \cup active /\ active' = {} /\ Publish(active)
      /\ track' = [x \in Agents |-> "none"] /\ waiting' = waiting \ settling
      /\ aggregator' = Put(aggregator, settling, "cancelled")
      /\ HandBack(Hooked(active), call) /\ hooked' = {}
      /\ UNCHANGED <<looping, followUps, processing, pending>>
  BY <1>1 DEF ShutdownAll, Quiescent
<1>3. /\ track'[b] = "none"
      /\ aggregator'[b] = IF b \in settling THEN "cancelled" ELSE aggregator[b]
      /\ b \in settling => b \in active /\ track[b] = "open"
  BY <1>1, <1>2, AgentFacts DEF Put, Listening, Publishing
<1>4. /\ sent' = sent \cup active
      /\ b \in active \ sent => events'[b] = events[b] + 1
      /\ b \notin active \ sent => events'[b] = events[b]
  BY <1>2, PublishAt, AgentFacts
<1>5. /\ CallMoves(b) /\ (call[b] \in {"importing", "returned"} => call'[b] = call[b])
  <2>1. Hooked(active) \subseteq held
    BY AgentFacts DEF Hooked, PermitInv
  <2>2. call \in [Agents -> CallStates] /\ (b \in ToSet(waitQueue) => call[b] = "waiting")
    BY AgentFacts DEF PermitInv
  <2>3. IF b \in ToSet(waitQueue) \ ToSet(waitQueue')
          THEN call'[b] = "granted" /\ b \in held'
          ELSE call'[b] = call[b] /\ (b \in held' <=> b \in held \ Hooked(active))
    BY <1>2, <2>1, <2>2, HandBackCalls, AgentFacts
  <2> QED BY <2>2, <2>3 DEF CallMoves
<1>6. Consistent(b)
  BY AgentFacts
<1>7. Late(b) => Late(b)'
  BY <1>3 DEF Late
<1>8. CASE b \in active
  <2>1. call[b] \notin {"idle", "waiting", "granted"} /\ call'[b] = call[b] /\ b \notin sent
    BY <1>5, <1>6, <1>8, AgentFacts DEF Consistent, CallMoves
  <2>2. events'[b] = followUps'[b] + 1
    BY <1>2, <1>4, <1>6, <1>8, <2>1, AgentFacts DEF Consistent
  <2>3. Consistent(b)'
    BY <1>2, <1>3, <1>4, <1>6, <1>8, <2>1, <2>2 DEF Consistent, Doomed, Calm, Prompt
  <2> QED BY <1>7, <2>3 DEF Kept
<1>9. CASE b \notin active
  <2>1. b \notin settling /\ (b \in sent' <=> b \in sent) /\ events'[b] = events[b]
    BY <1>3, <1>4, <1>9
  <2>2. Consistent(b)'
    BY <1>2, <1>3, <1>5, <1>6, <1>9, <2>1 DEF Consistent, Doomed, Calm, Prompt, CallMoves
  <2> QED BY <1>7, <2>2 DEF Kept
<1> QED BY <1>8, <1>9

\* The types are kept by the steps of one agent,
LEMMA StepTyped1 ==
  ASSUME Typed, NEW a \in Agents, Spawn(a) \/ BackendSpawn(a) \/ BackendSpawnFails(a)
                                  \/ BackendImports(a) \/ AgentTimeout(a) \/ GateUnwinds(a)
                                  \/ WaitForCompletion(a) \/ CancelEnded(a)
  PROVE  Typed'
<1>1. CASE Spawn(a)
  BY <1>1 DEF Spawn, Typed, backendVars, trackVars, resultVars
<1>2. CASE BackendSpawn(a)
  BY <1>2 DEF BackendSpawn, EnterRuntime, Register, Put, Typed
<1>3. CASE BackendSpawnFails(a)
  BY <1>3 DEF BackendSpawnFails, EnterRuntime, trackVars, resultVars, Typed
<1>4. CASE BackendImports(a)
  BY <1>4 DEF BackendImports, EnterRuntime, trackVars, resultVars, Typed
<1>5. CASE AgentTimeout(a)
  BY <1>5 DEF AgentTimeout, trackVars, resultVars, Typed
<1>6. CASE GateUnwinds(a)
  BY <1>6 DEF GateUnwinds, backendVars, resultVars, Typed
<1>7. CASE WaitForCompletion(a)
  BY <1>7 DEF WaitForCompletion, backendVars, resultVars, Typed
<1>8. CASE CancelEnded(a)
  BY <1>8 DEF CancelEnded, Record, backendVars, trackVars, Typed, TerminalStatus
<1> QED BY <1>1, <1>2, <1>3, <1>4, <1>5, <1>6, <1>7, <1>8

LEMMA SettleTyped ==
  ASSUME Typed, NEW S, NEW v \in TerminalStatus, Settle(S, v)
  PROVE  /\ track' \in [Agents -> {"none", "open", "settled", "abandoned"}]
         /\ verdict' \in [Agents -> {"none"} \cup TerminalStatus]
         /\ followUps' \in [Agents -> 0..2]
         /\ processing' \subseteq Agents /\ pending' \subseteq Agents /\ waiting' \subseteq Agents
BY DEF Settle, Put, Typed

LEMMA PublishTyped ==
  ASSUME Typed, NEW S, S \subseteq Agents, Publish(S)
  PROVE  sent' \subseteq Agents /\ events' \in [Agents -> Nat]
<1>1. /\ events \in [Agents -> Nat] /\ sent \subseteq Agents /\ sent' = sent \cup S
      /\ events' = [a \in Agents |-> events[a] + IF a \in S \ sent THEN 1 ELSE 0]
  BY DEF Typed, Publish, Publishing
<1> QED BY <1>1

LEMMA AcceptTyped ==
  ASSUME Typed, NEW a \in Agents, Accept(a)
  PROVE  /\ track' \in [Agents -> {"none", "open", "settled", "abandoned"}]
         /\ verdict' \in [Agents -> {"none"} \cup TerminalStatus]
         /\ followUps' \in [Agents -> 0..2]
         /\ processing' \subseteq Agents /\ pending' \subseteq Agents /\ waiting' \subseteq Agents
         /\ aggregator' \in [Agents -> {"absent", "pending"} \cup TerminalStatus]
         /\ waitAll' \in {"idle", "waiting", "deaf", "done", "timed_out"}
         /\ contexts' \subseteq Agents /\ retained' \subseteq Agents
<1>1. PICK v \in {"completed", "failed"} : Settle({a}, v) /\ Record([aggregator EXCEPT ![a] = v])
  BY DEF Accept, GateVerdicts
<1>2. v \in TerminalStatus
  BY DEF TerminalStatus
<1>3. /\ aggregator' \in [Agents -> {"absent", "pending"} \cup TerminalStatus]
      /\ waitAll' \in {"idle", "waiting", "deaf", "done", "timed_out"}
      /\ contexts' \subseteq Agents /\ retained' \subseteq Agents
  BY <1>1, <1>2 DEF Accept, Record, Typed
<1> QED BY <1>1, <1>2, <1>3, SettleTyped

LEMMA FollowUpTyped ==
  ASSUME Typed, NEW a \in Agents, FollowUp(a)
  PROVE  /\ followUps' \in [Agents -> 0..2]
         /\ processing' \subseteq Agents /\ pending' \subseteq Agents /\ active' \subseteq Agents
         /\ retained' \subseteq Agents /\ looping' \subseteq Agents /\ sent' \subseteq Agents
         /\ status' \in [Agents -> {"none", "running"} \cup TerminalStatus]
<1>1. followUps[a] \in 0..2 /\ MaxFollowUps[a] \in 0..2 /\ followUps[a] < MaxFollowUps[a]
  BY ConfigAssumption DEF FollowUp, Typed
<1>2. followUps[a] + 1 \in 0..2
  BY <1>1
<1>3. followUps' \in [Agents -> 0..2]
  BY <1>2 DEF FollowUp, Typed
<1> QED BY <1>3 DEF FollowUp, Typed

LEMMA LoopTyped ==
  ASSUME Typed, NEW a \in Agents, NEW s \in TerminalStatus,
         EndsInError(a, s) \/ LoopCompletes(a)
  PROVE  Typed'
<1>1. CASE EndsInError(a, s)
  <2>1. PICK settling : settling = Listening(Publishing({a}))
    OBVIOUS
  <2>2. Settle(settling, s) /\ Publish({a}) /\ Record(Put(aggregator, settling, s))
    BY <1>1, <2>1 DEF EndsInError
  <2>3. /\ aggregator' \in [Agents -> {"absent", "pending"} \cup TerminalStatus]
        /\ waitAll' \in {"idle", "waiting", "deaf", "done", "timed_out"}
    BY <2>2 DEF Record, Put, Typed
  <2>4. /\ looping' \subseteq Agents /\ active' \subseteq Agents /\ contexts' \subseteq Agents
        /\ retained' \subseteq Agents /\ UNCHANGED <<engineLoaded, aborted, stopped>>
        /\ status' \in [Agents -> {"none", "running"} \cup TerminalStatus]
    BY <1>1 DEF EndsInError, EndLoop, Typed
  <2>5. engineLoaded \in BOOLEAN /\ stopped \in BOOLEAN /\ aborted \subseteq Agents
    BY DEF Typed
  <2>6. sent' \subseteq Agents /\ events' \in [Agents -> Nat]
    BY <2>2, PublishTyped
  <2>7. /\ track' \in [Agents -> {"none", "open", "settled", "abandoned"}]
        /\ verdict' \in [Agents -> {"none"} \cup TerminalStatus]
        /\ followUps' \in [Agents -> 0..2]
        /\ processing' \subseteq Agents /\ pending' \subseteq Agents /\ waiting' \subseteq Agents
    BY <2>2, SettleTyped
  <2> QED BY <2>3, <2>4, <2>5, <2>6, <2>7 DEF Typed
<1>2. CASE CompletesUnheard(a) \/ CompletesQueued(a)
  <2>1. sent' \subseteq Agents /\ events' \in [Agents -> Nat]
    BY <1>2, PublishTyped DEF CompletesUnheard, CompletesQueued
  <2>2. CASE CompletesUnheard(a)
    BY <2>1, <2>2 DEF CompletesUnheard, EndLoop, Typed, TerminalStatus, trackVars, resultVars
  <2>3. CASE CompletesQueued(a)
    BY <2>1, <2>3 DEF CompletesQueued, EndLoop, Typed, TerminalStatus, resultVars
  <2> QED BY <1>2, <2>2, <2>3
<1>3. CASE CompletesAccepted(a)
  <2>1. sent' \subseteq Agents /\ events' \in [Agents -> Nat]
    BY <1>3, PublishTyped DEF CompletesAccepted
  <2>2. /\ track' \in [Agents -> {"none", "open", "settled", "abandoned"}]
        /\ verdict' \in [Agents -> {"none"} \cup TerminalStatus]
        /\ followUps' \in [Agents -> 0..2]
        /\ processing' \subseteq Agents /\ pending' \subseteq Agents /\ waiting' \subseteq Agents
        /\ aggregator' \in [Agents -> {"absent", "pending"} \cup TerminalStatus]
        /\ waitAll' \in {"idle", "waiting", "deaf", "done", "timed_out"}
        /\ contexts' \subseteq Agents /\ retained' \subseteq Agents
    BY <1>3, AcceptTyped DEF CompletesAccepted
  <2> QED BY <1>3, <2>1, <2>2 DEF CompletesAccepted, EndLoop, Typed, TerminalStatus
<1>4. CASE CompletesResumed(a)
  <2>1. /\ followUps' \in [Agents -> 0..2]
        /\ processing' \subseteq Agents /\ pending' \subseteq Agents /\ active' \subseteq Agents
        /\ retained' \subseteq Agents /\ looping' \subseteq Agents /\ sent' \subseteq Agents
        /\ status' \in [Agents -> {"none", "running"} \cup TerminalStatus]
    BY <1>4, FollowUpTyped DEF CompletesResumed
  <2>2. events' \in [Agents -> Nat]
    BY <1>4 DEF CompletesResumed, Typed
  <2>3. UNCHANGED <<engineLoaded, aborted, contexts, track, verdict, waiting, aggregator,
                    waitAll, stopped>>
    BY <1>4 DEF CompletesResumed, FollowUp, resultVars
  <2> QED BY <2>1, <2>2, <2>3 DEF Typed
<1> QED BY <1>1, <1>2, <1>3, <1>4 DEF LoopCompletes

LEMMA GateTyped ==
  ASSUME Typed, NEW a \in Agents, GateAcceptsQueued(a) \/ GateResumesQueued(a)
  PROVE  Typed'
<1>1. CASE GateAcceptsQueued(a)
  <2>1. /\ track' \in [Agents -> {"none", "open", "settled", "abandoned"}]
        /\ verdict' \in [Agents -> {"none"} \cup TerminalStatus]
        /\ followUps' \in [Agents -> 0..2]
        /\ processing' \subseteq Agents /\ pending' \subseteq Agents /\ waiting' \subseteq Agents
        /\ aggregator' \in [Agents -> {"absent", "pending"} \cup TerminalStatus]
        /\ waitAll' \in {"idle", "waiting", "deaf", "done", "timed_out"}
        /\ contexts' \subseteq Agents /\ retained' \subseteq Agents
    BY <1>1, AcceptTyped DEF GateAcceptsQueued
  <2>2. UNCHANGED <<engineLoaded, active, status, looping, aborted, sent, events, stopped>>
    BY <1>1 DEF GateAcceptsQueued
  <2> QED BY <2>1, <2>2 DEF Typed
<1>2. CASE GateResumesQueued(a)
  <2>1. /\ followUps' \in [Agents -> 0..2]
        /\ processing' \subseteq Agents /\ pending' \subseteq Agents /\ active' \subseteq Agents
        /\ retained' \subseteq Agents /\ looping' \subseteq Agents /\ sent' \subseteq Agents
        /\ status' \in [Agents -> {"none", "running"} \cup TerminalStatus]
    BY <1>2, FollowUpTyped DEF GateResumesQueued
  <2>2. UNCHANGED <<engineLoaded, aborted, contexts, track, verdict, waiting, aggregator,
                    waitAll, events, stopped>>
    BY <1>2 DEF GateResumesQueued, FollowUp, resultVars
  <2> QED BY <2>1, <2>2 DEF Typed
<1> QED BY <1>1, <1>2

LEMMA ForceShutdownTyped ==
  ASSUME Typed, NEW S, S \subseteq Agents, NEW agg, ForceShutdown(S, agg),
         agg \in [Agents -> {"absent", "pending"} \cup TerminalStatus],
         waitAll' \in {"idle", "waiting", "deaf", "done", "timed_out"}, stopped' = stopped
  PROVE  Typed'
<1>1. PICK settling : settling = Listening(Publishing(S))
  OBVIOUS
<1>2. /\ Settle(settling, "cancelled") /\ Publish(S) /\ "cancelled" \in TerminalStatus
      /\ aggregator' = Put(agg, settling, "cancelled")
  BY <1>1 DEF ForceShutdown, TerminalStatus
<1>3. aggregator' \in [Agents -> {"absent", "pending"} \cup TerminalStatus]
  BY <1>2 DEF Put
<1>4. /\ looping' \subseteq Agents /\ active' \subseteq Agents /\ aborted' \subseteq Agents
      /\ contexts' \subseteq Agents /\ retained' \subseteq Agents
      /\ engineLoaded' \in BOOLEAN /\ stopped' \in BOOLEAN
  BY DEF ForceShutdown, Typed
<1>5. status' \in [Agents -> {"none", "running"} \cup TerminalStatus]
  BY <1>2 DEF ForceShutdown, Put, Typed
<1>6. sent' \subseteq Agents /\ events' \in [Agents -> Nat]
  BY <1>2, PublishTyped
<1>7. /\ track' \in [Agents -> {"none", "open", "settled", "abandoned"}]
      /\ verdict' \in [Agents -> {"none"} \cup TerminalStatus]
      /\ followUps' \in [Agents -> 0..2]
      /\ processing' \subseteq Agents /\ pending' \subseteq Agents /\ waiting' \subseteq Agents
  BY <1>2, SettleTyped
<1> QED BY <1>3, <1>4, <1>5, <1>6, <1>7 DEF Typed

LEMMA WaitTyped ==
  ASSUME Typed, NEW a \in Agents, WaitTimeout(a) \/ CancelActive(a)
  PROVE  Typed'
<1>1. CASE WaitTimeout(a)
  <2>1. track' \in [Agents -> {"none", "open", "settled", "abandoned"}]
    BY <1>1 DEF WaitTimeout, Put, Typed
  <2> QED BY <1>1, <2>1 DEF WaitTimeout, Record, Typed, TerminalStatus
<1>2. CASE CancelActive(a)
  <2>1. PICK agg : agg = IF aggregator[a] = "absent" THEN aggregator
                         ELSE [aggregator EXCEPT ![a] = "cancelled"]
    OBVIOUS
  <2>2. /\ agg \in [Agents -> {"absent", "pending"} \cup TerminalStatus]
        /\ ForceShutdown({a}, agg)
        /\ waitAll' \in {"idle", "waiting", "deaf", "done", "timed_out"} /\ stopped' = stopped
    BY <1>2, <2>1 DEF CancelActive, Typed, TerminalStatus
  <2> QED BY <2>2, ForceShutdownTyped
<1> QED BY <1>1, <1>2

\* and by the steps that are about all of them.
LEMMA RestTyped ==
  ASSUME Typed,
         \/ \E i \in 1..Len(waitQueue) : SpawnTimeout(i)
         \/ \E Failed \in SUBSET Agents : EngineLoads(Failed)
         \/ WaitForAll \/ WaitAllTimeout \/ ShutdownAll
  PROVE  Typed'
<1>1. CASE \E i \in 1..Len(waitQueue) : SpawnTimeout(i)
  BY <1>1 DEF SpawnTimeout, backendVars, trackVars, resultVars, Typed
<1>2. ASSUME NEW Failed \in SUBSET Agents, EngineLoads(Failed)
      PROVE  Typed'
  <2>1. PICK started : started = {a \in Agents : call[a] = "importing"} \ Failed
    OBVIOUS
  <2>2. Register(started) /\ engineLoaded' \in BOOLEAN
        /\ UNCHANGED <<active, status, aborted, sent, retained, contexts, events, stopped>>
    BY <1>2, <2>1 DEF EngineLoads
  <2>3. started \subseteq Agents
    BY <2>1
  <2> QED BY <2>2, <2>3 DEF Register, Put, Typed
<1>3. CASE WaitForAll
  BY <1>3 DEF WaitForAll, backendVars, trackVars, Typed
<1>4. CASE WaitAllTimeout
  <2>1. PICK agg : agg = Put(aggregator, active, "timed_out")
    OBVIOUS
  <2>2. /\ agg \in [Agents -> {"absent", "pending"} \cup TerminalStatus] /\ active \subseteq Agents
        /\ ForceShutdown(active, agg)
        /\ waitAll' \in {"idle", "waiting", "deaf", "done", "timed_out"} /\ stopped' = stopped
    BY <1>4, <2>1 DEF WaitAllTimeout, Put, Typed, TerminalStatus
  <2> QED BY <2>2, ForceShutdownTyped
<1>5. CASE ShutdownAll
  <2>1. PICK settling : settling = Listening(Publishing(active))
    OBVIOUS
  <2>2. /\ aggregator' = Put(aggregator, settling, "cancelled")
        /\ verdict' = Put(verdict, settling, "cancelled") /\ waiting' = waiting \ settling
        /\ Publish(active) /\ active \subseteq Agents
    BY <1>5, <2>1 DEF ShutdownAll, Typed
  <2>3. sent' \subseteq Agents /\ events' \in [Agents -> Nat]
    BY <2>2, PublishTyped
  <2>4. /\ aggregator' \in [Agents -> {"absent", "pending"} \cup TerminalStatus]
        /\ verdict' \in [Agents -> {"none"} \cup TerminalStatus] /\ waiting' \subseteq Agents
    BY <2>2 DEF Put, Typed, TerminalStatus
  <2>5. /\ status' \in [Agents -> {"none", "running"} \cup TerminalStatus]
        /\ track' \in [Agents -> {"none", "open", "settled", "abandoned"}]
    BY <1>5 DEF ShutdownAll, Put, Typed, TerminalStatus
  <2>6. /\ aborted' \subseteq Agents /\ active' \subseteq Agents /\ looping' \subseteq Agents
        /\ retained' \subseteq Agents /\ contexts' \subseteq Agents
        /\ processing' \subseteq Agents /\ pending' \subseteq Agents
        /\ followUps' \in [Agents -> 0..2] /\ engineLoaded' \in BOOLEAN /\ stopped' \in BOOLEAN
    BY <1>5 DEF ShutdownAll, Typed
  <2>7. waitAll' \in {"idle", "waiting", "deaf", "done", "timed_out"}
    BY <1>5 DEF ShutdownAll, Typed
  <2> QED BY <2>3, <2>4, <2>5, <2>6, <2>7 DEF Typed
<1> QED BY <1>1, <1>2, <1>3, <1>4, <1>5

LEMMA InitAgrees == Init => AgentInv
<1> SUFFICES ASSUME Init PROVE AgentInv
  OBVIOUS
<1>1. PermitInv
  BY InitEstablishes
<1>2. Typed
  <2>1. followUps \in [Agents -> 0..2] /\ events \in [Agents -> Nat]
    BY DEF Init
  <2>2. /\ status \in [Agents -> {"none", "running"} \cup TerminalStatus]
        /\ track \in [Agents -> {"none", "open", "settled", "abandoned"}]
        /\ verdict \in [Agents -> {"none"} \cup TerminalStatus]
        /\ aggregator \in [Agents -> {"absent", "pending"} \cup TerminalStatus]
    BY DEF Init
  <2> QED BY <2>1, <2>2, ConfigAssumption DEF Init, Typed
<1>3. ASSUME NEW a \in Agents
      PROVE  Consistent(a)
  BY DEF Init, Consistent, Doomed, Calm, Prompt
<1> QED BY <1>1, <1>2, <1>3 DEF Init, AgentInv

\* Every step keeps every agent's parts in agreement.
LEMMA StepKept ==
  ASSUME AgentInv, [Next]_vars, NEW b \in Agents
  PROVE  Kept(b)
<1>1. ASSUME NEW a \in Agents, AgentStep(a)
      PROVE  Kept(b)
  <2>1. CASE Spawn(a) \/ BackendSpawn(a) \/ BackendSpawnFails(a) \/ BackendImports(a)
    BY <2>1, SpawnAgrees, BackendSpawnAgrees, BackendSpawnFailsAgrees, BackendImportsAgrees
  <2>2. CASE LoopTimesOut(a)
    <3>1. "timed_out" \in TerminalStatus /\ EndsInError(a, "timed_out")
      BY <2>2 DEF LoopTimesOut, TerminalStatus
    <3> QED BY <3>1, EndsInErrorAgrees
  <2>3. CASE LoopFails(a)
    <3>1. "failed" \in TerminalStatus /\ EndsInError(a, "failed")
      BY <2>3 DEF LoopFails, TerminalStatus
    <3> QED BY <3>1, EndsInErrorAgrees
  <2>4. CASE LoopCompletes(a)
    BY <2>4, CompletesUnheardAgrees, CompletesQueuedAgrees, CompletesAcceptedAgrees,
       CompletesResumedAgrees DEF LoopCompletes
  <2>5. CASE AgentTimeout(a) \/ GateUnwinds(a) \/ GateAcceptsQueued(a) \/ GateResumesQueued(a)
    BY <2>5, AgentTimeoutAgrees, GateUnwindsAgrees, GateAcceptsQueuedAgrees,
       GateResumesQueuedAgrees
  <2>6. CASE WaitForCompletion(a) \/ WaitTimeout(a) \/ CancelActive(a) \/ CancelEnded(a)
    BY <2>6, WaitForCompletionAgrees, WaitTimeoutAgrees, CancelActiveAgrees, CancelEndedAgrees
  <2> QED BY <1>1, <2>1, <2>2, <2>3, <2>4, <2>5, <2>6 DEF AgentStep
<1>2. ASSUME NEW i \in 1..Len(waitQueue), SpawnTimeout(i)
      PROVE  Kept(b)
  BY <1>2, SpawnTimeoutAgrees
<1>3. ASSUME NEW Failed, EngineLoads(Failed)
      PROVE  Kept(b)
  BY <1>3, EngineLoadsAgrees
<1>4. CASE WaitForAll \/ UNCHANGED vars
  <2>1. UNCHANGED <<hooked, backendVars, trackVars, aggregator, call>>
    BY <1>4 DEF WaitForAll, permitVars, vars, resultVars
  <2>2. Same(b) /\ CallMoves(b)
    BY <2>1, NothingElse DEF CallMoves
  <2> QED BY <2>2, AgentFacts, SameKeeps
<1>5. CASE WaitAllTimeout
  BY <1>5, WaitAllTimeoutAgrees
<1>6. CASE ShutdownAll
  BY <1>6, ShutdownAllAgrees
<1> QED BY <1>1, <1>2, <1>3, <1>4, <1>5, <1>6 DEF Next

LEMMA StepTyped ==
  ASSUME Typed, [Next]_vars
  PROVE  Typed'
<1>1. ASSUME NEW a \in Agents, AgentStep(a)
      PROVE  Typed'
  <2>1. CASE LoopTimesOut(a) \/ LoopFails(a)
    <3>1. {"timed_out", "failed"} \subseteq TerminalStatus
      BY DEF TerminalStatus
    <3>2. EndsInError(a, "timed_out") \/ EndsInError(a, "failed")
      BY <2>1 DEF LoopTimesOut, LoopFails
    <3> QED BY <3>1, <3>2, LoopTyped
  <2>2. CASE LoopCompletes(a)
    <3>1. "failed" \in TerminalStatus
      BY DEF TerminalStatus
    <3> QED BY <2>2, <3>1, LoopTyped
  <2> QED BY <1>1, <2>1, <2>2, StepTyped1, GateTyped, WaitTyped DEF AgentStep
<1>2. CASE UNCHANGED vars
  BY <1>2 DEF vars, backendVars, trackVars, resultVars, Typed
<1> QED BY <1>1, <1>2, RestTyped DEF Next

LEMMA EngineStays ==
  ASSUME AgentInv, [Next]_vars
  PROVE  WarmStart => engineLoaded'
<1> SUFFICES ASSUME WarmStart PROVE engineLoaded'
  OBVIOUS
<1>1. engineLoaded
  BY AgentFacts
<1>2. ASSUME NEW Failed \in SUBSET Agents, EngineLoads(Failed)
      PROVE  FALSE
  <2>1. PICK c \in Agents : call[c] = "importing"
    BY <1>2 DEF EngineLoads
  <2>2. Consistent(c)
    BY AgentFacts
  <2> QED BY <2>1, <2>2 DEF Consistent
<1>3. ASSUME NEW a \in Agents, AgentStep(a)
      PROVE  engineLoaded' = engineLoaded
  <2>1. CASE Spawn(a) \/ BackendSpawn(a) \/ BackendSpawnFails(a) \/ BackendImports(a)
             \/ AgentTimeout(a) \/ GateUnwinds(a) \/ GateAcceptsQueued(a) \/ WaitForCompletion(a)
             \/ WaitTimeout(a) \/ CancelEnded(a)
    BY <2>1 DEF Spawn, BackendSpawn, BackendSpawnFails, BackendImports, AgentTimeout, GateUnwinds,
                GateAcceptsQueued, WaitForCompletion, WaitTimeout, CancelEnded, backendVars
  <2>2. CASE LoopTimesOut(a) \/ LoopFails(a) \/ LoopCompletes(a) \/ GateResumesQueued(a)
             \/ CancelActive(a)
    BY <2>2 DEF LoopTimesOut, LoopFails, EndsInError, EndLoop, LoopCompletes, CompletesUnheard,
                CompletesQueued, CompletesAccepted, CompletesResumed, GateResumesQueued, FollowUp,
                CancelActive, ForceShutdown
  <2> QED BY <1>3, <2>1, <2>2 DEF AgentStep
<1>4. (\E i \in 1..Len(waitQueue) : SpawnTimeout(i)) \/ WaitForAll \/ WaitAllTimeout
        \/ ShutdownAll \/ UNCHANGED vars
      => engineLoaded' = engineLoaded
  BY DEF SpawnTimeout, WaitForAll, WaitAllTimeout, ForceShutdown, ShutdownAll, backendVars, vars
<1> QED BY <1>1, <1>2, <1>3, <1>4 DEF Next

LEMMA WaitAllCalled ==
  ASSUME AgentInv, [Next]_vars
  PROVE  waitAll' = "idle" \/ "waitForAll" \in Operations
<1>1. waitAll = "idle" \/ "waitForAll" \in Operations
  BY AgentFacts
<1>2. ASSUME NEW agg, Record(agg)
      PROVE  waitAll = "idle" => waitAll' = "idle"
  BY <1>2 DEF Record
<1>3. ASSUME NEW a \in Agents, AgentStep(a)
      PROVE  waitAll = "idle" => waitAll' = "idle"
  <2>1. CASE Spawn(a) \/ BackendSpawn(a) \/ BackendSpawnFails(a) \/ BackendImports(a)
             \/ AgentTimeout(a) \/ GateUnwinds(a) \/ WaitForCompletion(a)
             \/ GateResumesQueued(a)
    BY <2>1 DEF Spawn, BackendSpawn, Register, BackendSpawnFails, BackendImports, AgentTimeout,
                GateUnwinds, WaitForCompletion, GateResumesQueued, FollowUp, resultVars
  <2>2. CASE GateAcceptsQueued(a) \/ WaitTimeout(a) \/ CancelEnded(a)
    BY <1>2, <2>2 DEF GateAcceptsQueued, Accept, WaitTimeout, CancelEnded
  <2>3. CASE LoopTimesOut(a) \/ LoopFails(a)
    BY <1>2, <2>3 DEF LoopTimesOut, LoopFails, EndsInError
  <2>4. CASE LoopCompletes(a)
    BY <1>2, <2>4 DEF LoopCompletes, CompletesUnheard, CompletesQueued, CompletesAccepted, Accept,
                      CompletesResumed, FollowUp, resultVars
  <2>5. CASE CancelActive(a)
    BY <2>5 DEF CancelActive
  <2> QED BY <1>3, <2>1, <2>2, <2>3, <2>4, <2>5 DEF AgentStep
<1>4. ASSUME NEW Failed \in SUBSET Agents, EngineLoads(Failed)
      PROVE  waitAll' = waitAll
  BY <1>4 DEF EngineLoads, Register
<1>5. (\E i \in 1..Len(waitQueue) : SpawnTimeout(i)) \/ WaitForAll \/ WaitAllTimeout
        \/ ShutdownAll \/ UNCHANGED vars
      => waitAll' = waitAll \/ "waitForAll" \in Operations
  BY <1>1 DEF SpawnTimeout, WaitForAll, WaitAllTimeout, ShutdownAll, resultVars, vars
<1> QED BY <1>1, <1>3, <1>4, <1>5 DEF Next

\* The invariant holds throughout: spawn call, runtime, loop, event guard,
\* tracker, gate and aggregator entry of every agent agree.
LEMMA AgentInvariant == Spec => []AgentInv
<1>1. AgentInv /\ [Next]_vars => AgentInv'
  <2> SUFFICES ASSUME AgentInv, [Next]_vars PROVE AgentInv'
    OBVIOUS
  <2>1. PermitInv' /\ Typed'
    BY AgentFacts, StepPreserves, StepTyped
  <2>2. \A a \in Agents : Consistent(a)'
    BY StepKept DEF Kept
  <2> QED BY <2>1, <2>2, EngineStays, WaitAllCalled DEF AgentInv
<1> QED BY <1>1, InitAgrees, PTL DEF Spec

\* Every variable keeps its type, the permit counter its range 0..limit and the
\* follow-up counter its bound among them (agent-orchestrator.ts:64-100).
THEOREM OrchestratorTypeCorrect == Spec => []TypeOK
<1>1. AgentInv => TypeOK
  <2> SUFFICES ASSUME AgentInv PROVE TypeOK
    OBVIOUS
  <2>1. /\ permits \in Nat /\ Cardinality(held) \in Nat
        /\ permits + Cardinality(held) = MaxConcurrentAgents
    BY AgentFacts, FS_CardinalityType DEF PermitInv, PermitsConserved
  <2>2. permits \in 0..MaxConcurrentAgents
    BY <2>1, LimitAssumption
  <2>3. /\ waitQueue \in Seq(Agents) /\ held \subseteq Agents /\ hooked \subseteq Agents
        /\ call \in [Agents -> {"idle", "waiting", "granted", "importing", "returned", "rejected"}]
    BY AgentFacts DEF PermitInv, CallStates
  <2> QED BY <2>2, <2>3, AgentFacts DEF Typed, TypeOK
<1> QED BY <1>1, AgentInvariant, PTL

\* Whichever of an agent's loop, its timer, cancel() and the shutdowns gets there
\* first, one terminal event is published per turn (backend-shared.ts:59-83).
THEOREM OneTerminalEvent == Spec => []OneTerminalEventPerTurn
<1>1. AgentInv => OneTerminalEventPerTurn
  BY DEF AgentInv, Consistent, OneTerminalEventPerTurn
<1> QED BY <1>1, AgentInvariant, PTL

\* What a completion promise settled with is what the aggregator has on record,
\* up to a later cancel() (agent-orchestrator.ts:311-333, 416-446).
THEOREM VerdictsNeverDisagree == Spec => []VerdictsAgree
<1>1. AgentInv => VerdictsAgree
  BY DEF AgentInv, Consistent, VerdictsAgree
<1> QED BY <1>1, AgentInvariant, PTL

\* An agent keeps its permit and the hook that releases it as long as its tracker
\* is open, if the engine module was loaded before or nobody calls cancel(): an
\* agent that is cancelled while its engine is imported is registered all the
\* same, and a second cancel() takes its hook (agent-orchestrator.ts:154-168).
THEOREM RunsHoldPermits ==
  ASSUME Calm
  PROVE  Spec => []OpenRunHoldsPermit
<1>1. AgentInv => OpenRunHoldsPermit
  BY DEF AgentInv, Consistent, PermitInv, OpenRunHoldsPermit
<1> QED BY <1>1, AgentInvariant, PTL

\* An entry that says timed out or cancelled stays so, if the engine module was
\* loaded before or nobody calls waitForAll(): its timeout during the import of an
\* engine records an agent that spawn() then registers as pending
\* (agent-orchestrator.ts:295, 418).
THEOREM TimedOutStaysTimedOut ==
  ASSUME Prompt
  PROVE  Spec => NoLateResurrection
<1>1. AgentInv /\ [Next]_vars
        => [\A a \in Agents : aggregator[a] \in {"timed_out", "cancelled"} =>
              aggregator'[a] \in {"timed_out", "cancelled"}]_vars
  BY StepKept DEF Kept, Late
<1> QED BY <1>1, AgentInvariant, PTL DEF Spec, NoLateResurrection

=============================================================================
