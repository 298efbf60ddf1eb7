------------------------- MODULE AgentOrchestrator --------------------------
(***************************************************************************)
(* The multi-agent coordinator: src/src/orchestrator/agent-orchestrator.ts *)
(* with the parts it drives in the same process, InProcessBackend,         *)
(* TerminalEventGuard and ResultAggregator, and its semaphore of spawn     *)
(* permits.                                                                *)
(*                                                                         *)
(* An action is a timer, I/O or API callback with the synchronous calls it *)
(* makes, or a promise continuation that such a callback left behind.      *)
(* Continuations run before the next callback: Quiescent says that none is *)
(* left.  What a gate or a settled promise does after an await that has    *)
(* nothing to wait for is part of the action that reached the await.       *)
(***************************************************************************)
EXTENDS Integers, FiniteSets, SequencesExt

CONSTANTS
  Agents,               \* spawn() calls; each gets an agentId of its own
  MaxConcurrentAgents,  \* permits of the semaphore
  Gated,                \* agents with a report policy or checkpoints
  MaxFollowUps,         \* [Agents -> 0..2], follow-up turns a policy allows
  WarmStart,            \* TRUE when CachedQueryEngine was loaded before
  Operations            \* which of "cancel", "waitForAll", "shutdownAll" are called

ASSUME LimitAssumption == MaxConcurrentAgents \in Nat \ {0}
ASSUME ConfigAssumption ==
  /\ Gated \subseteq Agents
  /\ MaxFollowUps \in [Agents -> 0..2]
  /\ WarmStart \in BOOLEAN
  /\ Operations \subseteq {"cancel", "waitForAll", "shutdownAll"}

VARIABLES
  \* the semaphore and the spawn() calls
  permits,      \* semaphore.permits
  waitQueue,    \* semaphore.waitQueue: the spawn() calls waiting
  held,         \* agents whose spawn() took a permit that is not given back
  hooked,       \* releaseHooks and the permit listeners, set and unset together
  call,         \* where each spawn() call stands
  \* the backend
  engineLoaded, \* CachedQueryEngine is set
  active,       \* activeAgents
  status,       \* runtime.status
  looping,      \* agents whose runAgentLoop has not ended
  aborted,      \* agents whose abort controller fired
  sent,         \* terminalGuard.sent
  retained,     \* completedAgents
  contexts,     \* parentContexts
  \* the trackers of completion promises
  track,        \* the tracker: none, open, settled or abandoned
  verdict,      \* what its promise settled with
  followUps,    \* followUpsUsed
  processing,   \* agents whose completion handler is suspended
  pending,      \* agents with a queued completion event
  waiting,      \* waitForCompletion() calls with a running timer
  \* the aggregator
  aggregator,   \* expectedAgents: the status of each entry
  waitAll,      \* the waitForAll() call; deaf once shutdownAll() dropped its listeners
  \* history
  events,       \* terminal events published so far, per agent
  stopped       \* shutdownAll() has run

permitVars  == <<permits, waitQueue, held, hooked, call>>
backendVars == <<engineLoaded, active, status, looping, aborted, sent, retained, contexts, events>>
trackVars   == <<track, verdict, followUps, processing, pending, waiting>>
resultVars  == <<aggregator, waitAll>>
vars == <<permitVars, backendVars, trackVars, resultVars, stopped>>

TerminalStatus == {"completed", "failed", "timed_out", "cancelled"}

TypeOK ==
  /\ permits \in 0..MaxConcurrentAgents
  /\ waitQueue \in Seq(Agents)
  /\ held \subseteq Agents /\ hooked \subseteq Agents
  /\ call \in [Agents -> {"idle", "waiting", "granted", "importing", "returned", "rejected"}]
  /\ engineLoaded \in BOOLEAN /\ stopped \in BOOLEAN
  /\ \A set \in {active, looping, aborted, sent, retained, contexts, processing, pending, waiting} :
        set \subseteq Agents
  /\ status \in [Agents -> {"none", "running"} \cup TerminalStatus]
  /\ track \in [Agents -> {"none", "open", "settled", "abandoned"}]
  /\ verdict \in [Agents -> {"none"} \cup TerminalStatus]
  /\ followUps \in [Agents -> 0..2]
  /\ aggregator \in [Agents -> {"absent", "pending"} \cup TerminalStatus]
  /\ waitAll \in {"idle", "waiting", "deaf", "done", "timed_out"}
  /\ events \in [Agents -> Nat]

Init ==
  /\ permits = MaxConcurrentAgents
  /\ waitQueue = <<>>
  /\ held = {} /\ hooked = {}
  /\ call = [a \in Agents |-> "idle"]
  /\ engineLoaded = WarmStart
  /\ active = {} /\ looping = {} /\ aborted = {} /\ sent = {}
  /\ retained = {} /\ contexts = {}
  /\ status = [a \in Agents |-> "none"]
  /\ track = [a \in Agents |-> "none"]
  /\ verdict = [a \in Agents |-> "none"]
  /\ followUps = [a \in Agents |-> 0]
  /\ processing = {} /\ pending = {} /\ waiting = {}
  /\ aggregator = [a \in Agents |-> "absent"]
  /\ waitAll = "idle"
  /\ events = [a \in Agents |-> 0]
  /\ stopped = FALSE

-----------------------------------------------------------------------------
(* Shared effects *)

\* f with v at every argument in S.
Put(f, S, v) == [x \in DOMAIN f |-> IF x \in S THEN v ELSE f[x]]

\* No promise continuation is left to run: no spawn() that has its permit and
\* no completion handler stands between two callbacks.
Quiescent == processing = {} /\ \A a \in Agents : call[a] # "granted"

\* The agents of S that still have a release hook: releaseOnce() acts on these.
\* (Bug for comparison: a `released` flag that is never set.)
HookedAlways(S) == S
Hooked(S) == S \cap hooked

\* semaphore.release() for each agent of R: its permit goes to the longest
\* waiting spawn(), or back to the counter.  calls is call with the answers
\* that the same action gives.  (Bugs for comparison: a release that leaves
\* the queue alone, and one that takes entries off it unanswered.)
HandBackIgnoresQueue(R, calls) ==
  /\ held' = held \ R
  /\ permits' = permits + Cardinality(R)
  /\ call' = calls
  /\ UNCHANGED waitQueue

HandBackDropsHeirs(R, calls) ==
  LET k == Cardinality(R)
      heirs == {waitQueue[i] : i \in (1..k) \cap (1..Len(waitQueue))}
  IN  /\ held' = held \ R
      /\ waitQueue' = SubSeq(waitQueue, k + 1, Len(waitQueue))
      /\ permits' = permits + k - Cardinality(heirs)
      /\ call' = calls

HandBack(R, calls) ==
  LET k == Cardinality(R)
      heirs == {waitQueue[i] : i \in (1..k) \cap (1..Len(waitQueue))}
  IN  /\ held' = (held \ R) \cup heirs
      /\ waitQueue' = SubSeq(waitQueue, k + 1, Len(waitQueue))
      /\ permits' = permits + k - Cardinality(heirs)
      /\ call' = Put(calls, heirs, "granted")

\* releaseOnce() for those of S that have a hook.
ReleasePermits(S) ==
  /\ HandBack(Hooked(S), call)
  /\ hooked' = hooked \ S

\* The aggregator becomes agg and waitForAll(), if it listens, is woken when
\* nothing is pending.  (Bug for comparison: nobody calls notifyAggregateWaiters.)
AllDone(agg) == \A a \in Agents : agg[a] # "pending"
RecordQuietly(agg) == aggregator' = agg /\ UNCHANGED waitAll
Record(agg) ==
  /\ aggregator' = agg
  /\ waitAll' = IF waitAll = "waiting" /\ AllDone(agg) THEN "done" ELSE waitAll

\* The trackers of S settle with verdict v and answer their waiters, whose
\* timers are cleared.  (Bug for comparison: the timers keep running.)
SettleKeepsTimers(S, v) ==
  /\ track' = Put(track, S, "settled")
  /\ verdict' = Put(verdict, S, v)
  /\ processing' = processing \ S
  /\ pending' = pending \ S
  /\ UNCHANGED <<followUps, waiting>>

Settle(S, v) ==
  /\ track' = Put(track, S, "settled")
  /\ verdict' = Put(verdict, S, v)
  /\ processing' = processing \ S
  /\ pending' = pending \ S
  /\ waiting' = waiting \ S
  /\ UNCHANGED followUps

\* The trackers among S that still listen.  (Bug for comparison: one that was
\* abandoned is taken for one that listens.)
ListeningUnlessSettled(S) == {a \in S : track[a] \in {"open", "abandoned"}}
Listening(S) == {a \in S : track[a] = "open"}

\* terminalGuard.emitOnce() for the agents of S: those that publish.  (Bug for
\* comparison: the guard is not asked.)
PublishingAlways(S) == S
Publishing(S) == S \ sent
Publish(S) ==
  /\ sent' = sent \cup S
  /\ events' = [a \in Agents |-> events[a] + IF a \in Publishing(S) THEN 1 ELSE 0]

-----------------------------------------------------------------------------
(* spawn() *)

\* spawn() up to its semaphore: a permit at once, or a place in the queue, also
\* after shutdownAll().
Spawn(a) ==
  /\ Quiescent
  /\ call[a] = "idle"
  /\ \/ /\ permits > 0
        /\ permits' = permits - 1
        /\ held' = held \cup {a}
        /\ call' = [call EXCEPT ![a] = "granted"]
        /\ UNCHANGED waitQueue
     \/ /\ permits = 0
        /\ waitQueue' = Append(waitQueue, a)
        /\ call' = [call EXCEPT ![a] = "waiting"]
        /\ UNCHANGED <<permits, held>>
  /\ UNCHANGED <<hooked, backendVars, trackVars, resultVars, stopped>>

\* SPAWN_PERMIT_TIMEOUT_MS passes: the queued call is rejected.
SpawnTimeout(i) ==
  /\ Quiescent
  /\ i \in 1..Len(waitQueue)
  /\ waitQueue' = RemoveAt(waitQueue, i)
  /\ call' = [call EXCEPT ![waitQueue[i]] = "rejected"]
  /\ UNCHANGED <<permits, held, hooked, backendVars, trackVars, resultVars, stopped>>

\* The rest of spawn() for the agents of S whose backend.spawn() succeeded:
\* their loops run, hook, listener, aggregator entry and tracker exist.
Register(S) ==
  /\ looping' = looping \cup S
  /\ hooked' = hooked \cup S
  /\ track' = Put(track, S, "open")
  /\ aggregator' = Put(aggregator, S, "pending")
  /\ UNCHANGED <<verdict, followUps, processing, pending, waiting, waitAll>>

\* backend.spawn() enters the runtime before it has a QueryEngine.
EnterRuntime(a) ==
  /\ active' = active \cup {a}
  /\ contexts' = contexts \cup {a}
  /\ status' = [status EXCEPT ![a] = "running"]

\* backend.spawn() with the engine class at hand.
BackendSpawn(a) ==
  /\ call[a] = "granted" /\ engineLoaded
  /\ EnterRuntime(a)
  /\ Register({a})
  /\ call' = [call EXCEPT ![a] = "returned"]
  /\ UNCHANGED <<permits, waitQueue, held, engineLoaded, aborted, sent, retained, events, stopped>>

\* The same, and the engine's constructor throws: spawn() gives its permit back
\* and rejects; the runtime stays where it was entered.
BackendSpawnFails(a) ==
  /\ call[a] = "granted" /\ engineLoaded
  /\ EnterRuntime(a)
  /\ HandBack({a}, [call EXCEPT ![a] = "rejected"])
  /\ UNCHANGED <<hooked, engineLoaded, looping, aborted, sent, retained, events,
                 trackVars, resultVars, stopped>>

\* backend.spawn() waits for its import of the engine module.
BackendImports(a) ==
  /\ call[a] = "granted" /\ ~engineLoaded
  /\ EnterRuntime(a)
  /\ call' = [call EXCEPT ![a] = "importing"]
  /\ UNCHANGED <<permits, waitQueue, held, hooked, engineLoaded, looping, aborted, sent,
                 retained, events, trackVars, resultVars, stopped>>

\* The module arrives and every spawn() that waits for it goes on; those in
\* Failed do not get their engine.
EngineLoads(Failed) ==
  LET importing == {a \in Agents : call[a] = "importing"}
      started == importing \ Failed
  IN  /\ Quiescent
      /\ importing # {} /\ Failed \subseteq importing
      /\ engineLoaded' \in {TRUE, started # {}}
      /\ Register(started)
      /\ HandBack(Failed, Put(Put(call, started, "returned"), Failed, "rejected"))
      /\ UNCHANGED <<active, status, aborted, sent, retained, contexts, events, stopped>>

-----------------------------------------------------------------------------
(* The agent loop *)

\* The timer that runAgentLoop set, which it clears when it ends.
AgentTimeout(a) ==
  /\ Quiescent
  /\ a \in looping \ aborted
  /\ aborted' = aborted \cup {a}
  /\ UNCHANGED <<permitVars, engineLoaded, active, status, looping, sent, retained,
                 contexts, events, trackVars, resultVars, stopped>>

\* A loop ends in a callback of its own, or among the continuations that the
\* handler which resumed it has left behind.
MayEnd(a) == a \in looping /\ (Quiescent \/ a \in processing)

\* The finally block for a loop that ended with result s: the runtime is
\* dropped, or retained for its gate.
EndLoop(a, s) ==
  /\ looping' = looping \ {a}
  /\ status' = [status EXCEPT ![a] = s]
  /\ active' = active \ {a}
  /\ UNCHANGED <<engineLoaded, aborted>>

\* runAgentLoop ends by its timeout or by an exception; both error events
\* settle the tracker and release the permit.  (Bug for comparison: a permit
\* listener that only knows agent:subagent_completed.)
EndsInErrorKeepingPermit(a, s) ==
  /\ MayEnd(a)
  /\ EndLoop(a, s) /\ Publish({a})
  /\ LET settling == Listening(Publishing({a}))
     IN  Settle(settling, s) /\ Record(Put(aggregator, settling, s))
  /\ contexts' = contexts \ {a} /\ retained' = retained \ {a}
  /\ UNCHANGED <<permitVars, stopped>>

EndsInError(a, s) ==
  /\ MayEnd(a)
  /\ EndLoop(a, s) /\ Publish({a})
  /\ LET settling == Listening(Publishing({a}))
     IN  Settle(settling, s) /\ Record(Put(aggregator, settling, s))
  /\ contexts' = contexts \ {a} /\ retained' = retained \ {a}
  /\ ReleasePermits(Publishing({a}))
  /\ UNCHANGED stopped

LoopTimesOut(a) == a \in aborted /\ EndsInError(a, "timed_out")
LoopFails(a) == EndsInError(a, "failed")

\* The loop completes and no tracker listens: the runtime of a gated agent is
\* retained, the context of another one dropped.
CompletesUnheard(a) ==
  /\ MayEnd(a) /\ a \notin aborted
  /\ track[a] # "open"
  /\ EndLoop(a, "completed") /\ Publish({a})
  /\ retained' = retained \cup ({a} \cap Gated)
  /\ contexts' = contexts \ ({a} \ Gated)
  /\ ReleasePermits({a} \ Gated)
  /\ UNCHANGED <<trackVars, resultVars, stopped>>

\* The loop completes while the handler of its previous completion is still
\* suspended: the event is kept for it.  (Bug for comparison: it is dropped.)
CompletesDropped(a) ==
  /\ MayEnd(a) /\ a \notin aborted
  /\ track[a] = "open" /\ a \in processing
  /\ EndLoop(a, "completed") /\ Publish({a})
  /\ retained' = retained \cup {a}
  /\ UNCHANGED <<permitVars, contexts, trackVars, resultVars, stopped>>

CompletesQueued(a) ==
  /\ MayEnd(a) /\ a \notin aborted
  /\ track[a] = "open" /\ a \in processing
  /\ EndLoop(a, "completed") /\ Publish({a})
  /\ retained' = retained \cup {a}
  /\ pending' = pending \cup {a}
  /\ UNCHANGED <<permitVars, contexts, track, verdict, followUps, processing, waiting,
                 resultVars, stopped>>

\* The gate accepts the report, or has no follow-up left to ask for; or checking
\* the report throws.
GateVerdicts(a) == {"completed"} \cup {v \in {"failed"} : a \in Gated}

Accept(a) ==
  /\ \E v \in GateVerdicts(a) : Settle({a}, v) /\ Record([aggregator EXCEPT ![a] = v])
  /\ contexts' = contexts \ {a} /\ retained' = retained \ {a}
  /\ ReleasePermits({a})

CompletesAccepted(a) ==
  /\ MayEnd(a) /\ a \notin aborted
  /\ track[a] = "open" /\ a \notin processing
  /\ EndLoop(a, "completed") /\ Publish({a})
  /\ Accept(a)
  /\ UNCHANGED stopped

\* The gate finds blockers and resumes the agent for one more turn; the permit
\* stays with it.  resume() finds the runtime in active or in retained, with
\* its context, in every state this is reached in.
FollowUp(a) ==
  /\ a \in Gated /\ followUps[a] < MaxFollowUps[a]
  /\ followUps' = [followUps EXCEPT ![a] = @ + 1]
  /\ processing' = processing \cup {a}
  /\ pending' = pending \ {a}
  /\ active' = active \cup {a}
  /\ retained' = retained \ {a}
  /\ status' = [status EXCEPT ![a] = "running"]
  /\ looping' = looping \cup {a}
  /\ sent' = sent \ {a}
  /\ UNCHANGED <<engineLoaded, aborted, contexts, track, verdict, waiting, resultVars, stopped>>

\* (Bug for comparison: the permit listener does not ask whether it is gated.)
CompletesResumedUnpermitted(a) ==
  /\ MayEnd(a) /\ a \notin aborted
  /\ track[a] = "open" /\ a \notin processing
  /\ FollowUp(a)
  /\ events' = [events EXCEPT ![a] = @ + 1]
  /\ ReleasePermits({a})

CompletesResumed(a) ==
  /\ MayEnd(a) /\ a \notin aborted
  /\ track[a] = "open" /\ a \notin processing
  /\ FollowUp(a)
  /\ events' = [events EXCEPT ![a] = @ + 1]
  /\ UNCHANGED permitVars

LoopCompletes(a) ==
  CompletesUnheard(a) \/ CompletesQueued(a) \/ CompletesAccepted(a) \/ CompletesResumed(a)

\* The handler that asked for a follow-up gets to its finally block, and takes
\* up the completion that was queued meanwhile.
GateUnwinds(a) ==
  /\ a \in processing \ pending
  /\ processing' = processing \ {a}
  /\ UNCHANGED <<permitVars, backendVars, track, verdict, followUps, pending, waiting,
                 resultVars, stopped>>

GateAcceptsQueued(a) ==
  /\ a \in processing \cap pending
  /\ Accept(a)
  /\ UNCHANGED <<engineLoaded, active, status, looping, aborted, sent, events, stopped>>

GateResumesQueued(a) ==
  /\ a \in processing \cap pending
  /\ FollowUp(a)
  /\ UNCHANGED <<permitVars, events>>

-----------------------------------------------------------------------------
(* Waiting, cancelling, shutting down *)

\* waitForCompletion() on a tracker that has not settled starts a timer.
WaitForCompletion(a) ==
  /\ Quiescent
  /\ a \notin waiting
  /\ track[a] \in {"open", "abandoned"}
  /\ waiting' = waiting \cup {a}
  /\ UNCHANGED <<permitVars, backendVars, track, verdict, followUps, processing, pending,
                 resultVars, stopped>>

\* That timer: the tracker is abandoned and the permit released, whatever the
\* agent is doing.
WaitTimeout(a) ==
  /\ Quiescent
  /\ a \in waiting
  /\ waiting' = waiting \ {a}
  /\ track' = Put(track, Listening({a}), "abandoned")
  /\ Record([aggregator EXCEPT ![a] = "timed_out"])
  /\ contexts' = contexts \ {a} /\ retained' = retained \ {a}
  /\ ReleasePermits({a})
  /\ UNCHANGED <<engineLoaded, active, status, looping, aborted, sent, events,
                 verdict, followUps, processing, pending, stopped>>

\* backend.shutdown(a, true) for the agents of S, all of them active: abort,
\* publish agent:subagent_cancelled, settle; agg is what the aggregator holds
\* before the events are handled.
ForceShutdown(S, agg) ==
  LET settling == Listening(Publishing(S))
  IN  /\ aborted' = aborted \cup S
      /\ status' = Put(status, S, "cancelled")
      /\ active' = active \ S
      /\ Publish(S)
      /\ Settle(settling, "cancelled")
      /\ contexts' = contexts \ settling /\ retained' = retained \ settling
      /\ aggregator' = Put(agg, settling, "cancelled")
      /\ UNCHANGED <<engineLoaded, looping>>

\* cancel() of an agent a caller can name.  Only registered agents have an
\* entry that recordCancellation() can change.
CancelActive(a) ==
  /\ "cancel" \in Operations /\ Quiescent
  /\ a \in active
  /\ ForceShutdown({a}, IF aggregator[a] = "absent" THEN aggregator
                        ELSE [aggregator EXCEPT ![a] = "cancelled"])
  /\ waitAll' = IF waitAll = "waiting" /\ AllDone(aggregator') THEN "done" ELSE waitAll
  /\ ReleasePermits({a})
  /\ UNCHANGED stopped

CancelEnded(a) ==
  /\ "cancel" \in Operations /\ Quiescent
  /\ a \notin active /\ call[a] = "returned"
  /\ Record([aggregator EXCEPT ![a] = "cancelled"])
  /\ ReleasePermits({a})
  /\ UNCHANGED <<backendVars, trackVars, stopped>>

WaitForAll ==
  /\ "waitForAll" \in Operations /\ Quiescent
  /\ waitAll = "idle"
  /\ waitAll' = IF AllDone(aggregator) THEN "done" ELSE "waiting"
  /\ UNCHANGED <<permitVars, backendVars, trackVars, aggregator, stopped>>

\* The overall timeout: record every active agent as timed out, release its
\* permit and shut it down.
WaitAllTimeout ==
  /\ Quiescent
  /\ waitAll \in {"waiting", "deaf"}
  /\ ForceShutdown(active, Put(aggregator, active, "timed_out"))
  /\ ReleasePermits(active)
  /\ waitAll' = "timed_out"
  /\ UNCHANGED stopped

\* The trackers are forgotten and a waitForAll() in progress is left to its
\* timer, but queued spawn() calls keep their place.
ShutdownAll ==
  LET settling == Listening(Publishing(active))
  IN  /\ "shutdownAll" \in Operations /\ Quiescent
      /\ ~stopped /\ stopped' = TRUE
      /\ aborted' = aborted \cup active
      /\ status' = Put(status, active, "cancelled")
      /\ active' = {}
      /\ Publish(active)
      /\ track' = [a \in Agents |-> "none"]
      /\ verdict' = Put(verdict, settling, "cancelled")
      /\ waiting' = waiting \ settling
      /\ contexts' = {} /\ retained' = {}
      /\ aggregator' = Put(aggregator, settling, "cancelled")
      /\ waitAll' = IF waitAll # "waiting" THEN waitAll
                    ELSE IF AllDone(aggregator') THEN "done" ELSE "deaf"
      /\ HandBack(Hooked(active), call)
      /\ hooked' = {}
      /\ UNCHANGED <<engineLoaded, looping, followUps, processing, pending>>

-----------------------------------------------------------------------------
AgentStep(a) ==
  \/ Spawn(a) \/ BackendSpawn(a) \/ BackendSpawnFails(a) \/ BackendImports(a)
  \/ AgentTimeout(a) \/ LoopTimesOut(a) \/ LoopFails(a) \/ LoopCompletes(a)
  \/ GateUnwinds(a) \/ GateAcceptsQueued(a) \/ GateResumesQueued(a)
  \/ WaitForCompletion(a) \/ WaitTimeout(a) \/ CancelActive(a) \/ CancelEnded(a)

Next ==
  \/ \E a \in Agents : AgentStep(a)
  \/ \E i \in 1..Len(waitQueue) : SpawnTimeout(i)
  \/ \E Failed \in SUBSET Agents : EngineLoads(Failed)
  \/ WaitForAll \/ WaitAllTimeout \/ ShutdownAll

Spec == Init /\ [][Next]_vars

\* Continuations always run; the import settles; the timer of a loop fires
\* unless it is cleared; and a loop whose controller is aborted ends, since it
\* leaves at the next event and the engine was told to abort.  No caller has
\* to wait, no wait has to time out and no agent has to succeed.
FairSpec ==
  /\ Spec
  /\ \A a \in Agents :
       /\ WF_vars(BackendSpawn(a) \/ BackendSpawnFails(a) \/ BackendImports(a))
       /\ WF_vars(AgentTimeout(a))
       /\ WF_vars(a \in aborted /\ (LoopTimesOut(a) \/ LoopFails(a)))
       /\ WF_vars(GateUnwinds(a) \/ GateAcceptsQueued(a) \/ GateResumesQueued(a))
  /\ WF_vars(\E Failed \in SUBSET Agents : EngineLoads(Failed))

-----------------------------------------------------------------------------
(* Properties *)

\* Free permits and the spawns that hold one always add up to the limit:
\* terminal events, wait timeouts, cancellation, failed spawns and shutdown
\* release a permit exactly once (releaseOnce, agent-orchestrator.ts:124-141).
PermitsConserved == permits + Cardinality(held) = MaxConcurrentAgents

\* No spawn() waits while a permit is free, none is queued twice, and none that
\* holds a permit is still queued (agent-orchestrator.ts:115-117).
NoIdlePermit ==
  /\ waitQueue # <<>> => permits = 0
  /\ ToSet(waitQueue) \cap held = {}
  /\ \A i, j \in 1..Len(waitQueue) : waitQueue[i] = waitQueue[j] => i = j

\* As long as the tracker of an agent is open, through every follow-up turn of
\* its gate, the agent keeps its permit and the hook that will release it
\* (agent-orchestrator.ts:154-168: "Gated agents keep the permit across report
\* follow-up turns").
OpenRunHoldsPermit ==
  \A a \in Agents : track[a] = "open" => a \in held \cap hooked

\* A settled tracker and the aggregator tell the same story, unless cancel()
\* rewrote the entry afterwards; an abandoned one is on record as timed out or
\* cancelled (agent-orchestrator.ts:311-333, 416-446).
VerdictsAgree ==
  \A a \in Agents :
    /\ track[a] = "settled" => aggregator[a] \in {verdict[a], "cancelled"}
    /\ track[a] = "abandoned" => aggregator[a] \in {"timed_out", "cancelled"}

\* A terminal event is published at most once per turn of an agent, whichever
\* of its loop, its timer, cancel() and the shutdowns gets there first
\* (TerminalEventGuard, backend-shared.ts:59-83).
OneTerminalEventPerTurn ==
  \A a \in Agents : events[a] = followUps[a] + IF a \in sent THEN 1 ELSE 0

\* Once an agent is on record as timed out or cancelled, a late completion or
\* failure of its loop does not change that (the abandoned and settled checks,
\* agent-orchestrator.ts:295, 418).
NoLateResurrection ==
  [][ \A a \in Agents : aggregator[a] \in {"timed_out", "cancelled"} =>
        aggregator'[a] \in {"timed_out", "cancelled"} ]_vars

\* A permit that a spawn() took is released in the end, whatever becomes of
\* the agent and of those who wait for it (agent-orchestrator.ts:154-168).
PermitReturned == \A a \in Agents : a \in held ~> a \notin held

\* Every completion promise settles or is abandoned (trackCompletion,
\* agent-orchestrator.ts:234-287).
EverySpawnSettles ==
  \A a \in Agents : track[a] = "open" ~> track[a] \in {"settled", "abandoned"}

\* A queued spawn() gets an answer even if its own timer never fires, because
\* the agents in front of it give their permits back
\* (agent-orchestrator.ts:115-117).
SpawnAnswered ==
  \A a \in Agents : call[a] = "waiting" ~> call[a] \in {"returned", "rejected"}

\* waitForAll() returns without its own timeout once spawns stop coming
\* (waitForAll, agent-orchestrator.ts:570-620).
WaitAllReturns == waitAll = "waiting" ~> waitAll # "waiting"

\* The spawn permits implement the pool of PermitPool.
Pool == INSTANCE PermitPool WITH
          Clients <- Agents, MaxPermits <- MaxConcurrentAgents,
          holders <- held, line <- waitQueue
ImplementsPool == Pool!Spec
=============================================================================
