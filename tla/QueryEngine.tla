---------------------------- MODULE QueryEngine ----------------------------
\* The query loop (QueryEngine.submitMessage): one query at a time goes through
\* the states of the agent's state machine, turn by turn.  An action is what
\* runs between two points where the loop waits (an LLM request, a retry delay,
\* the tools) or comes back to its top; the user, the stream timeout and the
\* background compaction act in between.
EXTENDS Conversation

CONSTANTS
  MaxTurns,        \* config.maxTurns
  Suggested,       \* what estimateTaskComplexity() may suggest instead
  Ceiling,         \* maxTurnsCeiling; 0 stands for every value <= 0: no ceiling
  Extension,       \* turns an extension adds (20)
  AutoExtend,      \* autoExtendTurns
  MinTurns,        \* minTurns
  PlanTurns,       \* turns of the planning phase, 0 when it is disabled
  PlanExempt,      \* planning turns do not count (exemptFromBudget)
  MaxRetries,      \* retries of a request (10)
  PatchGuarantee,  \* patchGuarantee.enabled
  MaxZeroPatch, MaxTypeCheck, MaxVerification,  \* retries of the exit gates (3, 2, 2)
  CheckpointEvery, \* turns between two progress checkpoints (10)
  LongQuery,       \* budgets above this get the phase reminders (10)
  LastTurns,       \* the last reminder comes so many turns before the end (5)
  Outgrows,        \* whether the transcript may outgrow the context window
  MaxQueries, MaxQueued, MaxClears   \* bounds: what the user does in a run

ASSUME TurnsAssumption ==
  /\ MaxTurns \in Nat /\ Suggested \subseteq Nat /\ Ceiling \in Nat /\ Extension \in Nat
  /\ PlanTurns \in Nat
ASSUME RetriesAssumption ==
  /\ MaxRetries \in Nat /\ MaxZeroPatch \in Nat /\ MaxTypeCheck \in Nat /\ MaxVerification \in Nat
  /\ MaxQueued \in Nat

VARIABLES
  state,           \* stateMachine.currentState
  at,              \* where the loop is: see Places
  turnCount, maxTurns,
  planTurn,        \* planningHandler.turnCount
  steers, followUps,  \* the lengths of the two queues
  aborted,         \* _aborted
  conversational,  \* activeQueryConversational
  modified,        \* modifiedFiles is not empty
  zeroPatch, typeCheck, verification,   \* the retries the gates have used
  attempt, overflowed,  \* retryAttempt and overflowRecoveryAttempted
  queries, queued, clears, batches  \* the user's acts so far; batches of follow-ups this query

gateVars  == <<zeroPatch, typeCheck, verification>>
askVars   == <<attempt, overflowed>>                     \* locals of streamingPhase()
loopVars  == <<turnCount, maxTurns, batches, askVars>>   \* and of submitMessage(): 0 out of scope
userVars  == <<queries, queued, clears>>
queryVars == <<conversational, modified, aborted>>
queueVars == <<steers, followUps>>
restVars  == <<planTurn, queryVars, gateVars, userVars>>
vars == <<convVars, state, at, loopVars, queueVars, restVars>>

States == {"idle", "planning", "compacting", "streaming", "deciding", "executing", "completed", "error"}
\* out: no query runs.  top: the head of the while loop.  asking: the head of
\* the retry loop.  waiting: a request is out.  tools: tool calls run.
Places == {"out", "top", "asking", "waiting", "tools"}

LastKind(q) == IF q = <<>> THEN "none" ELSE q[Len(q)].kind
Lesser(m, n) == IF m < n THEN m ELSE n
Users(n) == [i \in 1..n |-> "user"]

Init ==
  /\ ConvInit
  /\ state = "idle" /\ at = "out"
  /\ turnCount = 0 /\ maxTurns = 0 /\ batches = 0 /\ planTurn = 0
  /\ steers = 0 /\ followUps = 0
  /\ conversational = FALSE /\ modified = FALSE /\ aborted = FALSE
  /\ zeroPatch = 0 /\ typeCheck = 0 /\ verification = 0
  /\ attempt = 0 /\ overflowed = FALSE
  /\ queries = 0 /\ queued = 0 /\ clears = 0

-----------------------------------------------------------------------------
\* As many of n turns as the ceiling allows, if there is one.
Capped(n) == IF Ceiling = 0 THEN n ELSE Lesser(n, Ceiling)

\* The turns a query gets at first: a task may get more, small talk less.
Budgets(talk) ==
  {MaxTurns} \cup {IF n > MaxTurns THEN Capped(n) ELSE n :
                     n \in {n \in Suggested : n > MaxTurns \/ talk}}

\* submitMessage() up to the loop: reset, the user's message, the trim.
SubmitMessage(talk, budget) ==
  /\ at = "out" /\ queries < MaxQueries
  /\ Submit
  /\ state' = "idle" /\ at' = "top"
  /\ aborted' = FALSE /\ conversational' = talk
  /\ turnCount' = 0 /\ maxTurns' = budget
  /\ zeroPatch' = 0 /\ typeCheck' = 0 /\ verification' = 0
  /\ queries' = queries + 1
  /\ UNCHANGED <<batches, askVars, planTurn, queueVars, modified, queued, clears>>

\* Bug for comparison: the loop is left without telling the state machine.
EndInSilently(s) ==
  /\ state' = state /\ at' = "out"
  /\ turnCount' = 0 /\ maxTurns' = 0 /\ batches' = 0 /\ attempt' = 0 /\ overflowed' = FALSE

\* The loop ends in a terminal state, with an error in particular.
EndIn(s) ==
  /\ state' = s /\ at' = "out"
  /\ turnCount' = 0 /\ maxTurns' = 0 /\ batches' = 0 /\ attempt' = 0 /\ overflowed' = FALSE

\* An abort is noticed at the head of the loop.
TopAborted ==
  /\ at = "top" /\ aborted
  /\ EndIn("error")
  /\ UNCHANGED <<convVars, queueVars, restVars>>

AtTop(s) == at = "top" /\ ~aborted /\ state = s

Idle ==
  /\ AtTop("idle")
  /\ state' = IF PlanTurns > 0 /\ ~conversational THEN "planning" ELSE "compacting"
  /\ UNCHANGED <<convVars, at, loopVars, queueVars, restVars>>

\* Compaction is attempted when the transcript has grown too large.
Compacting ==
  /\ AtTop("compacting")
  /\ (Outgrows /\ Trigger) \/ UNCHANGED convVars
  /\ state' = "streaming"
  /\ UNCHANGED <<at, loopVars, queueVars, restVars>>

-----------------------------------------------------------------------------
\* streamingPhase() checks the token budget and goes on to the retry loop.
\* A planning turn is complete if its last message, an answer, says so; the
\* phase is over then or when its turns are used up, and findings may be added.
Completes(last) == IF last \in {"assistant", "call"} THEN BOOLEAN ELSE {FALSE}
PlanOver(complete) == complete \/ planTurn + 1 >= PlanTurns
Findings(complete) == IF PlanOver(complete) THEN {<<>>, <<"system">>} ELSE {<<>>}

PlanningPrompt == IF planTurn = 0 THEN <<"system">> ELSE <<>>

PlanTurn ==
  /\ AtTop("planning")
  /\ Extend(PlanningPrompt)
  /\ at' = "asking"
  /\ UNCHANGED <<state, loopVars, queueVars, restVars>>

PlanTurnEnds(answer) ==
  \E complete \in Completes(LastKind(messages \o Fresh(answer))) : \E findings \in Findings(complete) :
    /\ Extend(answer \o findings)
    /\ planTurn' = planTurn + 1
    /\ turnCount' = IF complete /\ ~PlanExempt THEN turnCount + planTurn' ELSE turnCount
    /\ state' = IF PlanOver(complete) THEN "streaming" ELSE "planning"
    /\ UNCHANGED <<maxTurns, steers>>

\* Over budget the state is "completed", from which the transition to
\* "streaming" at the end of the phase is invalid.
PlanOverBudget ==
  /\ AtTop("planning")
  /\ \E complete \in Completes(LastKind(messages \o Fresh(PlanningPrompt))) :
       \E findings \in Findings(complete) :
         /\ Extend(PlanningPrompt \o findings)
         /\ EndIn(IF PlanOver(complete) THEN "error" ELSE "completed")
  /\ planTurn' = planTurn + 1
  /\ UNCHANGED <<queueVars, queryVars, gateVars, userVars>>

Streaming ==
  /\ AtTop("streaming")
  /\ Drain
  /\ at' = "asking"
  /\ UNCHANGED <<state, loopVars, queueVars, restVars>>

OverBudget ==
  /\ AtTop("streaming")
  /\ Drain
  /\ EndIn("completed")
  /\ UNCHANGED <<queueVars, restVars>>

\* The head of the retry loop: an abort ends the query, else the request goes out.
Ask ==
  /\ at = "asking" /\ attempt <= MaxRetries
  /\ IF aborted THEN EndIn("error") ELSE at' = "waiting" /\ UNCHANGED <<state, loopVars>>
  /\ UNCHANGED <<convVars, queueVars, restVars>>

-----------------------------------------------------------------------------
\* Reminders and the anti-abandonment notice that afterStreamingTurn() steers
\* with, when the last message of turn n is of kind "last".
Reminders(n, last) ==
  IF conversational THEN 0
  ELSE (IF n = 1 /\ maxTurns > LongQuery THEN 1 ELSE 0)
     + (IF n + LastTurns = maxTurns /\ maxTurns > LongQuery THEN 1 ELSE 0)
     + (IF n < MinTurns /\ last = "assistant" THEN 1 ELSE 0)

Checkpoint(n) == IF n % CheckpointEvery = 0 /\ modified THEN <<"user">> ELSE <<>>

\* Bug for comparison: the budget grows past the ceiling.
BudgetAfterUncapped(n, answer) ==
  IF n < maxTurns \/ ~AutoExtend THEN {maxTurns}
  ELSE {maxTurns + Extension} \cup IF answer = "call" THEN {} ELSE {maxTurns}

\* The turn budget after turn n: it grows while files or tool calls made
\* progress lately, and a turn with tool calls did.
BudgetAfter(n, answer) ==
  IF n < maxTurns \/ ~AutoExtend \/ (Ceiling > 0 /\ maxTurns >= Ceiling) THEN {maxTurns}
  ELSE {Capped(maxTurns + Extension)} \cup IF answer = "call" THEN {} ELSE {maxTurns}

\* A turn ends that added the answer of these kinds, one or none.
StreamTurnEnds(answer) ==
  LET n     == turnCount + 1
      kinds == answer \o Checkpoint(n)
  IN  /\ Extend(kinds)
      /\ turnCount' = n
      /\ maxTurns' \in BudgetAfter(n, LastKind(messages \o Fresh(answer)))
      /\ steers' = steers + Reminders(n, LastKind(messages \o Fresh(kinds)))
      /\ state' = "deciding"
      /\ UNCHANGED planTurn

TurnEnds(answer) ==
  /\ IF state = "planning" THEN PlanTurnEnds(answer) ELSE StreamTurnEnds(answer)
  /\ at' = "top" /\ attempt' = 0 /\ overflowed' = FALSE
  /\ UNCHANGED <<batches, followUps, queryVars, gateVars, userVars>>

\* The model answers, or an abort cut its answer short.
Answer(kind) ==
  /\ at = "waiting"
  /\ TurnEnds(<<kind>>)

\* The turn ends without an answer and without an error: the response was
\* degraded, the circuit breaker is open, or the last attempt overflowed.
NoAnswer ==
  /\ at = "waiting" \/ (at = "asking" /\ attempt > MaxRetries)
  /\ TurnEnds(<<>>)

\* The context overflowed for the first time: it is cut and the request retried.
Overflow(c) ==
  /\ at = "waiting" /\ Outgrows /\ ~overflowed
  /\ Shrink(c)
  /\ overflowed' = TRUE /\ attempt' = attempt + 1 /\ at' = "asking"
  /\ UNCHANGED <<state, turnCount, maxTurns, batches, queueVars, restVars>>

\* Bug for comparison: retries are not counted.
RetryUncounted ==
  /\ at = "waiting"
  /\ at' = "asking"
  /\ UNCHANGED <<convVars, state, turnCount, maxTurns, batches, askVars, queueVars, restVars>>

Retry ==
  /\ at = "waiting" /\ attempt < MaxRetries
  /\ attempt' = attempt + 1 /\ at' = "asking"
  /\ UNCHANGED <<convVars, state, turnCount, maxTurns, batches, overflowed, queueVars, restVars>>

Fail ==
  /\ at = "waiting"
  /\ EndIn("error")
  /\ UNCHANGED <<convVars, queueVars, restVars>>

-----------------------------------------------------------------------------
\* decide() on the last message: what it may return and do, as records of
\* whether to go on, the gate that was used, and whether it speaks to the model.
Go(on, gate) == [on |-> on, gate |-> gate]

\* Exit gates for an answer without tool calls.
ExitGates ==
  IF conversational THEN {Go(FALSE, "none")}
  ELSE IF turnCount < MinTurns THEN {Go(TRUE, "none")}
  ELSE IF ~PatchGuarantee THEN {Go(FALSE, "none")}
  ELSE IF ~modified THEN {IF zeroPatch < MaxZeroPatch THEN Go(TRUE, "zeroPatch") ELSE Go(FALSE, "none")}
  ELSE {Go(FALSE, "none")}
         \cup {g \in {Go(TRUE, "typeCheck")} : typeCheck < MaxTypeCheck}
         \cup {g \in {Go(TRUE, "verification")} : verification < MaxVerification}

\* Failing tests are reported also when the answer has tool calls.
CallGates ==
  {Go(TRUE, "none")}
    \cup {g \in {Go(TRUE, "verification")} : PatchGuarantee /\ modified /\ verification < MaxVerification}

Verdicts ==
  IF turnCount >= maxTurns THEN {Go(FALSE, "none")}
  ELSE CASE LastKind(messages) = "assistant" -> ExitGates
         [] LastKind(messages) = "call" -> CallGates
         [] OTHER -> {Go(turnCount < MinTurns /\ ~conversational, "none")}

\* A gate steers the model; the last two also put the message in at once.
Gate(g) ==
  /\ zeroPatch' = zeroPatch + IF g = "zeroPatch" THEN 1 ELSE 0
  /\ typeCheck' = typeCheck + IF g = "typeCheck" THEN 1 ELSE 0
  /\ verification' = verification + IF g = "verification" THEN 1 ELSE 0
  /\ steers' = steers + IF g = "none" THEN 0 ELSE 1
  /\ IF g \in {"typeCheck", "verification"} THEN Extend(<<"user">>) ELSE UNCHANGED convVars

Continue ==
  /\ AtTop("deciding")
  /\ \E v \in {v \in Verdicts : v.on} : Gate(v.gate)
  /\ state' = "executing"
  /\ UNCHANGED <<at, loopVars, followUps, planTurn, queryVars, userVars>>

Stops == AtTop("deciding") /\ \E v \in Verdicts : ~v.on

\* Follow-ups wait for the end of the turn and start another one.
FollowUp ==
  /\ Stops /\ followUps > 0
  /\ Extend(Users(followUps))
  /\ followUps' = 0 /\ batches' = batches + 1
  /\ state' = "streaming"
  /\ UNCHANGED <<at, turnCount, maxTurns, askVars, steers, restVars>>

Done ==
  /\ Stops /\ followUps = 0
  /\ EndIn("completed")
  /\ UNCHANGED <<convVars, queueVars, restVars>>

-----------------------------------------------------------------------------
\* executeToolCalls(): tool calls run only if they are in the last message.
RunTools ==
  /\ AtTop("executing") /\ LastKind(messages) = "call"
  /\ at' = "tools"
  /\ UNCHANGED <<convVars, state, loopVars, queueVars, restVars>>

\* Bug for comparison: queued steers stay in the queue.
ThenSteersKept(kinds) ==
  /\ Extend(kinds)
  /\ steers' = steers
  /\ state' = "streaming" /\ at' = "top"

\* Messages of these kinds and then the queued steers are added.
ThenSteers(kinds) ==
  /\ Extend(kinds \o Users(steers))
  /\ steers' = 0
  /\ state' = "streaming" /\ at' = "top"

NothingToRun ==
  /\ AtTop("executing") /\ LastKind(messages) # "call"
  /\ ThenSteers(<<>>)
  /\ UNCHANGED <<loopVars, followUps, restVars>>

\* The calls have all settled; one tool message stands for all results.
ToolsSettled(wrote) ==
  /\ at = "tools"
  /\ ThenSteers(<<"tool">>)
  /\ modified' = (modified \/ wrote)
  /\ UNCHANGED <<loopVars, followUps, planTurn, conversational, aborted, gateVars, userVars>>

-----------------------------------------------------------------------------
\* abort(), by the user or by the timeout of the stream.
Abort ==
  /\ at # "out" /\ ~aborted
  /\ aborted' = TRUE
  /\ UNCHANGED <<convVars, state, at, loopVars, queueVars, planTurn, conversational, modified, gateVars, userVars>>

\* Bug for comparison: a steer goes straight into the transcript.
SteerNow ==
  /\ queued < MaxQueued
  /\ Extend(<<"user">>) /\ queued' = queued + 1
  /\ UNCHANGED <<state, at, loopVars, queueVars, planTurn, queryVars, gateVars, queries, clears>>

Steer ==
  /\ queued < MaxQueued
  /\ steers' = steers + 1 /\ queued' = queued + 1
  /\ UNCHANGED <<convVars, state, at, loopVars, followUps, planTurn, queryVars, gateVars, queries, clears>>

QueueFollowUp ==
  /\ queued < MaxQueued
  /\ followUps' = followUps + 1 /\ queued' = queued + 1
  /\ UNCHANGED <<convVars, state, at, loopVars, steers, planTurn, queryVars, gateVars, queries, clears>>

\* Bug for comparison: the compaction is not reset.
NewSessionKeepingCompaction(kinds) ==
  /\ at = "out" /\ clears < MaxClears
  /\ messages' = Fresh(kinds) /\ added' = added + Len(kinds) /\ dropped' = 1..added
  /\ state' = "idle" /\ aborted' = FALSE /\ modified' = FALSE
  /\ steers' = 0 /\ followUps' = 0 /\ planTurn' = 0
  /\ zeroPatch' = 0 /\ typeCheck' = 0 /\ verification' = 0
  /\ clears' = clears + 1
  /\ UNCHANGED <<pending, running, stale, at, loopVars, conversational, queries, queued>>

\* clear() or restoreSession() between two queries.
NewSession(kinds) ==
  /\ at = "out" /\ clears < MaxClears
  /\ Replace(kinds)
  /\ state' = "idle" /\ aborted' = FALSE /\ modified' = FALSE
  /\ steers' = 0 /\ followUps' = 0 /\ planTurn' = 0
  /\ zeroPatch' = 0 /\ typeCheck' = 0 /\ verification' = 0
  /\ clears' = clears + 1
  /\ UNCHANGED <<at, loopVars, conversational, queries, queued>>

CompactionEnds ==
  /\ \E i \in DOMAIN running : \E r \in Outcomes(running[i]) : Complete(i, r)
  /\ UNCHANGED <<state, at, loopVars, queueVars, restVars>>

-----------------------------------------------------------------------------
Loop ==
  \/ TopAborted \/ Idle \/ Compacting
  \/ PlanTurn \/ PlanOverBudget \/ Streaming \/ OverBudget \/ Ask
  \/ \E kind \in {"assistant", "call"} : Answer(kind)
  \/ NoAnswer \/ Retry \/ Fail
  \/ \E c \in DOMAIN messages : Overflow(c)
  \/ Continue \/ FollowUp \/ Done
  \/ RunTools \/ NothingToRun
  \/ \E wrote \in BOOLEAN : ToolsSettled(wrote)

\* A restored snapshot has a system and a user message at least.
Outside ==
  \/ \E talk \in BOOLEAN : \E budget \in Budgets(talk) : SubmitMessage(talk, budget)
  \/ Abort \/ Steer \/ QueueFollowUp \/ CompactionEnds
  \/ \E kinds \in {<<>>, <<"system", "user">>} : NewSession(kinds)

Next == Loop \/ Outside

Spec == Init /\ [][Next]_vars

\* The loop goes on: requests end, by the stream timeout if nothing else,
\* retry delays elapse, and tools settle, by their own timeout if nothing else.
FairSpec == Spec /\ WF_vars(Loop)

-----------------------------------------------------------------------------
TypeOK ==
  /\ ConvTypeOK
  /\ state \in States /\ at \in Places
  /\ (at = "out") => state \in {"idle", "completed", "error"}
  /\ turnCount \in Nat /\ maxTurns \in Nat /\ planTurn \in Nat
  /\ steers \in Nat /\ followUps \in 0..MaxQueued
  /\ aborted \in BOOLEAN /\ conversational \in BOOLEAN /\ modified \in BOOLEAN
  /\ zeroPatch \in 0..MaxZeroPatch /\ typeCheck \in 0..MaxTypeCheck /\ verification \in 0..MaxVerification
  /\ attempt \in 0..(MaxRetries + 1) /\ overflowed \in BOOLEAN

\* The loop uses the transcript only as the compaction allows: every step is
\* one operation of the conversation, or none.
ImplementsConversation == ConvSpec

\* A query does not run for ever, whatever fails, overflows, is steered or
\* followed up: it ends, completed or with an error (QueryEngine.ts:503-727),
\* if its budget has a ceiling or does not grow.  Without a ceiling a query that
\* makes progress is to go on (QueryEngine.ts:481-483).
QueryEnds == (Ceiling > 0 \/ ~AutoExtend) => (at # "out" ~> at = "out")

\* No turns beyond the budget, but one for each batch of follow-ups, and what a
\* completed planning phase counted; and no budget beyond the ceiling, if there
\* is one (QueryEngine.ts:481-501, QueryEngineTurnControl.ts:200-212).
TurnsBounded ==
  /\ turnCount <= (IF planTurn >= maxTurns THEN planTurn + 1 ELSE maxTurns) + batches
  /\ Ceiling > 0 => maxTurns <= IF Ceiling > MaxTurns THEN Ceiling ELSE MaxTurns

\* No turn is spent on asking the model again what it has just answered: when
\* the loop goes on, something new was said, by a tool, a steer, a gate or a
\* follow-up (QueryEngineTurnControl.ts:190-198, QueryEngineDecision.ts:84-87,
\* 117-138).  The turns of a planning phase and the first one after it do repeat
\* themselves, and are exempt.
PromptIsFresh ==
  at = "asking" /\ state = "streaming" /\ (PlanTurns = 0 \/ conversational \/ turnCount > planTurn)
    => LastKind(messages) \notin {"assistant", "call"}

\* Nothing comes between a call and its result, whatever is steered or queued
\* meanwhile: providers reject a conversation where they are apart
\* (QueryEngineStreaming.ts:107-113, QueryEngine.ts:1240-1244).
ResultsFollowCalls ==
  \A i \in 2..Len(messages) :
    messages[i].kind = "tool" /\ (\E n \in 1..added : messages[i - 1].of = {n} /\ messages[i].of = {n + 1})
      => messages[i - 1].kind = "call"
=============================================================================
