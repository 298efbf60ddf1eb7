---------------------------- MODULE ToolExecutor ----------------------------
(***************************************************************************)
(* Batches of tool calls (src/src/executors/toolExecutor.ts) on their way  *)
(* through hooks, permissions, the user's dialog (AppRoot.tsx), the two    *)
(* pools of permits and the timeout. Several executors, those of sub-      *)
(* agents, share the process-wide pool. What a call is answered is data.   *)
(* An action is what a call does between two waits. Both pools are the     *)
(* semaphore that Semaphore.tla shows to be a PermitPool: only its line is *)
(* a variable here, its holders are the calls at certain places.           *)
(***************************************************************************)
EXTENDS Permissions, Integers, FiniteSets, SequencesExt

CONSTANTS
  Calls, Executors,
  ExecutorOf,      \* the executor of a call
  ToolOf,          \* the tool it names
  Position,        \* its place in the batch of its executor
  Facts,           \* what the permission check finds out about it
  Safe,            \* the calls whose tool says isConcurrencySafe
  OsCalls,         \* calls of OS_NETWORK_TOOLS
  Edits,           \* calls of FileWrite and FileEdit
  Blocked,         \* calls refused by phase or agent restrictions
  Unsandboxed,     \* calls that need a sandbox that is not there
  LateTools,       \* tools that are registered in the background
  LocalMax,        \* maxConcurrentTools (5)
  GlobalMax,       \* DEFAULT_GLOBAL_TOOL_CONCURRENCY
  Attended,        \* the executors with the UI's permission handler
  Policy,          \* noninteractiveAskPolicy: "deny" or "allow"
  Hooks,           \* whether plugins hook the calls
  InitialModes, Armed,  \* permission modes at the start; KC_ALLOW_BYPASS=1
  MaxSwitches,     \* bound: changes of the UI's mode
  Watched,         \* any executor: its pool is compared with PermitPool
  NoCall           \* null

ASSUME CallsAssumption ==
  /\ IsFiniteSet(Calls) /\ NoCall \notin Calls /\ OsCalls \subseteq Calls
  /\ ExecutorOf \in [Calls -> Executors]
  /\ Position \in [Calls -> Nat]
  /\ \A c, d \in Calls : ExecutorOf[c] = ExecutorOf[d] /\ Position[c] = Position[d] => c = d
ASSUME WatchedAssumption == Watched \in Executors
ASSUME FactsAssumption == Facts \in [Calls -> CallFacts]
ASSUME LimitsAssumption == LocalMax \in Nat \ {0} /\ GlobalMax \in Nat \ {0}
ASSUME ModesAssumption == InitialModes \subseteq PermissionModes /\ MaxSwitches \in Nat

VARIABLES
  at,              \* where each call is: see Places
  verdict,         \* the last word of the permission check on it
  registered,      \* the late tools that have arrived
  mode,            \* permissionMode
  autonomous,      \* the UI is in auto or goal mode
  switches,
  handler,         \* the UI's permission handler is attached
  asks, shown,     \* permissionQueueRef; the request in the dialog
  rules,           \* per executor, the tools the user has allowed for good
  globalLine, localLine   \* the queues of the semaphores

uiVars   == <<mode, autonomous, switches, handler>>
lineVars == <<globalLine, localLine>>
permVars == <<asks, shown, rules>>
vars == <<at, verdict, registered, uiVars, permVars, lineVars>>

\* new: its batch has not begun.  sent: handed to executeSingle().  turn: waits
\* for the batch to come to it.  global, local: in the line of a pool.  gate: at
\* the executor's pool, the process-wide permit in hand if it needs one.
Places == {"new", "sent", "turn", "hook", "check", "classify", "verdict", "preview",
           "asked", "cleared", "global", "gate", "local", "running", "post", "settled"}

Local(e) == {c \in Calls : ExecutorOf[c] = e}
LocalHolders(e) == {c \in Local(e) : at[c] = "running"}
GlobalHolders == {c \in OsCalls : at[c] \in {"gate", "local", "running"}}
Before(c) == {d \in Local(ExecutorOf[c]) : d \in Safe \/ Position[d] < Position[c]}
Underway(c) == at[c] \notin {"new", "turn", "settled"}
HasHandler(c) == handler /\ ExecutorOf[c] \in Attended

Init ==
  /\ at = [c \in Calls |-> "new"]
  /\ verdict = [c \in Calls |-> "none"]
  /\ registered = {}
  /\ mode \in InitialModes /\ autonomous = FALSE /\ switches = 0
  /\ handler = TRUE
  /\ asks = <<>> /\ shown = NoCall
  /\ rules = [e \in Executors |-> {}]
  /\ globalLine = <<>> /\ localLine = [e \in Executors |-> <<>>]

Go(c, place) == at' = [at EXCEPT ![c] = place]
Settle(c) == Go(c, "settled")

-----------------------------------------------------------------------------
(* executeParallel() *)

Unknown(c) == ToolOf[c] \in LateTools \ registered

\* Bug for comparison: all calls of a batch begin at once.
BeginAllAtOnce(e) ==
  /\ \A c \in Local(e) : at[c] = "new"
  /\ at' = [c \in Calls |-> IF c \notin Local(e) THEN at[c]
                            ELSE IF Unknown(c) THEN "settled" ELSE "sent"]
  /\ UNCHANGED <<verdict, registered, uiVars, permVars, lineVars>>

\* Unknown tools are answered at once; the calls that are safe beside others
\* begin together, the rest will go one by one after them.
BeginBatch(e) ==
  /\ \A c \in Local(e) : at[c] = "new"
  /\ at' = [c \in Calls |-> IF c \notin Local(e) THEN at[c]
                            ELSE IF Unknown(c) THEN "settled"
                            ELSE IF c \in Safe THEN "sent" ELSE "turn"]
  /\ UNCHANGED <<verdict, registered, uiVars, permVars, lineVars>>

TakeTurn(c) ==
  /\ at[c] = "turn"
  /\ \A d \in Before(c) : at[d] = "settled"
  /\ Go(c, "sent")
  /\ UNCHANGED <<verdict, registered, uiVars, permVars, lineVars>>

-----------------------------------------------------------------------------
(* executeSingle(), up to the permits *)

\* The tool is known by now.  Restrictions come before anything else.
Send(c) ==
  /\ at[c] = "sent"
  /\ IF c \in Blocked THEN Settle(c) ELSE Go(c, IF Hooks THEN "hook" ELSE "check")
  /\ UNCHANGED <<verdict, registered, uiVars, permVars, lineVars>>

\* preToolUse lets the call pass (so it does when it throws) or blocks it.
PreToolUse(c) ==
  /\ at[c] = "hook"
  /\ Go(c, "check") \/ Settle(c)
  /\ UNCHANGED <<verdict, registered, uiVars, permVars, lineVars>>

FactsNow(c) == [Facts[c] EXCEPT !.allowRule = @ \/ ToolOf[c] \in rules[ExecutorOf[c]]]

\* checkPermission(): rules and mode are read here, the classifier takes time.
Check(c) ==
  /\ at[c] = "check"
  /\ LET v == Decide(FactsNow(c), mode, Armed) IN
       /\ verdict' = [verdict EXCEPT ![c] = v]
       /\ Go(c, IF v = "classify" THEN "classify" ELSE "verdict")
  /\ UNCHANGED <<registered, uiVars, permVars, lineVars>>

Classify(c) ==
  /\ at[c] = "classify"
  /\ \E v \in {"allow", "ask", "deny"} : verdict' = [verdict EXCEPT ![c] = v]
  /\ Go(c, "verdict")
  /\ UNCHANGED <<registered, uiVars, permVars, lineVars>>

\* An 'ask' goes to the user, unless edits are accepted in this mode; without a
\* handler the policy answers.
AcceptedEdit(c) == c \in Edits /\ mode = "acceptEdits"
Passes(c) == verdict[c] = "allow" \/ (verdict[c] = "ask" /\ AcceptedEdit(c))
MustAsk(c) == verdict[c] = "ask" /\ ~AcceptedEdit(c)
Follow(c) ==
  /\ at[c] = "verdict"
  /\ \/ verdict[c] = "deny" /\ Settle(c)
     \/ Passes(c) /\ Go(c, "cleared")
     \/ MustAsk(c) /\ HasHandler(c) /\ Go(c, "preview")
     \/ MustAsk(c) /\ ~HasHandler(c) /\ Policy = "deny" /\ Settle(c)
     \/ MustAsk(c) /\ ~HasHandler(c) /\ Policy # "deny" /\ Go(c, "cleared")
  /\ verdict' = [verdict EXCEPT ![c] = "none"]
  /\ UNCHANGED <<registered, uiVars, permVars, lineVars>>

\* Bug for comparison: a request that arrives takes over the dialog.
AskOverwriting(c) ==
  /\ at[c] = "preview" /\ handler /\ ~autonomous
  /\ asks' = Append(asks, c)
  /\ shown' = c
  /\ Go(c, "asked")
  /\ UNCHANGED <<verdict, rules, registered, uiVars, lineVars>>

\* buildDiffPreview() is done: the request is queued, and shown if the dialog is
\* free.
Ask(c) ==
  /\ at[c] = "preview" /\ handler /\ ~autonomous
  /\ asks' = Append(asks, c)
  /\ shown' = IF shown = NoCall THEN c ELSE shown
  /\ Go(c, "asked")
  /\ UNCHANGED <<verdict, rules, registered, uiVars, lineVars>>

\* In auto and goal mode the UI approves by itself.
ApproveUnasked(c) ==
  /\ at[c] = "preview" /\ handler /\ autonomous
  /\ Go(c, "cleared")
  /\ UNCHANGED <<verdict, registered, uiVars, permVars, lineVars>>

\* The handler went away while the preview was built: the call of null throws.
AskNobody(c) ==
  /\ at[c] = "preview" /\ ~handler
  /\ Settle(c)
  /\ UNCHANGED <<verdict, registered, uiVars, permVars, lineVars>>

HeadOr(q) == IF q = <<>> THEN NoCall ELSE Head(q)

\* The user decides the request in the dialog; the oldest one left is next.
\* "Always" adds a rule for the tool to this executor.
Answer(c, decision) ==
  /\ shown = c /\ at[c] = "asked"
  /\ \E i \in 1..Len(asks) : asks[i] = c /\ asks' = RemoveAt(asks, i)
  /\ shown' = HeadOr(asks')
  /\ rules' = IF decision = "allow_always"
              THEN [rules EXCEPT ![ExecutorOf[c]] = @ \cup {ToolOf[c]}] ELSE rules
  /\ IF decision = "deny" THEN Settle(c) ELSE Go(c, "cleared")
  /\ UNCHANGED <<verdict, registered, uiVars, lineVars>>

\* Bug for comparison: only the request in the dialog is denied.
DetachHandlerOnly ==
  /\ handler /\ handler' = FALSE
  /\ at' = [c \in Calls |-> IF c = shown THEN "settled" ELSE at[c]]
  /\ asks' = <<>> /\ shown' = NoCall
  /\ UNCHANGED <<verdict, registered, rules, mode, autonomous, switches, lineVars>>

\* The UI is torn down: it detaches its handler and denies all that is queued.
DetachHandler ==
  /\ handler /\ handler' = FALSE
  /\ at' = [c \in Calls |-> IF c \in ToSet(asks) THEN "settled" ELSE at[c]]
  /\ asks' = <<>> /\ shown' = NoCall
  /\ UNCHANGED <<verdict, registered, rules, mode, autonomous, switches, lineVars>>

\* Bug for comparison: the name of the UI's mode is stored as permissionMode.
SwitchModeByName(next) ==
  /\ handler /\ switches < MaxSwitches
  /\ switches' = switches + 1
  /\ mode' = (IF next = "default" THEN "build" ELSE next) /\ autonomous' = (next = "auto")
  /\ UNCHANGED <<at, verdict, registered, handler, permVars, lineVars>>

\* applyUiMode(): build, plan, auto or goal.
SwitchMode(next) ==
  /\ handler /\ switches < MaxSwitches
  /\ switches' = switches + 1
  /\ mode' = next /\ autonomous' = (next = "auto")
  /\ UNCHANGED <<at, verdict, registered, handler, permVars, lineVars>>

-----------------------------------------------------------------------------
(* The permits and the run *)

\* A command or network call takes a process-wide permit first.
Clear(c) ==
  /\ at[c] = "cleared"
  /\ IF c \in Unsandboxed THEN Settle(c) /\ UNCHANGED globalLine
     ELSE IF c \in OsCalls /\ Cardinality(GlobalHolders) >= GlobalMax
     THEN Go(c, "global") /\ globalLine' = Append(globalLine, c)
     ELSE Go(c, "gate") /\ UNCHANGED globalLine
  /\ UNCHANGED <<verdict, registered, uiVars, permVars, localLine>>

\* Then one of the executor.
EnterLocal(c) ==
  LET e == ExecutorOf[c] IN
  /\ at[c] = "gate"
  /\ IF Cardinality(LocalHolders(e)) >= LocalMax
     THEN Go(c, "local") /\ localLine' = [localLine EXCEPT ![e] = Append(@, c)]
     ELSE Go(c, "running") /\ UNCHANGED localLine
  /\ UNCHANGED <<verdict, registered, uiVars, permVars, globalLine>>

\* Bug for comparison: the process-wide permit is not handed to the next in line.
LeaveHolding(c, place) ==
  LET e == ExecutorOf[c] IN
  /\ at' = [d \in Calls |-> IF d = c THEN place
                            ELSE IF d = HeadOr(localLine[e]) THEN "running" ELSE at[d]]
  /\ localLine' = [localLine EXCEPT ![e] = IF @ = <<>> THEN @ ELSE Tail(@)]
  /\ UNCHANGED globalLine

\* Both permits come back, and the next in each line goes on.
Leave(c, place) ==
  LET e == ExecutorOf[c]
      heir == IF c \in OsCalls THEN HeadOr(globalLine) ELSE NoCall
  IN
  /\ at' = [d \in Calls |-> IF d = c THEN place
                            ELSE IF d = HeadOr(localLine[e]) THEN "running"
                            ELSE IF d = heir THEN "gate" ELSE at[d]]
  /\ localLine' = [localLine EXCEPT ![e] = IF @ = <<>> THEN @ ELSE Tail(@)]
  /\ globalLine' = IF heir = NoCall THEN globalLine ELSE Tail(globalLine)

\* The tool answers.  If it throws, as it does for the batch when that was
\* aborted while it ran, the postToolUse hook is left out.
Finish(c) ==
  /\ at[c] = "running"
  /\ \E place \in {"post", "settled"} : Leave(c, place)
  /\ UNCHANGED <<verdict, registered, uiVars, permVars>>

\* The timer wins the race: the tool is told to abort, but nobody waits for it.
TimeOut(c) ==
  /\ at[c] = "running"
  /\ Leave(c, "post")
  /\ UNCHANGED <<verdict, registered, uiVars, permVars>>

PostToolUse(c) ==
  /\ at[c] = "post"
  /\ Settle(c)
  /\ UNCHANGED <<verdict, registered, uiVars, permVars, lineVars>>

\* A server's tools arrive in the registry.
Register(t) ==
  /\ t \in LateTools \ registered
  /\ registered' = registered \cup {t}
  /\ UNCHANGED <<at, verdict, uiVars, permVars, lineVars>>

-----------------------------------------------------------------------------
Decisions == {"allow", "allow_always", "deny"}

\* What takes a call further by itself, or by an answer of the user.
Advance(c) ==
  \/ TakeTurn(c) \/ Send(c) \/ PreToolUse(c) \/ Check(c) \/ Classify(c) \/ Follow(c)
  \/ Ask(c) \/ ApproveUnasked(c) \/ AskNobody(c)
  \/ \E d \in Decisions : Answer(c, d)
  \/ Clear(c) \/ EnterLocal(c) \/ Finish(c) \/ TimeOut(c) \/ PostToolUse(c)

Next ==
  \/ \E c \in Calls : Advance(c)
  \/ \E e \in Executors : BeginBatch(e)
  \/ \E m \in {"default", "plan", "auto"} : SwitchMode(m)
  \/ \E t \in LateTools : Register(t)
  \/ DetachHandler

Spec == Init /\ [][Next]_vars

\* Continuations run, hooks and the classifier answer, a running call ends or
\* times out, and the user answers what the dialog shows.  No call is favoured.
FairSpec == Spec /\ WF_vars(\E c \in Calls : Advance(c))

-----------------------------------------------------------------------------
(* Properties *)

\* The variables keep their types.
TypeOK ==
  /\ at \in [Calls -> Places]
  /\ verdict \in [Calls -> {"none", "allow", "ask", "deny", "classify"}]
  /\ registered \subseteq LateTools
  /\ mode \in PermissionModes /\ autonomous \in BOOLEAN /\ handler \in BOOLEAN
  /\ switches \in 0..MaxSwitches
  /\ asks \in Seq(Calls) /\ shown \in Calls \cup {NoCall}
  /\ globalLine \in Seq(OsCalls) /\ localLine \in [Executors -> Seq(Calls)]

\* The dialog shows the oldest request that waits, and exactly the calls that wait
\* for the user are queued, once each: no request can push another aside
\* (AppRoot.tsx:377-381).
PromptsInTurn ==
  /\ shown = HeadOr(asks)
  /\ ToSet(asks) = {c \in Calls : at[c] = "asked"}
  /\ \A i, j \in 1..Len(asks) : asks[i] = asks[j] => i = j

\* A call that is not safe beside others has the executor to itself from its
\* permission check to its answer, however the calls before it ended
\* (executeParallel, toolExecutor.ts:730-800).
LoneUnlessSafe ==
  \A c, d \in Calls :
    ExecutorOf[c] = ExecutorOf[d] /\ c # d /\ c \notin Safe /\ Underway(c) => ~Underway(d)

\* Both kinds of permits are handed out as the semaphore does: never more than
\* there are, first come first served, none lost by a call that fails, times out
\* or is aborted, though a call takes two, one after the other
\* (toolExecutor.ts:500-514).
GlobalPool == INSTANCE PermitPool WITH
  Clients <- OsCalls, MaxPermits <- GlobalMax, holders <- GlobalHolders, line <- globalLine
LocalPool == INSTANCE PermitPool WITH
  Clients <- Local(Watched), MaxPermits <- LocalMax,
  holders <- LocalHolders(Watched), line <- localLine[Watched]
ImplementsPools == GlobalPool!Spec /\ LocalPool!Spec

\* Every call of a batch is answered: no request to the user, no line and no
\* batch gets stuck, whatever times out, is aborted or torn down
\* (AppRoot.tsx:424-433, toolExecutor.ts:713-800).
EveryCallAnswered == \A c \in Calls : at[c] # "new" ~> at[c] = "settled"
=============================================================================
