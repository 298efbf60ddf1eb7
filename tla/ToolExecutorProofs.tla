------------------------ MODULE ToolExecutorProofs -------------------------
(***************************************************************************)
(* For every set of executors, batches and limits: the dialog serves the   *)
(* requests in turn, a call that is not safe beside others runs alone, and *)
(* both kinds of permits are handed out as a PermitPool does.              *)
(***************************************************************************)
EXTENDS ToolExecutor, QueueLemmas

\* The lines hold exactly the calls that wait in them, once each.
GlobalLineMatches ==
  /\ Distinct(globalLine)
  /\ ToSet(globalLine) = {c \in Calls : at[c] = "global"}
LocalLinesMatch ==
  \A e \in Executors :
    /\ localLine[e] \in Seq(Local(e))
    /\ Distinct(localLine[e])
    /\ ToSet(localLine[e]) = {c \in Local(e) : at[c] = "local"}

\* What the batch loop relies on: when an unsafe call is underway, all calls
\* that go before it have been answered.
TurnOrder ==
  \A c \in Calls \ Safe : Underway(c) => \A d \in Before(c) : at[d] = "settled"

EInv == TypeOK /\ PromptsInTurn /\ GlobalLineMatches /\ LocalLinesMatch /\ TurnOrder

USE CallsAssumption

LEMMA InitEstablishes == Init => EInv
<1> SUFFICES ASSUME Init PROVE EInv
  OBVIOUS
<1>1. /\ <<>> \in Seq(Calls) /\ <<>> \in Seq(OsCalls) /\ Len(<<>>) = 0
      /\ \A e \in Executors : <<>> \in Seq(Local(e))
  OBVIOUS
<1>2. ToSet(<<>>) = {} /\ Distinct(<<>>)
  <2>1. ToSet(<<>>) = {}
    BY <1>1, ToSetIndexed, Zenon
  <2>2. Distinct(<<>>)
    BY DEF Distinct
  <2> QED BY <2>1, <2>2
<1>3. TypeOK
  <2>1. at \in [Calls -> Places]
    BY DEF Init, Places
  <2>2. verdict \in [Calls -> {"none", "allow", "ask", "deny", "classify"}]
    BY DEF Init
  <2>3. mode \in PermissionModes /\ switches \in 0..MaxSwitches
    BY ModesAssumption DEF Init
  <2>4. globalLine \in Seq(OsCalls) /\ localLine \in [Executors -> Seq(Calls)]
    BY <1>1 DEF Init
  <2> QED BY <1>1, <2>1, <2>2, <2>3, <2>4 DEF Init, TypeOK
<1>4. PromptsInTurn
  BY <1>1, <1>2 DEF Init, PromptsInTurn, HeadOr
<1>5. GlobalLineMatches
  BY <1>2 DEF Init, GlobalLineMatches
<1>6. LocalLinesMatch
  BY <1>1, <1>2 DEF Init, LocalLinesMatch, Local
<1>7. TurnOrder
  BY DEF Init, TurnOrder, Underway
<1> QED BY <1>3, <1>4, <1>5, <1>6, <1>7 DEF EInv

\* The verdict of the cascade is one of the four.
LEMMA DecideType ==
  ASSUME NEW f \in CallFacts, NEW m, NEW a
  PROVE  Decide(f, m, a) \in {"allow", "ask", "deny", "classify"}
BY DEF CallFacts, Decide

\* Of a step that touches no line, the dialog or no answered call, it is enough to
\* know who is where before and after.
LEMMA LinesUntouched ==
  ASSUME EInv, UNCHANGED lineVars,
         \A d \in Calls, p \in {"global", "local"} : at'[d] = p <=> at[d] = p
  PROVE  GlobalLineMatches' /\ LocalLinesMatch'
<1>1. GlobalLineMatches'
  BY DEF EInv, GlobalLineMatches, lineVars
<1>2. LocalLinesMatch'
  <2>1. \A e \in Executors : {d \in Local(e) : at'[d] = "local"} = {d \in Local(e) : at[d] = "local"}
    BY DEF Local
  <2> QED BY <2>1 DEF EInv, LocalLinesMatch, lineVars, Local
<1> QED BY <1>1, <1>2

LEMMA OrderUntouched ==
  ASSUME EInv,
         \A d \in Calls : at[d] = "settled" => at'[d] = "settled",
         \A d \in Calls : Underway(d)' => Underway(d)
  PROVE  TurnOrder'
BY DEF EInv, TurnOrder, Before, Local

LEMMA DialogUntouched ==
  ASSUME EInv, UNCHANGED <<asks, shown>>, \A d \in Calls : at'[d] = "asked" <=> at[d] = "asked"
  PROVE  PromptsInTurn'
BY DEF EInv, PromptsInTurn, HeadOr

\* Places from which a call goes on without a queue knowing of it.
Moving == Places \ {"new", "turn", "asked", "global", "local", "settled"}

\* A call moves on, or ends, and no queue changes: nothing is disturbed.
LEMMA MoveKeeps ==
  ASSUME EInv, NEW c \in Calls, at[c] \in Moving,
         NEW q \in Moving \cup {"settled"}, Go(c, q),
         UNCHANGED <<asks, shown, lineVars>>
  PROVE  PromptsInTurn' /\ GlobalLineMatches' /\ LocalLinesMatch' /\ TurnOrder'
<1>1. at \in [Calls -> Places]
  BY DEF EInv, TypeOK
<1>2. at' = [at EXCEPT ![c] = q] /\ at'[c] = q /\ \A d \in Calls \ {c} : at'[d] = at[d]
  BY <1>1 DEF Go
<1>3. \A d \in Calls, p \in {"asked", "global", "local"} : at'[d] = p <=> at[d] = p
  BY <1>1, <1>2 DEF Moving
<1>4. PromptsInTurn'
  BY <1>3, DialogUntouched
<1>5. GlobalLineMatches' /\ LocalLinesMatch'
  BY <1>3, LinesUntouched
<1>6. TurnOrder'
  <2>1. \A d \in Calls : at[d] = "settled" => at'[d] = "settled"
    BY <1>2 DEF Moving
  <2>2. \A d \in Calls : Underway(d)' => Underway(d)
    BY <1>2 DEF Underway, Moving
  <2> QED BY <2>1, <2>2, OrderUntouched
<1> QED BY <1>4, <1>5, <1>6

\* The steps between two waits at which no queue is involved.
Quiet(c) ==
  \/ Send(c) \/ PreToolUse(c) \/ Check(c) \/ Classify(c) \/ Follow(c)
  \/ ApproveUnasked(c) \/ AskNobody(c) \/ PostToolUse(c)

LEMMA QuietKeeps ==
  ASSUME EInv, NEW c \in Calls, Quiet(c)
  PROVE  EInv'
<1> USE DEF Moving, Places, Settle, permVars, uiVars, lineVars
<1>1. TypeOK /\ Facts[c] \in CallFacts
  BY FactsAssumption DEF EInv
<1>2. /\ at[c] \in Moving
      /\ \E q \in Moving \cup {"settled"} : Go(c, q)
  <2>1. CASE Send(c)
    BY <2>1 DEF Send
  <2>2. CASE PreToolUse(c)
    BY <2>2 DEF PreToolUse
  <2>3. CASE Check(c)
    BY <2>3 DEF Check
  <2>4. CASE Classify(c)
    BY <2>4 DEF Classify
  <2>5. CASE Follow(c)
    BY <2>5 DEF Follow
  <2>6. CASE ApproveUnasked(c)
    BY <2>6 DEF ApproveUnasked
  <2>7. CASE AskNobody(c)
    BY <2>7 DEF AskNobody
  <2>8. CASE PostToolUse(c)
    BY <2>8 DEF PostToolUse
  <2> QED BY <2>1, <2>2, <2>3, <2>4, <2>5, <2>6, <2>7, <2>8 DEF Quiet
<1>3. UNCHANGED <<asks, shown, rules, registered, mode, autonomous, switches, handler,
                  globalLine, localLine>>
  BY DEF Quiet, Send, PreToolUse, Check, Classify, Follow, ApproveUnasked, AskNobody, PostToolUse
<1>4. Decide(FactsNow(c), mode, Armed) \in {"allow", "ask", "deny", "classify"}
  <2>1. FactsNow(c) \in CallFacts
    BY <1>1 DEF FactsNow, CallFacts
  <2> QED BY <1>1, <2>1, ModesAssumption, DecideType DEF TypeOK
<1>5. verdict' \in [Calls -> {"none", "allow", "ask", "deny", "classify"}]
  <2>0. verdict \in [Calls -> {"none", "allow", "ask", "deny", "classify"}]
    BY <1>1 DEF TypeOK
  <2>1. CASE Check(c)
    BY <2>0, <1>4, <2>1 DEF Check
  <2>2. CASE Classify(c)
    BY <2>0, <2>2 DEF Classify
  <2>3. CASE Follow(c)
    BY <2>0, <2>3 DEF Follow
  <2>4. CASE UNCHANGED verdict
    BY <2>0, <2>4
  <2> QED BY <2>1, <2>2, <2>3, <2>4
       DEF Quiet, Send, PreToolUse, ApproveUnasked, AskNobody, PostToolUse
<1>6. PICK q \in Moving \cup {"settled"} : Go(c, q)
  BY <1>2
<1>7. TypeOK'
  <2>1. at' \in [Calls -> Places]
    BY <1>1, <1>6 DEF TypeOK, Go
  <2> QED BY <1>1, <1>3, <1>5, <2>1 DEF TypeOK
<1>8. PromptsInTurn' /\ GlobalLineMatches' /\ LocalLinesMatch' /\ TurnOrder'
  BY <1>2, <1>3, <1>6, MoveKeeps
<1> QED BY <1>7, <1>8 DEF EInv
\* The batch loop: safe calls begin together, the others after them.
LEMMA BatchKeeps ==
  ASSUME EInv, NEW e \in Executors, BeginBatch(e)
  PROVE  EInv'
<1>1. at \in [Calls -> Places]
  BY DEF EInv, TypeOK
<1>2. \A d \in Calls : at'[d] = IF d \notin Local(e) THEN at[d]
                                 ELSE IF Unknown(d) THEN "settled"
                                 ELSE IF d \in Safe THEN "sent" ELSE "turn"
  BY DEF BeginBatch
<1>3. \A d \in Local(e) : at[d] = "new" /\ at'[d] \in {"settled", "sent", "turn"}
  BY <1>2 DEF BeginBatch, Local
<1>4. TypeOK'
  <2>1. at' \in [Calls -> Places]
    BY <1>1 DEF BeginBatch, Places
  <2> QED BY <2>1 DEF EInv, TypeOK, BeginBatch, uiVars, permVars, lineVars
<1>5. PromptsInTurn'
  BY <1>2, <1>3, DialogUntouched DEF BeginBatch, permVars
<1>6. GlobalLineMatches' /\ LocalLinesMatch'
  BY <1>2, <1>3, LinesUntouched DEF BeginBatch
<1>7. TurnOrder'
  <2> SUFFICES ASSUME NEW c \in Calls \ Safe, Underway(c)', NEW d \in Before(c)
               PROVE  at'[d] = "settled"
    BY DEF TurnOrder, Before, Local
  <2>1. c \notin Local(e)
    BY <1>2 DEF Underway
  <2>2. d \in Calls /\ d \notin Local(e)
    BY <2>1 DEF Before, Local
  <2>3. at'[c] = at[c] /\ at'[d] = at[d]
    BY <1>2, <2>1, <2>2
  <2> QED BY <2>3 DEF EInv, TurnOrder, Underway
<1> QED BY <1>4, <1>5, <1>6, <1>7 DEF EInv

LEMMA TurnKeeps ==
  ASSUME EInv, NEW c \in Calls, TakeTurn(c)
  PROVE  EInv'
<1>1. at \in [Calls -> Places]
  BY DEF EInv, TypeOK
<1>2. at[c] = "turn" /\ at'[c] = "sent" /\ \A d \in Calls \ {c} : at'[d] = at[d]
  BY <1>1 DEF TakeTurn, Go
<1>3. TypeOK'
  <2>1. at' \in [Calls -> Places]
    BY <1>1 DEF TakeTurn, Go, Places
  <2> QED BY <2>1 DEF EInv, TypeOK, TakeTurn, uiVars, permVars, lineVars
<1>4. PromptsInTurn'
  BY <1>2, DialogUntouched DEF TakeTurn, permVars
<1>5. GlobalLineMatches' /\ LocalLinesMatch'
  BY <1>2, LinesUntouched DEF TakeTurn
<1>6. TurnOrder'
  <2> SUFFICES ASSUME NEW f \in Calls \ Safe, Underway(f)', NEW d \in Before(f)
               PROVE  at'[d] = "settled"
    BY DEF TurnOrder, Before, Local
  <2>1. d \in Calls
    BY DEF Before, Local
  <2>2. at[d] = "settled"
    <3>1. CASE f = c
      BY <3>1 DEF TakeTurn
    <3>2. CASE f # c
      BY <1>2, <3>2 DEF EInv, TurnOrder, Underway
    <3> QED BY <3>1, <3>2
  <2> QED BY <1>2, <2>1, <2>2
<1> QED BY <1>3, <1>4, <1>5, <1>6 DEF EInv
-----------------------------------------------------------------------------
(* The dialog *)

LEMMA AskKeeps ==
  ASSUME EInv, NEW c \in Calls, Ask(c)
  PROVE  EInv'
<1>1. /\ at \in [Calls -> Places] /\ asks \in Seq(Calls) /\ Distinct(asks)
      /\ ToSet(asks) = {d \in Calls : at[d] = "asked"} /\ shown = HeadOr(asks)
  BY DEF EInv, TypeOK, PromptsInTurn, Distinct
<1>2. at[c] = "preview" /\ at'[c] = "asked" /\ \A d \in Calls \ {c} : at'[d] = at[d]
  BY <1>1 DEF Ask, Go
<1>3. asks' = Append(asks, c) /\ c \notin ToSet(asks)
  BY <1>1, <1>2 DEF Ask
<1>4. /\ asks' \in Seq(Calls)
      /\ ToSet(asks') = ToSet(asks) \cup {c}
      /\ Distinct(asks')
      /\ asks' # <<>>
  BY <1>1, <1>3, PushProperties
<1>5. shown' = HeadOr(asks')
  <2>1. CASE asks = <<>>
    <3>1. asks' = <<c>> /\ shown = NoCall
      BY <1>1, <1>3, <2>1 DEF HeadOr
    <3> QED BY <3>1 DEF Ask, HeadOr
  <2>2. CASE asks # <<>>
    <3>1. Head(asks) \in Calls /\ shown = Head(asks)
      BY <1>1, <2>2 DEF HeadOr
    <3>2. Head(asks') = Head(asks)
      BY <1>1, <1>3, <2>2
    <3>3. shown' = Head(asks)
      BY <3>1 DEF Ask
    <3> QED BY <1>4, <3>2, <3>3 DEF HeadOr
  <2> QED BY <2>1, <2>2
<1>6. PromptsInTurn'
  <2>1. ToSet(asks') = {d \in Calls : at'[d] = "asked"}
    BY <1>1, <1>2, <1>4
  <2> QED BY <1>4, <1>5, <2>1 DEF PromptsInTurn, Distinct
<1>7. TypeOK'
  <2>1. at' \in [Calls -> Places]
    BY <1>1 DEF Ask, Go, Places
  <2>2. shown' \in Calls \cup {NoCall}
    BY DEF EInv, TypeOK, Ask
  <2> QED BY <1>4, <2>1, <2>2 DEF EInv, TypeOK, Ask, uiVars, lineVars
<1>8. GlobalLineMatches' /\ LocalLinesMatch'
  BY <1>2, LinesUntouched DEF Ask
<1>9. TurnOrder'
  BY <1>2, OrderUntouched DEF Underway
<1> QED BY <1>6, <1>7, <1>8, <1>9 DEF EInv

\* The head of a queue of calls, or no call.
LEMMA HeadOrType ==
  ASSUME NEW s \in Seq(Calls)
  PROVE  /\ HeadOr(s) \in Calls \cup {NoCall}
         /\ s = <<>> <=> HeadOr(s) = NoCall
         /\ s # <<>> => HeadOr(s) = Head(s)
<1>1. s # <<>> => Head(s) \in Calls
  OBVIOUS
<1> QED BY <1>1 DEF HeadOr

LEMMA AnswerKeeps ==
  ASSUME EInv, NEW c \in Calls, NEW decision, Answer(c, decision)
  PROVE  EInv'
<1>1. /\ at \in [Calls -> Places] /\ asks \in Seq(Calls) /\ Distinct(asks)
      /\ ToSet(asks) = {d \in Calls : at[d] = "asked"}
  BY DEF EInv, TypeOK, PromptsInTurn, Distinct
<1>2. /\ at[c] = "asked" /\ at'[c] \in {"settled", "cleared"}
      /\ \A d \in Calls \ {c} : at'[d] = at[d]
  BY <1>1 DEF Answer, Go, Settle
<1>3. PICK i \in 1..Len(asks) : asks[i] = c /\ asks' = RemoveAt(asks, i)
  BY DEF Answer
<1>4. asks' \in Seq(Calls) /\ ToSet(asks') = ToSet(asks) \ {c} /\ Distinct(asks')
  BY <1>1, <1>3, SpliceProperties
<1>5. shown' = HeadOr(asks') /\ shown' \in Calls \cup {NoCall}
  BY <1>4, HeadOrType DEF Answer
<1>6. PromptsInTurn'
  <2>1. ToSet(asks') = {d \in Calls : at'[d] = "asked"}
    BY <1>1, <1>2, <1>4
  <2> QED BY <1>4, <1>5, <2>1 DEF PromptsInTurn, Distinct
<1>7. TypeOK'
  <2>1. at' \in [Calls -> Places]
    BY <1>1 DEF Answer, Go, Settle, Places
  <2> QED BY <1>4, <1>5, <2>1 DEF EInv, TypeOK, Answer, uiVars, lineVars
<1>8. GlobalLineMatches' /\ LocalLinesMatch'
  BY <1>2, LinesUntouched DEF Answer
<1>9. TurnOrder'
  BY <1>2, OrderUntouched DEF Underway
<1> QED BY <1>6, <1>7, <1>8, <1>9 DEF EInv

LEMMA DetachKeeps ==
  ASSUME EInv, DetachHandler
  PROVE  EInv'
<1>1. /\ at \in [Calls -> Places] /\ asks \in Seq(Calls)
      /\ ToSet(asks) = {d \in Calls : at[d] = "asked"}
  BY DEF EInv, TypeOK, PromptsInTurn
<1>2. \A d \in Calls : at'[d] = IF at[d] = "asked" THEN "settled" ELSE at[d]
  BY <1>1 DEF DetachHandler
<1>3. asks' \in Seq(Calls) /\ Len(asks') = 0 /\ asks' = <<>>
  BY DEF DetachHandler
<1>4. PromptsInTurn'
  <2>1. ToSet(asks') = {}
    BY <1>3, ToSetIndexed
  <2>2. {d \in Calls : at'[d] = "asked"} = {}
    BY <1>2
  <2>3. shown' = HeadOr(asks')
    BY <1>3 DEF DetachHandler, HeadOr
  <2> QED BY <1>3, <2>1, <2>2, <2>3 DEF PromptsInTurn
<1>5. TypeOK'
  <2>1. at' \in [Calls -> Places]
    BY <1>1 DEF DetachHandler, Places
  <2> QED BY <1>3, <2>1 DEF EInv, TypeOK, DetachHandler, lineVars
<1>6. GlobalLineMatches' /\ LocalLinesMatch'
  BY <1>2, LinesUntouched DEF DetachHandler
<1>7. TurnOrder'
  BY <1>2, OrderUntouched DEF Underway
<1> QED BY <1>4, <1>5, <1>6, <1>7 DEF EInv

LEMMA AroundKeeps ==
  ASSUME EInv,
         \/ \E m \in {"default", "plan", "auto"} : SwitchMode(m)
         \/ \E t \in LateTools : Register(t)
         \/ UNCHANGED vars
  PROVE  EInv'
<1>1. UNCHANGED <<at, asks, shown, lineVars>>
  BY DEF SwitchMode, Register, vars, permVars
<1>2. TypeOK'
  <2>0. TypeOK
    BY DEF EInv
  <2>1. CASE \E m \in {"default", "plan", "auto"} : SwitchMode(m)
    <3>1. switches' \in 0..MaxSwitches
      BY <2>0, <2>1, ModesAssumption DEF SwitchMode, TypeOK
    <3>2. mode' \in PermissionModes /\ autonomous' \in BOOLEAN
      BY <2>1 DEF SwitchMode, PermissionModes
    <3> QED BY <2>0, <2>1, <3>1, <3>2 DEF SwitchMode, TypeOK, permVars, lineVars
  <2>2. CASE \E t \in LateTools : Register(t)
    BY <2>0, <2>2 DEF Register, TypeOK, uiVars, permVars, lineVars
  <2>3. CASE UNCHANGED vars
    BY <2>0, <2>3 DEF vars, TypeOK, uiVars, permVars, lineVars
  <2> QED BY <2>1, <2>2, <2>3
<1>3. PromptsInTurn'
  BY <1>1, DialogUntouched
<1>4. GlobalLineMatches' /\ LocalLinesMatch'
  BY <1>1, LinesUntouched
<1>5. TurnOrder'
  BY <1>1, OrderUntouched DEF Underway
<1> QED BY <1>2, <1>3, <1>4, <1>5 DEF EInv
-----------------------------------------------------------------------------
(* The permits *)

LEMMA ClearKeeps ==
  ASSUME EInv, NEW c \in Calls, Clear(c)
  PROVE  EInv'
<1>1. /\ at \in [Calls -> Places] /\ globalLine \in Seq(OsCalls) /\ Distinct(globalLine)
      /\ ToSet(globalLine) = {d \in Calls : at[d] = "global"} /\ at[c] = "cleared"
  BY DEF EInv, TypeOK, GlobalLineMatches, Clear
<1>2. CASE c \in OsCalls /\ Go(c, "global") /\ globalLine' = Append(globalLine, c)
  <2>1. at'[c] = "global" /\ \A d \in Calls \ {c} : at'[d] = at[d]
    BY <1>1, <1>2 DEF Go
  <2>2. c \notin ToSet(globalLine)
    BY <1>1
  <2>3. /\ globalLine' \in Seq(OsCalls) /\ Distinct(globalLine')
        /\ ToSet(globalLine') = ToSet(globalLine) \cup {c}
    BY <1>1, <1>2, <2>2, PushProperties
  <2>4. TypeOK'
    <3>1. at' \in [Calls -> Places]
      BY <1>1, <1>2 DEF Go, Places
    <3> QED BY <2>3, <3>1 DEF EInv, TypeOK, Clear, uiVars, permVars
  <2>5. PromptsInTurn'
    BY <1>1, <2>1, DialogUntouched DEF Clear, permVars
  <2>6. GlobalLineMatches'
    BY <1>1, <2>1, <2>3 DEF GlobalLineMatches
  <2>7. LocalLinesMatch'
    <3>1. \A d \in Calls : at'[d] = "local" <=> at[d] = "local"
      BY <1>1, <2>1
    <3>2. \A e \in Executors : {d \in Local(e) : at'[d] = "local"} = {d \in Local(e) : at[d] = "local"}
      BY <3>1 DEF Local
    <3> QED BY <3>2 DEF EInv, LocalLinesMatch, Clear, Local
  <2>8. TurnOrder'
    BY <1>1, <2>1, OrderUntouched DEF Underway
  <2> QED BY <2>4, <2>5, <2>6, <2>7, <2>8 DEF EInv
<1>3. CASE UNCHANGED globalLine /\ (Go(c, "gate") \/ Go(c, "settled"))
  <2>1. at[c] \in Moving /\ "gate" \in Moving
    BY <1>1 DEF Moving, Places
  <2>2. UNCHANGED <<asks, shown, lineVars>>
    BY <1>3 DEF Clear, permVars, lineVars
  <2>3. PromptsInTurn' /\ GlobalLineMatches' /\ LocalLinesMatch' /\ TurnOrder'
    BY <1>3, <2>1, <2>2, MoveKeeps
  <2>4. at' \in [Calls -> Places]
    BY <1>1, <1>3 DEF Go, Places
  <2> QED BY <1>3, <2>3, <2>4 DEF EInv, TypeOK, Clear, uiVars, permVars
<1> QED BY <1>2, <1>3 DEF Clear, Settle

LEMMA EnterLocalKeeps ==
  ASSUME EInv, NEW c \in Calls, EnterLocal(c)
  PROVE  EInv'
<1>0. PICK e \in Executors : e = ExecutorOf[c]
  OBVIOUS
<1>1. /\ at \in [Calls -> Places] /\ at[c] = "gate" /\ c \in Local(e)
      /\ localLine \in [Executors -> Seq(Calls)] /\ localLine[e] \in Seq(Local(e))
      /\ Distinct(localLine[e]) /\ ToSet(localLine[e]) = {d \in Local(e) : at[d] = "local"}
  BY <1>0 DEF EInv, TypeOK, LocalLinesMatch, EnterLocal, Local
<1>2. CASE Go(c, "local") /\ localLine' = [localLine EXCEPT ![e] = Append(@, c)]
  <2>1. at'[c] = "local" /\ \A d \in Calls \ {c} : at'[d] = at[d]
    BY <1>1, <1>2 DEF Go
  <2>2. c \notin ToSet(localLine[e])
    BY <1>1
  <2>3. /\ Append(localLine[e], c) \in Seq(Local(e)) /\ Distinct(Append(localLine[e], c))
        /\ ToSet(Append(localLine[e], c)) = ToSet(localLine[e]) \cup {c}
    BY <1>1, <2>2, PushProperties
  <2>4. /\ localLine'[e] = Append(localLine[e], c)
        /\ \A f \in Executors \ {e} : localLine'[f] = localLine[f]
    BY <1>1, <1>2
  <2>5. TypeOK'
    <3>1. at' \in [Calls -> Places]
      BY <1>1, <1>2 DEF Go, Places
    <3>2. Append(localLine[e], c) \in Seq(Calls)
      BY <1>1
    <3>3. localLine' \in [Executors -> Seq(Calls)]
      BY <1>1, <1>2, <3>2
    <3> QED BY <3>1, <3>3 DEF EInv, TypeOK, EnterLocal, uiVars, permVars
  <2>6. PromptsInTurn'
    BY <1>1, <2>1, DialogUntouched DEF EnterLocal, permVars
  <2>7. GlobalLineMatches'
    BY <1>1, <2>1 DEF EInv, GlobalLineMatches, EnterLocal
  <2>8. LocalLinesMatch'
    <3> SUFFICES ASSUME NEW f \in Executors
                 PROVE  /\ localLine'[f] \in Seq(Local(f))
                        /\ Distinct(localLine'[f])
                        /\ ToSet(localLine'[f]) = {d \in Local(f) : at'[d] = "local"}
      BY DEF LocalLinesMatch, Local
    <3>1. CASE f = e
      <4>1. {d \in Local(e) : at'[d] = "local"} = {d \in Local(e) : at[d] = "local"} \cup {c}
        BY <1>1, <2>1 DEF Local
      <4> QED BY <1>1, <2>3, <2>4, <3>1, <4>1
    <3>2. CASE f # e
      <4>1. {d \in Local(f) : at'[d] = "local"} = {d \in Local(f) : at[d] = "local"}
        BY <1>0, <2>1, <3>2 DEF Local
      <4> QED BY <2>4, <3>2, <4>1 DEF EInv, LocalLinesMatch
    <3> QED BY <3>1, <3>2
  <2>9. TurnOrder'
    BY <1>1, <2>1, OrderUntouched DEF Underway
  <2> QED BY <2>5, <2>6, <2>7, <2>8, <2>9 DEF EInv
<1>3. CASE Go(c, "running") /\ UNCHANGED localLine
  <2>1. at[c] \in Moving /\ "running" \in Moving
    BY <1>1 DEF Moving, Places
  <2>2. UNCHANGED <<asks, shown, lineVars>>
    BY <1>3 DEF EnterLocal, permVars, lineVars
  <2>3. PromptsInTurn' /\ GlobalLineMatches' /\ LocalLinesMatch' /\ TurnOrder'
    BY <1>3, <2>1, <2>2, MoveKeeps
  <2>4. at' \in [Calls -> Places]
    BY <1>1, <1>3 DEF Go, Places
  <2> QED BY <1>3, <2>3, <2>4 DEF EInv, TypeOK, EnterLocal, uiVars, permVars
<1> QED BY <1>0, <1>2, <1>3 DEF EnterLocal
\* The front of a line leaves, if there is one.
LEMMA NextInLine ==
  ASSUME NEW S, NoCall \notin S, NEW s \in Seq(S), Distinct(s)
  PROVE  /\ (IF s = <<>> THEN s ELSE Tail(s)) \in Seq(S)
         /\ Distinct(IF s = <<>> THEN s ELSE Tail(s))
         /\ ToSet(IF s = <<>> THEN s ELSE Tail(s)) = ToSet(s) \ {HeadOr(s)}
         /\ HeadOr(s) \in ToSet(s) \cup {NoCall}
         /\ HeadOr(s) = NoCall <=> s = <<>>
<1>1. CASE s = <<>>
  <2>1. ToSet(s) = {} /\ HeadOr(s) = NoCall
    BY <1>1, ToSetIndexed DEF HeadOr
  <2> QED BY <1>1, <2>1
<1>2. CASE s # <<>>
  <2>1. /\ Head(s) \in ToSet(s) /\ Tail(s) \in Seq(S)
        /\ ToSet(Tail(s)) = ToSet(s) \ {Head(s)} /\ Distinct(Tail(s))
    BY <1>2, ShiftProperties
  <2>2. HeadOr(s) = Head(s) /\ Head(s) \in S
    BY <1>2 DEF HeadOr
  <2> QED BY <1>2, <2>1, <2>2
<1> QED BY <1>1, <1>2

\* What happens when a call of executor e gives its permits back: next is first in
\* the line of the executor, heir in that of the process, if they exist.
Handover(c, place, e, next, heir) ==
  /\ e \in Executors /\ c \in Local(e)
  /\ \A d \in Calls : at'[d] = IF d = c THEN place
                               ELSE IF d = next THEN "running"
                               ELSE IF d = heir THEN "gate" ELSE at[d]
  /\ next = NoCall \/ (next \in Local(e) /\ at[next] = "local")
  /\ heir = NoCall \/ (heir \in OsCalls /\ at[heir] = "global")
  /\ localLine'[e] \in Seq(Local(e)) /\ Distinct(localLine'[e])
  /\ ToSet(localLine'[e]) = ToSet(localLine[e]) \ {next}
  /\ \A f \in Executors \ {e} : localLine'[f] = localLine[f]
  /\ globalLine' \in Seq(OsCalls) /\ Distinct(globalLine')
  /\ ToSet(globalLine') = ToSet(globalLine) \ {heir}

LEMMA LeaveEffect ==
  ASSUME EInv, NEW c \in Calls, at[c] = "running", NEW place, Leave(c, place),
         NEW e, e = ExecutorOf[c], NEW next, next = HeadOr(localLine[e]),
         NEW heir, heir = IF c \in OsCalls THEN HeadOr(globalLine) ELSE NoCall
  PROVE  Handover(c, place, e, next, heir)
<1>1. /\ at \in [Calls -> Places] /\ e \in Executors /\ c \in Local(e)
      /\ localLine \in [Executors -> Seq(Calls)]
      /\ localLine[e] \in Seq(Local(e)) /\ Distinct(localLine[e])
      /\ ToSet(localLine[e]) = {d \in Local(e) : at[d] = "local"}
      /\ NoCall \notin Local(e)
  <2>1. e \in Executors /\ c \in Local(e) /\ NoCall \notin Local(e)
    BY DEF Local
  <2> QED BY <2>1 DEF EInv, TypeOK, LocalLinesMatch
<1>2. /\ globalLine \in Seq(OsCalls) /\ Distinct(globalLine)
      /\ ToSet(globalLine) = {d \in Calls : at[d] = "global"}
      /\ NoCall \notin OsCalls
  BY DEF EInv, TypeOK, GlobalLineMatches
<1>3. PICK rest : rest = IF localLine[e] = <<>> THEN localLine[e] ELSE Tail(localLine[e])
  OBVIOUS
<1>4. /\ rest \in Seq(Local(e)) /\ Distinct(rest)
      /\ ToSet(rest) = ToSet(localLine[e]) \ {next}
      /\ next \in ToSet(localLine[e]) \cup {NoCall}
  BY <1>1, <1>3, NextInLine
<1>5. /\ localLine' = [localLine EXCEPT ![e] = IF @ = <<>> THEN @ ELSE Tail(@)]
      /\ localLine'[e] = rest /\ \A f \in Executors \ {e} : localLine'[f] = localLine[f]
  BY <1>1, <1>3 DEF Leave
<1>6. \A d \in Calls : at'[d] = IF d = c THEN place
                                ELSE IF d = next THEN "running"
                                ELSE IF d = heir THEN "gate" ELSE at[d]
  BY DEF Leave
<1>7. globalLine' = IF heir = NoCall THEN globalLine ELSE Tail(globalLine)
  BY DEF Leave
<1>8. /\ ToSet(globalLine) \subseteq OsCalls
      /\ HeadOr(globalLine) \in ToSet(globalLine) \cup {NoCall}
      /\ HeadOr(globalLine) = NoCall <=> globalLine = <<>>
  BY <1>2, NextInLine, ToSetIndexed
<1>9. heir = NoCall \/ (heir \in OsCalls /\ at[heir] = "global")
  BY <1>2, <1>8
<1>10. /\ globalLine' \in Seq(OsCalls) /\ Distinct(globalLine')
       /\ ToSet(globalLine') = ToSet(globalLine) \ {heir}
  <2>1. CASE heir = NoCall
    <3>1. NoCall \notin ToSet(globalLine)
      BY <1>2, <1>8
    <3> QED BY <1>2, <1>7, <2>1, <3>1
  <2>2. CASE heir # NoCall
    <3>1. heir = HeadOr(globalLine) /\ globalLine # <<>>
      BY <1>8, <2>2
    <3>2. heir = Head(globalLine)
      BY <3>1 DEF HeadOr
    <3>3. globalLine' = Tail(globalLine)
      BY <1>7, <2>2
    <3> QED BY <1>2, <3>1, <3>2, <3>3, ShiftProperties
  <2> QED BY <2>1, <2>2
<1> QED BY <1>1, <1>4, <1>5, <1>6, <1>9, <1>10 DEF Handover

LEMMA LeaveKeeps ==
  ASSUME EInv, NEW c \in Calls, at[c] = "running", NEW place \in {"post", "settled"},
         Leave(c, place), UNCHANGED <<verdict, registered, uiVars, permVars>>
  PROVE  EInv'
<1>1. PICK e, next, heir :
        /\ e = ExecutorOf[c] /\ next = HeadOr(localLine[e])
        /\ heir = IF c \in OsCalls THEN HeadOr(globalLine) ELSE NoCall
  OBVIOUS
<1>2. Handover(c, place, e, next, heir)
  BY <1>1, LeaveEffect
<1>3. /\ e \in Executors /\ c \in Local(e)
      /\ \A d \in Calls : at'[d] = IF d = c THEN place
                                   ELSE IF d = next THEN "running"
                                   ELSE IF d = heir THEN "gate" ELSE at[d]
      /\ next = NoCall \/ (next \in Local(e) /\ at[next] = "local")
      /\ heir = NoCall \/ (heir \in OsCalls /\ at[heir] = "global")
  BY <1>2 DEF Handover
<1>4. at \in [Calls -> Places] /\ localLine \in [Executors -> Seq(Calls)]
  BY DEF EInv, TypeOK
<1>5. TypeOK'
  <2>1. at' \in [Calls -> Places]
    BY <1>4 DEF Leave, Places
  <2>2. localLine'[e] \in Seq(Calls)
    BY <1>2 DEF Handover, Local
  <2>3. localLine' \in [Executors -> Seq(Calls)]
    BY <1>1, <1>4, <2>2 DEF Leave
  <2>4. globalLine' \in Seq(OsCalls)
    BY <1>2 DEF Handover
  <2> QED BY <2>1, <2>3, <2>4 DEF EInv, TypeOK, uiVars, permVars
<1>6. PromptsInTurn'
  <2>1. \A d \in Calls : at'[d] = "asked" <=> at[d] = "asked"
    BY <1>3
  <2> QED BY <2>1, DialogUntouched DEF permVars
<1>7. GlobalLineMatches'
  <2>1. \A d \in Calls : at'[d] = "global" <=> at[d] = "global" /\ d # heir
    BY <1>3 DEF Local
  <2>2. ToSet(globalLine) = {d \in Calls : at[d] = "global"}
    BY DEF EInv, GlobalLineMatches
  <2>3. ToSet(globalLine') = {d \in Calls : at'[d] = "global"}
    BY <1>2, <2>1, <2>2 DEF Handover
  <2> QED BY <1>2, <2>3 DEF Handover, GlobalLineMatches
<1>8. LocalLinesMatch'
  <2>1. \A d \in Calls : at'[d] = "local" <=> at[d] = "local" /\ d # next
    BY <1>3
  <2> SUFFICES ASSUME NEW f \in Executors
               PROVE  /\ localLine'[f] \in Seq(Local(f))
                      /\ Distinct(localLine'[f])
                      /\ ToSet(localLine'[f]) = {d \in Local(f) : at'[d] = "local"}
    BY DEF LocalLinesMatch, Local
  <2>2. CASE f = e
    <3>1. ToSet(localLine[e]) = {d \in Local(e) : at[d] = "local"}
      BY <1>3 DEF EInv, LocalLinesMatch
    <3>2. ToSet(localLine'[e]) = {d \in Local(e) : at'[d] = "local"}
      BY <1>2, <2>1, <3>1 DEF Handover, Local
    <3> QED BY <1>2, <2>2, <3>2 DEF Handover
  <2>3. CASE f # e
    <3>1. \A d \in Local(f) : d # next
      BY <1>3, <2>3 DEF Local
    <3>2. {d \in Local(f) : at'[d] = "local"} = {d \in Local(f) : at[d] = "local"}
      BY <2>1, <3>1 DEF Local
    <3> QED BY <1>2, <2>3, <3>2 DEF Handover, EInv, LocalLinesMatch
  <2> QED BY <2>2, <2>3
<1>9. TurnOrder'
  <2>1. \A d \in Calls : at[d] = "settled" => at'[d] = "settled"
    BY <1>3 DEF Local
  <2>2. \A d \in Calls : Underway(d)' => Underway(d)
    BY <1>3 DEF Underway, Local
  <2> QED BY <2>1, <2>2, OrderUntouched
<1> QED BY <1>5, <1>6, <1>7, <1>8, <1>9 DEF EInv

-----------------------------------------------------------------------------
LEMMA StepPreserves ==
  ASSUME EInv, [Next]_vars
  PROVE  EInv'
<1>1. ASSUME NEW c \in Calls, Advance(c)
      PROVE  EInv'
  <2>1. CASE TakeTurn(c)
    BY <2>1, TurnKeeps
  <2>2. CASE Quiet(c)
    BY <2>2, QuietKeeps
  <2>3. CASE Ask(c)
    BY <2>3, AskKeeps
  <2>4. CASE \E d \in Decisions : Answer(c, d)
    BY <2>4, AnswerKeeps
  <2>5. CASE Clear(c)
    BY <2>5, ClearKeeps
  <2>6. CASE EnterLocal(c)
    BY <2>6, EnterLocalKeeps
  <2>7. CASE Finish(c)
    BY <2>7, LeaveKeeps DEF Finish
  <2>8. CASE TimeOut(c)
    BY <2>8, LeaveKeeps DEF TimeOut
  <2> QED BY <1>1, <2>1, <2>2, <2>3, <2>4, <2>5, <2>6, <2>7, <2>8 DEF Advance, Quiet
<1>2. ASSUME NEW e \in Executors, BeginBatch(e)
      PROVE  EInv'
  BY <1>2, BatchKeeps
<1>3. CASE DetachHandler
  BY <1>3, DetachKeeps
<1> QED BY <1>1, <1>2, <1>3, AroundKeeps DEF Next

\* The executor's inductive invariant holds throughout (toolExecutor.ts:341-826).
THEOREM ExecutorInvariant == Spec => []EInv
<1> QED BY InitEstablishes, StepPreserves, PTL DEF Spec

\* The state always has its types (toolExecutor.ts:240-336).
THEOREM ExecutorTypeCorrect == Spec => []TypeOK
<1>1. EInv => TypeOK
  BY DEF EInv
<1> QED BY <1>1, ExecutorInvariant, PTL

\* However many calls ask at once, the dialog shows the oldest request that is
\* left, and no request is lost or queued twice (AppRoot.tsx:377-437).
THEOREM DialogServesInTurn == Spec => []PromptsInTurn
<1>1. EInv => PromptsInTurn
  BY DEF EInv
<1> QED BY <1>1, ExecutorInvariant, PTL

\* A call that is not safe beside others never overlaps with another call of its
\* batch (executeParallel, toolExecutor.ts:781-826).
THEOREM UnsafeRunsAlone == Spec => []LoneUnlessSafe
<1>1. EInv => LoneUnlessSafe
  <2> SUFFICES ASSUME EInv, NEW c \in Calls, NEW d \in Calls, ExecutorOf[c] = ExecutorOf[d],
                      c # d, c \notin Safe, Underway(c), Underway(d)
               PROVE  FALSE
    BY DEF LoneUnlessSafe
  <2>1. d \in Safe \/ Position[d] < Position[c] \/ Position[c] < Position[d]
    <3>1. Position[c] \in Nat /\ Position[d] \in Nat /\ Position[c] # Position[d]
      OBVIOUS
    <3> QED BY <3>1
  <2>2. CASE d \in Before(c)
    BY <2>2 DEF EInv, TurnOrder, Underway
  <2>3. CASE d \notin Safe /\ c \in Before(d)
    BY <2>3 DEF EInv, TurnOrder, Underway
  <2> QED BY <2>1, <2>2, <2>3 DEF Before, Local
<1> QED BY <1>1, ExecutorInvariant, PTL

-----------------------------------------------------------------------------
(* The pools *)

\* The operators of the instances are those of this module.
LEMMA SameOperators ==
  /\ \A S : GlobalPool!Cardinality(S) = Cardinality(S) /\ LocalPool!Cardinality(S) = Cardinality(S)
  /\ \A q : GlobalPool!ToSet(q) = ToSet(q) /\ LocalPool!ToSet(q) = ToSet(q)
<1>1. \A S : GlobalPool!Cardinality(S) = Cardinality(S)
  BY DEF GlobalPool!Cardinality, Cardinality
<1>2. \A S : LocalPool!Cardinality(S) = Cardinality(S)
  BY DEF LocalPool!Cardinality, Cardinality
<1>3. \A q : GlobalPool!ToSet(q) = ToSet(q)
  BY DEF GlobalPool!ToSet, ToSet
<1>4. \A q : LocalPool!ToSet(q) = ToSet(q)
  BY DEF LocalPool!ToSet, ToSet
<1> QED BY <1>1, <1>2, <1>3, <1>4

\* One returned permit: the front of a line, if any, and the rest of it.
LEMMA FrontAndRest ==
  ASSUME NEW S, NoCall \notin S, NEW s \in Seq(S)
  PROVE  /\ {s[i] : i \in (1..1) \cap (1..Len(s))} = {HeadOr(s)} \ {NoCall}
         /\ SubSeq(s, 2, Len(s)) = IF s = <<>> THEN s ELSE Tail(s)
<1>1. CASE s = <<>>
  <2>1. Len(s) = 0 /\ SubSeq(s, 2, 0) = <<>> /\ HeadOr(s) = NoCall
    BY <1>1, SubSeqEmpty DEF HeadOr
  <2> QED BY <1>1, <2>1
<1>2. CASE s # <<>>
  <2>1. /\ Head(s) = s[1] /\ Tail(s) = SubSeq(s, 2, Len(s)) /\ 1 \in 1..Len(s)
        /\ Head(s) \in S
    BY <1>2, TailIsSubSeq
  <2>2. HeadOr(s) = s[1] /\ s[1] # NoCall
    BY <1>2, <2>1 DEF HeadOr
  <2>3. (1..1) \cap (1..Len(s)) = {1}
    BY <2>1
  <2> QED BY <1>2, <2>1, <2>2, <2>3
<1> QED BY <1>1, <1>2
\* Steps that neither take nor return a permit leave both pools alone.
LEMMA PoolsUntouched ==
  ASSUME EInv,
         \/ \E c \in Calls : Quiet(c) \/ TakeTurn(c) \/ Ask(c) \/ \E d \in Decisions : Answer(c, d)
         \/ \E e \in Executors : BeginBatch(e)
         \/ \E m \in {"default", "plan", "auto"} : SwitchMode(m)
         \/ \E t \in LateTools : Register(t)
         \/ DetachHandler
         \/ UNCHANGED vars
  PROVE  UNCHANGED <<GlobalHolders, LocalHolders(Watched), globalLine, localLine>>
<1>1. at \in [Calls -> Places] /\ ToSet(asks) = {d \in Calls : at[d] = "asked"}
  BY DEF EInv, TypeOK, PromptsInTurn
<1>2. UNCHANGED <<globalLine, localLine>>
  BY DEF Quiet, Send, PreToolUse, Check, Classify, Follow, ApproveUnasked, AskNobody, PostToolUse,
         TakeTurn, Ask, Answer, BeginBatch, SwitchMode, Register, DetachHandler, vars, lineVars
<1>3. \A d \in Calls, p \in {"gate", "local", "running"} : at'[d] = p <=> at[d] = p
  <2>1. ASSUME NEW c \in Calls, Quiet(c) \/ TakeTurn(c) \/ Ask(c)
        PROVE  \A d \in Calls, p \in {"gate", "local", "running"} : at'[d] = p <=> at[d] = p
    <3>1. PICK q \in Places : at' = [at EXCEPT ![c] = q] /\ q \notin {"gate", "local", "running"}
      BY <2>1 DEF Quiet, Send, PreToolUse, Check, Classify, Follow, ApproveUnasked, AskNobody,
                  PostToolUse, TakeTurn, Ask, Settle, Go, Places
    <3>2. at[c] \notin {"gate", "local", "running"}
      BY <2>1 DEF Quiet, Send, PreToolUse, Check, Classify, Follow, ApproveUnasked, AskNobody,
                  PostToolUse, TakeTurn, Ask
    <3> QED BY <1>1, <3>1, <3>2
  <2>2. ASSUME NEW c \in Calls, NEW d \in Decisions, Answer(c, d)
        PROVE  \A f \in Calls, p \in {"gate", "local", "running"} : at'[f] = p <=> at[f] = p
    BY <1>1, <2>2 DEF Answer, Go, Settle
  <2>3. ASSUME NEW e \in Executors, BeginBatch(e)
        PROVE  \A d \in Calls, p \in {"gate", "local", "running"} : at'[d] = p <=> at[d] = p
    BY <1>1, <2>3 DEF BeginBatch
  <2>4. CASE DetachHandler
    BY <1>1, <2>4 DEF DetachHandler
  <2>5. CASE UNCHANGED at
    BY <2>5
  <2> QED BY <2>1, <2>2, <2>3, <2>4, <2>5 DEF SwitchMode, Register, vars
<1>4. GlobalHolders' = GlobalHolders
  <2>1. \A d \in OsCalls : at'[d] \in {"gate", "local", "running"} <=> at[d] \in {"gate", "local", "running"}
    BY <1>3
  <2> QED BY <2>1 DEF GlobalHolders
<1>5. LocalHolders(Watched)' = LocalHolders(Watched)
  BY <1>3 DEF LocalHolders, Local
<1> QED BY <1>2, <1>4, <1>5

\* Finitely many calls: the holders can be counted.
LEMMA HoldersFinite ==
  /\ Cardinality(GlobalHolders) \in Nat
  /\ \A e : Cardinality(LocalHolders(e)) \in Nat
<1>1. GlobalHolders \subseteq Calls /\ \A e : LocalHolders(e) \subseteq Calls
  BY DEF GlobalHolders, LocalHolders, Local
<1>2. \A S : S \subseteq Calls => IsFiniteSet(S) /\ Cardinality(S) \in Nat
  BY FS_Subset, FS_CardinalityType
<1> QED BY <1>1, <1>2

LEMMA ClearIsPoolStep ==
  ASSUME EInv, NEW c \in Calls, Clear(c)
  PROVE  [GlobalPool!Next]_(GlobalPool!poolVars) /\ [LocalPool!Next]_(LocalPool!poolVars)
<1>1. /\ at \in [Calls -> Places] /\ at[c] = "cleared"
      /\ ToSet(globalLine) = {d \in Calls : at[d] = "global"} /\ UNCHANGED localLine
  BY DEF EInv, TypeOK, GlobalLineMatches, Clear
<1>2. PICK q \in {"settled", "global", "gate"} : at' = [at EXCEPT ![c] = q]
  BY DEF Clear, Go, Settle
<1>3. at'[c] = q /\ \A d \in Calls \ {c} : at'[d] = at[d]
  BY <1>1, <1>2
<1>4. LocalHolders(Watched)' = LocalHolders(Watched)
  BY <1>1, <1>3 DEF LocalHolders, Local
<1>5. GlobalHolders' = IF q = "gate" /\ c \in OsCalls THEN GlobalHolders \cup {c} ELSE GlobalHolders
  BY <1>1, <1>3 DEF GlobalHolders
<1>6. c \notin GlobalHolders \cup ToSet(globalLine)
  BY <1>1 DEF GlobalHolders
<1>7. CASE q = "settled" \/ (q = "gate" /\ c \notin OsCalls)
  <2>1. UNCHANGED globalLine
    BY <1>1, <1>3, <1>7 DEF Clear, Go, Settle
  <2> QED BY <1>1, <1>4, <1>5, <1>7, <2>1 DEF GlobalPool!poolVars, LocalPool!poolVars
<1>8. CASE q = "global"
  <2>1. c \in OsCalls /\ Cardinality(GlobalHolders) >= GlobalMax /\ globalLine' = Append(globalLine, c)
    BY <1>1, <1>3, <1>8 DEF Clear, Go, Settle
  <2>2. GlobalPool!Join(c)
    BY <1>5, <1>6, <1>8, <2>1, SameOperators DEF GlobalPool!Join
  <2> QED BY <1>1, <1>4, <2>1, <2>2 DEF GlobalPool!Next, LocalPool!poolVars
<1>9. CASE q = "gate" /\ c \in OsCalls
  <2>1. ~(Cardinality(GlobalHolders) >= GlobalMax) /\ UNCHANGED globalLine
    BY <1>1, <1>3, <1>9 DEF Clear, Go, Settle
  <2>2. Cardinality(GlobalHolders) < GlobalMax
    BY <2>1, HoldersFinite, LimitsAssumption
  <2>3. GlobalPool!Take(c)
    BY <1>5, <1>6, <1>9, <2>1, <2>2, SameOperators DEF GlobalPool!Take
  <2> QED BY <1>1, <1>4, <1>9, <2>3 DEF GlobalPool!Next, LocalPool!poolVars
<1> QED BY <1>7, <1>8, <1>9
LEMMA EnterLocalIsPoolStep ==
  ASSUME EInv, NEW c \in Calls, EnterLocal(c)
  PROVE  [GlobalPool!Next]_(GlobalPool!poolVars) /\ [LocalPool!Next]_(LocalPool!poolVars)
<1>1. /\ at \in [Calls -> Places] /\ at[c] = "gate" /\ UNCHANGED globalLine
      /\ localLine \in [Executors -> Seq(Calls)] /\ ExecutorOf[c] \in Executors
  BY DEF EInv, TypeOK, EnterLocal
<1>2. PICK q \in {"local", "running"} : at' = [at EXCEPT ![c] = q]
  BY DEF EnterLocal, Go
<1>3. at'[c] = q /\ \A d \in Calls \ {c} : at'[d] = at[d]
  BY <1>1, <1>2
<1>4. GlobalHolders' = GlobalHolders
  BY <1>1, <1>3 DEF GlobalHolders
<1>5. CASE c \notin Local(Watched)
  <2>1. LocalHolders(Watched)' = LocalHolders(Watched)
    BY <1>3, <1>5 DEF LocalHolders, Local
  <2>2. localLine'[Watched] = localLine[Watched]
    BY <1>1, <1>5, WatchedAssumption DEF EnterLocal, Local
  <2> QED BY <1>1, <1>4, <2>1, <2>2 DEF GlobalPool!poolVars, LocalPool!poolVars
<1>6. CASE c \in Local(Watched)
  <2>1. ExecutorOf[c] = Watched
    BY <1>6 DEF Local
  <2>2. ToSet(localLine[Watched]) = {d \in Local(Watched) : at[d] = "local"}
    BY WatchedAssumption DEF EInv, LocalLinesMatch
  <2>3. c \notin LocalHolders(Watched) \cup ToSet(localLine[Watched])
    BY <1>1, <2>2 DEF LocalHolders
  <2>4. LocalHolders(Watched)' = IF q = "running" THEN LocalHolders(Watched) \cup {c}
                                 ELSE LocalHolders(Watched)
    BY <1>1, <1>3, <1>6 DEF LocalHolders, Local
  <2>5. CASE Cardinality(LocalHolders(Watched)) >= LocalMax
    <3>1. q = "local" /\ localLine'[Watched] = Append(localLine[Watched], c)
      BY <1>1, <1>3, <2>1, <2>5, WatchedAssumption DEF EnterLocal, Go
    <3>2. LocalPool!Join(c)
      BY <2>3, <2>4, <2>5, <3>1, SameOperators DEF LocalPool!Join
    <3> QED BY <1>1, <1>4, <1>6, <3>2 DEF LocalPool!Next, GlobalPool!poolVars
  <2>6. CASE ~(Cardinality(LocalHolders(Watched)) >= LocalMax)
    <3>1. q = "running" /\ UNCHANGED localLine
      BY <1>1, <1>3, <2>1, <2>6 DEF EnterLocal, Go
    <3>2. Cardinality(LocalHolders(Watched)) < LocalMax
      BY <2>6, HoldersFinite, LimitsAssumption
    <3>3. LocalPool!Take(c)
      BY <2>3, <2>4, <3>1, <3>2, SameOperators DEF LocalPool!Take
    <3> QED BY <1>1, <1>4, <1>6, <3>3 DEF LocalPool!Next, GlobalPool!poolVars
  <2> QED BY <2>5, <2>6
<1> QED BY <1>5, <1>6

\* Returned permits go to the heads of the lines, in the same step.
LEMMA LeaveIsPoolStep ==
  ASSUME EInv, NEW c \in Calls, at[c] = "running", NEW place \in {"post", "settled"},
         Leave(c, place)
  PROVE  [GlobalPool!Next]_(GlobalPool!poolVars) /\ [LocalPool!Next]_(LocalPool!poolVars)
<1>1. PICK e, next, heir :
        /\ e = ExecutorOf[c] /\ next = HeadOr(localLine[e])
        /\ heir = IF c \in OsCalls THEN HeadOr(globalLine) ELSE NoCall
  OBVIOUS
<1>2. Handover(c, place, e, next, heir)
  BY <1>1, LeaveEffect
<1>3. /\ e \in Executors /\ c \in Local(e)
      /\ \A d \in Calls : at'[d] = IF d = c THEN place
                                   ELSE IF d = next THEN "running"
                                   ELSE IF d = heir THEN "gate" ELSE at[d]
      /\ next = NoCall \/ (next \in Local(e) /\ at[next] = "local")
      /\ heir = NoCall \/ (heir \in OsCalls /\ at[heir] = "global")
  BY <1>2 DEF Handover
<1>4. Cardinality({c}) = 1
  BY FS_Singleton
<1>5. [GlobalPool!Next]_(GlobalPool!poolVars)
  <2>1. GlobalHolders' = IF c \in OsCalls THEN (GlobalHolders \ {c}) \cup ({heir} \ {NoCall})
                         ELSE GlobalHolders
    <3>1. \A d \in OsCalls : at'[d] \in {"gate", "local", "running"} <=>
                d # c /\ (d = heir \/ at[d] \in {"gate", "local", "running"})
      BY <1>3 DEF Local
    <3>2. c \notin OsCalls => heir = NoCall
      BY <1>1
    <3>3. heir # c
      BY <1>3
    <3> QED BY <1>3, <3>1, <3>2, <3>3 DEF GlobalHolders
  <2>2. globalLine \in Seq(OsCalls) /\ NoCall \notin OsCalls
    BY DEF EInv, TypeOK
  <2>3. globalLine' = IF heir = NoCall THEN globalLine ELSE Tail(globalLine)
    BY <1>1 DEF Leave
  <2>4. CASE c \notin OsCalls
    BY <1>1, <2>1, <2>3, <2>4 DEF GlobalPool!poolVars
  <2>5. CASE c \in OsCalls
    <3>1. heir = HeadOr(globalLine)
      BY <1>1, <2>5
    <3>2. GlobalPool!Heirs(1) = {heir} \ {NoCall}
      BY <2>2, <3>1, FrontAndRest DEF GlobalPool!Heirs
    <3>3. GlobalPool!Rest(1) = globalLine'
      <4>1. (heir = NoCall) <=> globalLine = <<>>
        BY <2>2, <3>1 DEF HeadOr
      <4>2. globalLine' = IF globalLine = <<>> THEN globalLine ELSE Tail(globalLine)
        BY <2>3, <4>1
      <4> QED BY <2>2, <4>2, FrontAndRest DEF GlobalPool!Rest
    <3>4. {c} \in SUBSET GlobalHolders
      BY <2>5 DEF GlobalHolders
    <3>5. GlobalPool!Return({c})
      BY <1>4, <2>1, <2>5, <3>2, <3>3, <3>4, SameOperators DEF GlobalPool!Return
    <3> QED BY <3>4, <3>5 DEF GlobalPool!Next
  <2> QED BY <2>4, <2>5
<1>6. [LocalPool!Next]_(LocalPool!poolVars)
  <2>1. CASE e # Watched
    <3>1. c \notin Local(Watched) /\ next \notin Local(Watched)
      BY <1>3, <2>1, WatchedAssumption DEF Local
    <3>2. LocalHolders(Watched)' = LocalHolders(Watched)
      BY <1>3, <3>1 DEF LocalHolders, Local
    <3>3. localLine'[Watched] = localLine[Watched]
      BY <1>2, <2>1, WatchedAssumption DEF Handover
    <3> QED BY <3>2, <3>3 DEF LocalPool!poolVars
  <2>2. CASE e = Watched
    <3>1. LocalHolders(Watched)' = (LocalHolders(Watched) \ {c}) \cup ({next} \ {NoCall})
      <4>1. \A d \in Calls : at'[d] = "running" <=> d # c /\ (d = next \/ at[d] = "running")
        BY <1>3
      <4>2. next # c
        BY <1>3
      <4> QED BY <1>3, <2>2, <4>1, <4>2 DEF LocalHolders, Local
    <3>2. localLine[Watched] \in Seq(Local(Watched)) /\ NoCall \notin Local(Watched)
      <4>1. NoCall \notin Local(Watched)
        BY DEF Local
      <4> QED BY <4>1, WatchedAssumption DEF EInv, LocalLinesMatch
    <3>3. localLine'[Watched] = IF localLine[Watched] = <<>> THEN localLine[Watched]
                                ELSE Tail(localLine[Watched])
      BY <1>1, <2>2, WatchedAssumption DEF Leave, EInv, TypeOK
    <3>4. LocalPool!Heirs(1) = {next} \ {NoCall} /\ LocalPool!Rest(1) = localLine'[Watched]
      <4>1. next = HeadOr(localLine[Watched])
        BY <1>1, <2>2
      <4>2. LocalPool!Heirs(1) = {next} \ {NoCall}
        BY <3>2, <4>1, FrontAndRest DEF LocalPool!Heirs
      <4>3. LocalPool!Rest(1) = localLine'[Watched]
        BY <3>2, <3>3, FrontAndRest DEF LocalPool!Rest
      <4> QED BY <4>2, <4>3
    <3>5. {c} \in SUBSET LocalHolders(Watched)
      BY <1>3, <2>2 DEF LocalHolders
    <3>6. LocalPool!Return({c})
      BY <1>4, <3>1, <3>4, <3>5, SameOperators DEF LocalPool!Return
    <3> QED BY <3>5, <3>6 DEF LocalPool!Next
  <2> QED BY <2>1, <2>2
<1> QED BY <1>5, <1>6

\* The process-wide permits and those of any executor are handed out as a fair
\* pool does, whatever the calls run into (toolExecutor.ts:496-514, 645-691).
THEOREM PoolsRefined == Spec => ImplementsPools
<1>1. Init => GlobalPool!Init /\ LocalPool!Init
  BY WatchedAssumption
     DEF Init, GlobalPool!Init, LocalPool!Init, GlobalHolders, LocalHolders, Local
<1>2. ASSUME EInv, [Next]_vars
      PROVE  [GlobalPool!Next]_(GlobalPool!poolVars) /\ [LocalPool!Next]_(LocalPool!poolVars)
  <2>1. ASSUME NEW c \in Calls, Clear(c) \/ EnterLocal(c) \/ Finish(c) \/ TimeOut(c)
        PROVE  [GlobalPool!Next]_(GlobalPool!poolVars) /\ [LocalPool!Next]_(LocalPool!poolVars)
    BY <1>2, <2>1, ClearIsPoolStep, EnterLocalIsPoolStep, LeaveIsPoolStep DEF Finish, TimeOut
  <2>2. CASE UNCHANGED <<GlobalHolders, LocalHolders(Watched), globalLine, localLine>>
    BY <2>2 DEF GlobalPool!poolVars, LocalPool!poolVars
  <2> QED BY <1>2, <2>1, <2>2, PoolsUntouched DEF Next, Advance, Quiet
<1> QED BY <1>1, <1>2, ExecutorInvariant, PTL
        DEF Spec, GlobalPool!Spec, LocalPool!Spec, ImplementsPools
=============================================================================
