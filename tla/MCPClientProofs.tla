-------------------------- MODULE MCPClientProofs --------------------------
(***************************************************************************)
(* For any finite number of calls, any refreshes and any number of         *)
(* attempts: no task of the client waits for a reply that nobody owes it.  *)
(***************************************************************************)
EXTENDS MCPClient, FiniteSetTheorems, TLAPS

\* What the table of each transport, a task's place and its promise say of one
\* another: a request is in one table, of a transport that has its process, just
\* while its task awaits the reply.
Booked(t) ==
  /\ reply[t] = "awaited" => at[t] \in Requests \cup {"starting"}
  /\ reply[t] = "awaited" /\ at[t] = "starting" => t \in process
  /\ reply[t] = "awaited" /\ at[t] \in Requests => \E x \in Tasks : t \in pending[x]
  /\ \A x \in Tasks : t \in pending[x] => x \in process /\ reply[t] = "awaited" /\ at[t] \in Requests
  /\ \A x, y \in Tasks : t \in pending[x] /\ t \in pending[y] => x = y
  /\ at[t] = "starting" => transport \in Tasks
  /\ at[t] \in {"call", "backoff"} => t \in Calls

Typed ==
  /\ status \in {"connecting", "connected", "error"}
  /\ transport \in Tasks \cup {NoTask} /\ attempts \in 0 .. MaxAttempts
  /\ process \subseteq Tasks /\ listening \subseteq Tasks
  /\ pending \in [Tasks -> SUBSET Tasks]
  /\ at \in [Tasks -> Requests \cup {"idle", "backoff", "starting", "settled"}]
  /\ reply \in [Tasks -> {"none", "awaited", "result", "error", "exited"}]
  /\ waiting \in BOOLEAN /\ registered \in BOOLEAN /\ notices \in Nat

\* A notice ends a call.
Over == {t \in Calls : at[t] = "settled"}
Noticed == notices <= Cardinality(Over)

MInv == Typed /\ Noticed /\ \A t \in Tasks : Booked(t)

LEMMA InitBooked == Init => MInv
<1> SUFFICES ASSUME Init PROVE MInv
  OBVIOUS
<1>1. Typed
  <2>1. /\ status \in {"connecting", "connected", "error"}
        /\ transport \in Tasks \cup {NoTask} /\ attempts \in 0 .. MaxAttempts
        /\ process \subseteq Tasks /\ listening \subseteq Tasks
    BY AttemptsAssumption DEF Init
  <2>2. pending \in [Tasks -> SUBSET Tasks]
    BY DEF Init
  <2>3. at \in [Tasks -> Requests \cup {"idle", "backoff", "starting", "settled"}]
    BY DEF Init
  <2>4. reply \in [Tasks -> {"none", "awaited", "result", "error", "exited"}]
    BY DEF Init
  <2>5. waiting \in BOOLEAN /\ registered \in BOOLEAN /\ notices \in Nat
    BY DEF Init
  <2> QED BY <2>1, <2>2, <2>3, <2>4, <2>5 DEF Typed
<1>2. Noticed
  <2>1. IsFiniteSet(Over)
    BY CallsAssumption, FS_Subset DEF Over
  <2> QED BY <2>1, FS_CardinalityType DEF Init, Noticed
<1>3. \A t \in Tasks : Booked(t)
  BY DEF Init, Booked, Requests
<1> QED BY <1>1, <1>2, <1>3 DEF MInv

\* Calls that are over stay so, and a notice needs one more.
LEMMA NoticeKept ==
  ASSUME Typed, Noticed, \A t \in Calls : at[t] = "settled" => at'[t] = "settled",
         \/ notices' = notices
         \/ notices' = notices + 1 /\ \E t \in Calls : at[t] # "settled" /\ at'[t] = "settled"
  PROVE  Noticed' /\ notices' \in Nat
<1>1. IsFiniteSet(Over) /\ IsFiniteSet(Over') /\ Over \subseteq Over'
  BY CallsAssumption, FS_Subset DEF Over
<1>2. Cardinality(Over) \in Nat /\ Cardinality(Over') \in Nat
  BY <1>1, FS_CardinalityType
<1>3. CASE notices' = notices
  <2>1. Cardinality(Over) <= Cardinality(Over')
    BY <1>1, FS_Subset
  <2> QED BY <1>2, <1>3, <2>1 DEF Typed, Noticed
<1>4. ASSUME NEW t \in Calls, at[t] # "settled", at'[t] = "settled", notices' = notices + 1
      PROVE  Noticed' /\ notices' \in Nat
  <2>1. t \notin Over /\ t \in Over'
    BY <1>4 DEF Over
  <2>2. IsFiniteSet(Over \cup {t}) /\ Cardinality(Over \cup {t}) = Cardinality(Over) + 1
    BY <1>1, <2>1, FS_AddElement
  <2>3. Cardinality(Over \cup {t}) <= Cardinality(Over')
    <3>1. Over \cup {t} \subseteq Over'
      BY <1>1, <2>1
    <3> QED BY <1>1, <3>1, FS_Subset
  <2> QED BY <1>2, <1>4, <2>2, <2>3 DEF Typed, Noticed
<1> QED BY <1>3, <1>4

\* A step of task t only: it has no request in a table before, and afterwards
\* either one on the current transport, or none and awaits nothing.
Moves(t) ==
  /\ t \in Tasks /\ (reply[t] # "awaited" \/ at[t] = "starting")
  /\ \A u \in Tasks : u # t => at'[u] = at[u] /\ reply'[u] = reply[u]
  /\ process \subseteq process' /\ (transport \in Tasks => transport' \in Tasks)
  /\ \/ pending' = pending /\ reply'[t] # "awaited" /\ at'[t] # "starting"
     \/ /\ transport \in process /\ pending' = [pending EXCEPT ![transport] = @ \cup {t}]
        /\ reply'[t] = "awaited" /\ at'[t] \in Requests
     \/ /\ pending' = pending /\ reply'[t] = "awaited" /\ at'[t] = "starting"
        /\ t \in process' /\ transport' \in Tasks
  /\ at'[t] \in {"call", "backoff"} => t \in Calls

LEMMA MoveBooked ==
  ASSUME Typed, \A u \in Tasks : Booked(u), NEW t \in Tasks, Moves(t)
  PROVE  \A u \in Tasks : Booked(u)'
<1>1. \A x \in Tasks : t \notin pending[x]
  BY DEF Moves, Booked, Requests
<1>2. /\ pending \in [Tasks -> SUBSET Tasks]
      /\ \A x \in Tasks : pending'[x] = pending[x] \/ pending'[x] = pending[x] \cup {t}
      /\ \A u \in Tasks : u # t => \A x \in Tasks : u \in pending'[x] <=> u \in pending[x]
  BY DEF Typed, Moves
<1>3. ASSUME NEW u \in Tasks, u # t PROVE Booked(u)'
  BY <1>2, <1>3 DEF Moves, Booked
<1>4. Booked(t)'
  <2>0. at'[t] \in {"call", "backoff"} => t \in Calls
    BY DEF Moves
  <2>1. CASE pending' = pending /\ reply'[t] # "awaited" /\ at'[t] # "starting"
    BY <1>1, <2>0, <2>1 DEF Booked
  <2>3. CASE /\ pending' = pending /\ reply'[t] = "awaited" /\ at'[t] = "starting"
             /\ t \in process' /\ transport' \in Tasks
    BY <1>1, <2>0, <2>3 DEF Booked, Requests
  <2>2. CASE /\ transport \in process /\ pending' = [pending EXCEPT ![transport] = @ \cup {t}]
             /\ reply'[t] = "awaited" /\ at'[t] \in Requests
    <3>1. transport \in Tasks /\ \A x \in Tasks : t \in pending'[x] <=> x = transport
      BY <1>1, <2>2 DEF Typed
    <3> QED BY <2>2, <3>1 DEF Moves, Booked, Requests
  <2> QED BY <2>1, <2>2, <2>3 DEF Moves
<1> QED BY <1>3, <1>4

LEMMA AskMoves ==
  ASSUME Typed, NEW t \in Tasks, NEW request \in Requests, Ask(t, request)
  PROVE  /\ pending' \in [Tasks -> SUBSET Tasks]
         /\ at' \in [Tasks -> Requests \cup {"idle", "backoff", "starting", "settled"}]
         /\ reply' \in [Tasks -> {"none", "awaited", "result", "error", "exited"}]
         /\ at'[t] = request
         /\ \A u \in Tasks : u # t => at'[u] = at[u] /\ reply'[u] = reply[u]
         /\ \/ pending' = pending /\ reply'[t] # "awaited" /\ at'[t] # "starting"
            \/ /\ transport \in process /\ pending' = [pending EXCEPT ![transport] = @ \cup {t}]
               /\ reply'[t] = "awaited" /\ at'[t] \in Requests
<1>1. /\ at' \in [Tasks -> Requests \cup {"idle", "backoff", "starting", "settled"}]
      /\ at'[t] = request /\ request # "starting"
      /\ \A u \in Tasks : u # t => at'[u] = at[u]
  BY DEF Ask, Typed, Requests
<1>2. CASE transport \in process
  BY <1>1, <1>2 DEF Ask, Typed
<1>3. CASE transport \notin process
  BY <1>1, <1>3 DEF Ask, Typed
<1> QED BY <1>2, <1>3

LEMMA GotoMoves ==
  ASSUME Typed, NEW t \in Tasks, NEW place \in {"settled", "backoff"}, Goto(t, place)
  PROVE  /\ at' \in [Tasks -> Requests \cup {"idle", "backoff", "starting", "settled"}]
         /\ reply' \in [Tasks -> {"none", "awaited", "result", "error", "exited"}]
         /\ at'[t] = place /\ reply'[t] = "none"
         /\ \A u \in Tasks : u # t => at'[u] = at[u] /\ reply'[u] = reply[u]
BY DEF Goto, Typed

LEMMA SpawnMoves ==
  ASSUME Typed, NEW t \in Tasks, Spawn(t)
  PROVE  /\ at' \in [Tasks -> Requests \cup {"idle", "backoff", "starting", "settled"}]
         /\ reply' \in [Tasks -> {"none", "awaited", "result", "error", "exited"}]
         /\ at'[t] = "starting" /\ reply'[t] = "awaited"
         /\ transport' = t /\ process' = process \cup {t}
         /\ \A u \in Tasks : u # t => at'[u] = at[u] /\ reply'[u] = reply[u]
BY DEF Spawn, Typed

\* The steps of the manager, each of one task.
LEMMA TaskSteps ==
  ASSUME MInv, NEW t \in Tasks,
         \/ t = Setup /\ Connect
         \/ Started(t) \/ Initialized(t) \/ Announced(t) \/ Listed(t) \/ EstablishFails(t)
         \/ Returned(t) \/ Backoff(t) \/ Exhausted(t) \/ Reconnect(t)
         \/ t \in Calls /\ Call(t)
         \/ t \in Refreshes /\ Changed(t)
  PROVE  MInv'
<1>0. /\ Typed /\ Noticed /\ Booked(t) /\ \A u \in Tasks : Booked(u)
      /\ MaxAttempts \in Nat /\ Setup \notin Calls
  BY AttemptsAssumption, TaskAssumption DEF MInv
<1>1. SUFFICES /\ Typed' /\ Moves(t) /\ at[t] # "settled"
               /\ \/ notices' = notices
                  \/ notices' = notices + 1 /\ t \in Calls /\ at'[t] = "settled"
  <2>1. \A u \in Tasks : Booked(u)'
    BY <1>0, <1>1, MoveBooked
  <2>2. Noticed'
    <3>1. \A u \in Calls : at[u] = "settled" => at'[u] = "settled"
      BY <1>1 DEF Moves, Tasks
    <3> QED BY <1>0, <1>1, <3>1, NoticeKept
  <2> QED BY <1>1, <2>1, <2>2 DEF MInv
<1>2. CASE t = Setup /\ Connect
  BY <1>0, <1>2, SpawnMoves DEF Connect, Moves, Booked, Requests, Typed, boot
<1>3. CASE Started(t)
  <2>1. Ask(t, "initialize") /\ "initialize" \in Requests
    BY <1>3 DEF Started, Requests
  <2> QED BY <1>0, <1>3, <2>1, AskMoves DEF Started, Moves, Booked, Typed, conn, boot
<1>4. CASE Initialized(t)
  <2>1. Ask(t, "announce") /\ "announce" \in Requests
    BY <1>4 DEF Initialized, Requests
  <2> QED BY <1>0, <1>4, <2>1, AskMoves DEF Initialized, Moves, Booked, Typed, conn, boot
<1>5. CASE Announced(t)
  <2>1. Ask(t, "list") /\ "list" \in Requests
    BY <1>5 DEF Announced, Requests
  <2> QED BY <1>0, <1>5, <2>1, AskMoves DEF Announced, Moves, Booked, Typed, conn, boot
<1>6. CASE Listed(t)
  <2>1. Goto(t, "settled")
    BY <1>6 DEF Listed
  <2> QED BY <1>0, <1>6, <2>1, GotoMoves DEF Listed, Moves, Booked, Requests, Typed, conn, wires, boot
<1>7. CASE EstablishFails(t)
  <2>1. Goto(t, "settled")
    BY <1>7 DEF EstablishFails
  <2> QED BY <1>0, <1>7, <2>1, GotoMoves DEF EstablishFails, Moves, Booked, Requests, Typed, conn, wires, boot
<1>8. CASE Returned(t)
  <2>1. Goto(t, "settled")
    BY <1>8 DEF Returned
  <2> QED BY <1>0, <1>8, <2>1, GotoMoves DEF Returned, Moves, Booked, Requests, Typed, conn, wires, boot
<1>9. CASE Backoff(t)
  <2>1. Goto(t, "backoff")
    BY <1>9 DEF Backoff
  <2> QED BY <1>0, <1>9, <2>1, GotoMoves DEF Backoff, Moves, Booked, Requests, Typed, conn, wires, boot
<1>10. CASE Exhausted(t)
  <2>1. Goto(t, "settled")
    BY <1>10 DEF Exhausted
  <2> QED BY <1>0, <1>10, <2>1, GotoMoves DEF Exhausted, Moves, Booked, Requests, Typed, conn, wires, boot
<1>11. CASE Reconnect(t)
  BY <1>0, <1>11, SpawnMoves DEF Reconnect, Moves, Booked, Requests, Typed, boot
<1>12. CASE t \in Calls /\ Call(t)
  <2>1. CASE status = "connected"
    <3>1. Ask(t, "call") /\ "call" \in Requests
      BY <1>12, <2>1 DEF Call, Requests
    <3> QED BY <1>0, <1>12, <3>1, AskMoves DEF Call, Moves, Booked, Requests, Typed, conn, boot
  <2>2. CASE status # "connected"
    <3>1. Goto(t, "settled") /\ pending' = pending
      BY <1>12, <2>2 DEF Call
    <3> QED BY <1>0, <1>12, <3>1, GotoMoves DEF Call, Moves, Booked, Requests, Typed, conn, boot
  <2> QED BY <2>1, <2>2
<1>13. CASE t \in Refreshes /\ Changed(t)
  <2>1. CASE status = "connected"
    <3>1. Ask(t, "list") /\ "list" \in Requests
      BY <1>13, <2>1 DEF Changed, Requests
    <3> QED BY <1>0, <1>13, <3>1, AskMoves DEF Changed, Moves, Booked, Requests, Typed, conn, boot
  <2>2. CASE status # "connected"
    <3>1. Goto(t, "settled") /\ pending' = pending
      BY <1>13, <2>2 DEF Changed
    <3> QED BY <1>0, <1>13, <3>1, GotoMoves DEF Changed, Moves, Booked, Requests, Typed, conn, boot
  <2> QED BY <2>1, <2>2
<1> QED BY <1>2, <1>3, <1>4, <1>5, <1>6, <1>7, <1>8, <1>9, <1>10, <1>11, <1>12, <1>13

\* A reply takes the request out of the one table that has it.
LEMMA ReplySteps ==
  ASSUME MInv, NEW t \in Tasks, Answer(t) \/ Refusal(t) \/ Timeout(t)
  PROVE  MInv'
<1>0. Typed /\ Noticed /\ \A u \in Tasks : Booked(u)
  BY DEF MInv
<1>1. PICK outcome \in {"result", "error"}, x \in Tasks :
        /\ t \in pending[x] /\ pending' = [pending EXCEPT ![x] = @ \ {t}]
        /\ reply' = [reply EXCEPT ![t] = outcome]
        /\ UNCHANGED <<status, transport, attempts, process, listening, at, waiting, registered, notices>>
  BY DEF Answer, Refusal, Timeout, Resolve, conn, boot
<1>2. Typed'
  BY <1>0, <1>1 DEF Typed
<1>3. Noticed'
  BY <1>0, <1>1 DEF Noticed, Over
<1>4. /\ \A u \in Tasks : reply'[u] = IF u = t THEN outcome ELSE reply[u]
      /\ \A y \in Tasks : pending'[y] = IF y = x THEN pending[y] \ {t} ELSE pending[y]
  BY <1>0, <1>1 DEF Typed
<1>5. \A y \in Tasks : t \notin pending'[y]
  BY <1>0, <1>1, <1>4 DEF Booked
<1>6. ASSUME NEW u \in Tasks PROVE Booked(u)'
  <2>1. CASE u = t
    <3>1. reply'[t] # "awaited" /\ (at[t] \in {"call", "backoff"} => t \in Calls)
          /\ (at[t] = "starting" => transport \in Tasks)
      BY <1>0, <1>4 DEF Booked
    <3> QED BY <1>1, <1>5, <2>1, <3>1 DEF Booked
  <2>2. CASE u # t
    <3>1. reply'[u] = reply[u] /\ \A y \in Tasks : u \in pending'[y] <=> u \in pending[y]
      BY <1>4, <2>2
    <3>2. Booked(u)
      BY <1>0
    <3> QED BY <1>1, <3>1, <3>2 DEF Booked
  <2> QED BY <2>1, <2>2
<1> QED BY <1>2, <1>3, <1>6 DEF MInv

\* The end of a transport settles all that depends on it.
LEMMA BreakSteps ==
  ASSUME MInv, NEW x \in Tasks, Exit(x) \/ PipeError(x)
  PROVE  MInv'
<1>0. Typed /\ Noticed /\ \A u \in Tasks : Booked(u)
  BY DEF MInv
<1>1. PICK outcome \in {"exited", "error"} :
        /\ x \in process /\ process' = process \ {x}
        /\ pending' = [pending EXCEPT ![x] = {}]
        /\ reply' = [t \in Tasks |-> IF t \in Dependents(x) THEN outcome ELSE reply[t]]
        /\ UNCHANGED <<status, transport, attempts, listening, at, waiting, registered, notices>>
  BY DEF Exit, PipeError, Break, conn, boot
<1>2. Typed'
  BY <1>0, <1>1 DEF Typed
<1>3. Noticed'
  BY <1>0, <1>1 DEF Noticed, Over
<1>4. /\ \A u \in Tasks : reply'[u] = IF u \in Dependents(x) THEN outcome ELSE reply[u]
      /\ \A y \in Tasks : pending'[y] = IF y = x THEN {} ELSE pending[y]
  BY <1>0, <1>1 DEF Typed
<1>5. ASSUME NEW u \in Tasks PROVE Booked(u)'
  <2>0. Booked(u)
    BY <1>0
  <2>1. CASE u \in Dependents(x)
    <3>1. reply'[u] # "awaited" /\ \A y \in Tasks : u \notin pending'[y]
      BY <1>4, <2>0, <2>1 DEF Booked, Dependents, Requests
    <3> QED BY <1>1, <2>0, <3>1 DEF Booked
  <2>2. CASE u \notin Dependents(x)
    <3>1. /\ reply'[u] = reply[u] /\ u \notin pending[x]
          /\ ~(u = x /\ at[u] = "starting" /\ reply[u] = "awaited")
          /\ \A y \in Tasks : u \in pending'[y] <=> u \in pending[y]
      BY <1>4, <2>2 DEF Dependents
    <3> QED BY <1>1, <2>0, <3>1 DEF Booked
  <2> QED BY <2>1, <2>2
<1> QED BY <1>2, <1>3, <1>5 DEF MInv

LEMMA OtherSteps ==
  ASSUME MInv, GiveUp \/ UNCHANGED vars \/ \E t \in Tasks : SpawnFails(t)
  PROVE  MInv'
<1>0. Typed /\ Noticed /\ \A u \in Tasks : Booked(u)
  BY DEF MInv
<1>1. CASE GiveUp \/ UNCHANGED vars
  <2>1. /\ UNCHANGED <<status, transport, attempts, process, listening, pending, at, reply, registered, notices>>
        /\ waiting' \in BOOLEAN
    BY <1>0, <1>1 DEF GiveUp, vars, conn, wires, boot, Typed
  <2> QED BY <1>0, <2>1 DEF MInv, Typed, Noticed, Over, Booked
<1>2. ASSUME NEW t \in Tasks, SpawnFails(t) PROVE MInv'
  <2>1. /\ UNCHANGED <<status, transport, attempts, process, listening, pending, at, waiting, registered, notices>>
        /\ at[t] = "starting" /\ reply' = [reply EXCEPT ![t] = "error"]
    BY <1>2 DEF SpawnFails, conn, wires, boot
  <2>2. \A u \in Tasks : reply'[u] = IF u = t THEN "error" ELSE reply[u]
    BY <1>0, <2>1 DEF Typed
  <2>3. Typed' /\ Noticed'
    BY <1>0, <2>1 DEF Typed, Noticed, Over
  <2>4. ASSUME NEW u \in Tasks PROVE Booked(u)'
    <3>1. Booked(u)
      BY <1>0
    <3> QED BY <2>1, <2>2, <3>1 DEF Booked, Requests
  <2> QED BY <2>3, <2>4 DEF MInv
<1> QED BY <1>1, <1>2

LEMMA StepBooked == MInv /\ [Next]_vars => MInv'
<1> SUFFICES ASSUME MInv, [Next]_vars PROVE MInv'
  OBVIOUS
<1>1. Setup \in Tasks /\ Calls \subseteq Tasks /\ Refreshes \subseteq Tasks
  BY DEF Tasks
<1> QED BY <1>1, TaskSteps, ReplySteps, BreakSteps, OtherSteps DEF Next, Proceed

LEMMA ClientInvariant == Spec => []MInv
BY InitBooked, StepBooked, PTL DEF Spec

\* The variables keep their types and the counters their ranges, for any calls,
\* refreshes and attempts.
THEOREM ClientTypeCorrect == Spec => []TypeOK
<1>1. MInv => TypeOK
  <2> SUFFICES ASSUME MInv PROVE TypeOK
    OBVIOUS
  <2>1. Cardinality(Over) <= Cardinality(Calls) /\ Cardinality(Over) \in Nat /\ Cardinality(Calls) \in Nat
    BY CallsAssumption, FS_Subset, FS_CardinalityType DEF Over
  <2>2. notices \in 0 .. Cardinality(Calls)
    BY <2>1 DEF MInv, Typed, Noticed
  <2> QED BY <2>2 DEF MInv, Typed, TypeOK
<1> QED BY <1>1, ClientInvariant, PTL

\* Whoever awaits a reply is on the books of exactly one live transport, however
\* reconnections overlap and processes end (stdio.ts:187-202).
THEOREM NobodyIsForgotten == Spec => []NobodyForgotten
<1>1. MInv => NobodyForgotten
  <2> SUFFICES ASSUME MInv PROVE NobodyForgotten
    OBVIOUS
  <2>0. Typed /\ \A t \in Tasks : Booked(t)
    BY DEF MInv
  <2>1. ASSUME NEW t \in Tasks, reply[t] = "awaited", at[t] # "starting"
        PROVE  Cardinality({x \in process : t \in pending[x]}) = 1
    <3>1. PICK x \in Tasks : t \in pending[x]
      BY <2>0, <2>1 DEF Booked
    <3>2. {y \in process : t \in pending[y]} = {x}
      BY <2>0, <3>1 DEF Booked, Typed
    <3> QED BY <3>2, FS_Singleton
  <2>2. ASSUME NEW t \in Tasks, reply[t] = "awaited", at[t] = "starting"
        PROVE  t \in process
    BY <2>0, <2>2 DEF Booked
  <2>3. ASSUME NEW x \in Tasks, NEW t \in pending[x] PROVE x \in process /\ reply[t] = "awaited"
    BY <2>0 DEF Booked, Typed
  <2> QED BY <2>1, <2>2, <2>3 DEF NobodyForgotten
<1> QED BY <1>1, ClientInvariant, PTL
=============================================================================
