----------------------------- MODULE MCPClient ------------------------------
(***************************************************************************)
(* The connection to one tool server: MCPClientManager                     *)
(* (src/src/mcp/client-manager.ts) over StdioTransport                     *)
(* (transports/stdio.ts), from the connection that Bootstrap makes to the  *)
(* calls of its tools and the reconnections they bring about.  The tasks   *)
(* are the connecting one, calls of tools, and refreshes of the tool list; *)
(* each makes at most one transport, which is named after it.  A reply is  *)
(* the promise a task awaits.  Framing, what is asked and answered, the    *)
(* HTTP transport, and disconnect(), which nothing calls, are left out.    *)
(***************************************************************************)
EXTENDS Naturals, FiniteSets

CONSTANTS
  Calls,        \* calls of the server's tools
  Refreshes,    \* notifications that the tool list has changed
  Setup,        \* the task that connects at the start
  NoTask,
  MaxAttempts   \* MAX_RECONNECT_ATTEMPTS

Tasks == Calls \cup Refreshes \cup {Setup}
ASSUME TaskAssumption == Setup \notin Calls \cup Refreshes /\ NoTask \notin Tasks
                         /\ Calls \cap Refreshes = {}
ASSUME CallsAssumption == IsFiniteSet(Calls)
ASSUME AttemptsAssumption == MaxAttempts \in Nat

VARIABLES
  status,       \* conn.status
  transport,    \* conn.transport
  attempts,     \* conn.reconnectAttempts
  process,      \* the transports whose process is not null
  listening,    \* the transports with a notification handler
  pending,      \* the pendingRequests of each transport, with their timers
  at, reply,    \* where a task is, and what it awaits
  waiting,      \* Bootstrap waits for the connection
  registered,   \* the server's tools are in the registry
  notices       \* calls of onServerUnavailable

conn == <<status, transport, attempts>>
wires == <<process, listening, pending>>
boot == <<waiting, registered>>
vars == <<conn, wires, at, reply, boot, notices>>

Requests == {"initialize", "announce", "list", "call"}

Init ==
  /\ status = "connecting" /\ transport = NoTask /\ attempts = 0
  /\ process = {} /\ listening = {} /\ pending = [x \in Tasks |-> {}]
  /\ at = [t \in Tasks |-> "idle"] /\ reply = [t \in Tasks |-> "none"]
  /\ waiting = TRUE /\ registered = FALSE /\ notices = 0

\* The task goes on to a place where it asks for nothing.
Goto(t, place) == at' = [at EXCEPT ![t] = place] /\ reply' = [reply EXCEPT ![t] = "none"]

-----------------------------------------------------------------------------
(* StdioTransport *)

\* connect(): a process is spawned at once, and gets a moment to start.
Spawn(t) ==
  /\ transport' = t /\ process' = process \cup {t}
  /\ at' = [at EXCEPT ![t] = "starting"] /\ reply' = [reply EXCEPT ![t] = "awaited"]

\* The task goes on to a request: sendRequest() on the transport the connection
\* has now.
Ask(t, request) ==
  /\ at' = [at EXCEPT ![t] = request]
  /\ IF transport \in process
     THEN pending' = [pending EXCEPT ![transport] = @ \cup {t}] /\ reply' = [reply EXCEPT ![t] = "awaited"]
     ELSE reply' = [reply EXCEPT ![t] = "exited"] /\ UNCHANGED pending

\* The entry of t is taken out of the table and its promise settled.
Resolve(t, outcome) ==
  \E x \in Tasks :
    /\ t \in pending[x] /\ pending' = [pending EXCEPT ![x] = @ \ {t}]
    /\ reply' = [reply EXCEPT ![t] = outcome]

\* A result, an error of the server, or 30 seconds without either.
Answer(t) == Resolve(t, "result") /\ UNCHANGED <<conn, process, listening, at, boot, notices>>
Refusal(t) == Resolve(t, "error") /\ UNCHANGED <<conn, process, listening, at, boot, notices>>
Timeout(t) == Resolve(t, "error") /\ UNCHANGED <<conn, process, listening, at, boot, notices>>

\* Whoever depends on a transport: its requests, and the task that starts it.
Dependents(x) == pending[x] \cup {t \in {x} : at[t] = "starting" /\ reply[t] = "awaited"}

\* Bug for comparison: the requests are dropped with their timers, and not rejected.
BreakSilently(x, outcome) ==
  /\ x \in process /\ process' = process \ {x}
  /\ pending' = [pending EXCEPT ![x] = {}]
  /\ reply' = [t \in Tasks |-> IF t \in Dependents(x) \ pending[x] THEN outcome ELSE reply[t]]
  /\ UNCHANGED <<conn, listening, at, boot, notices>>

\* Bug for comparison: only the task that starts the process hears of its end.
BreakStartOnly(x, outcome) ==
  /\ x \in process /\ process' = process \ {x}
  /\ reply' = [t \in Tasks |-> IF t \in Dependents(x) \ pending[x] THEN outcome ELSE reply[t]]
  /\ UNCHANGED <<conn, listening, pending, at, boot, notices>>

\* The process or a pipe to it is gone, and everybody is told.
Break(x, outcome) ==
  /\ x \in process /\ process' = process \ {x}
  /\ pending' = [pending EXCEPT ![x] = {}]
  /\ reply' = [t \in Tasks |-> IF t \in Dependents(x) THEN outcome ELSE reply[t]]
  /\ UNCHANGED <<conn, listening, at, boot, notices>>

Exit(x) == Break(x, "exited")
PipeError(x) == Break(x, "error")

\* spawn() did not work: the handle stays.
SpawnFails(t) ==
  /\ at[t] = "starting" /\ reply[t] = "awaited"
  /\ reply' = [reply EXCEPT ![t] = "error"]
  /\ UNCHANGED <<conn, wires, at, boot, notices>>

-----------------------------------------------------------------------------
(* MCPClientManager *)

\* connect(), which Bootstrap calls in the background.
Connect ==
  /\ at[Setup] = "idle" /\ Spawn(Setup)
  /\ UNCHANGED <<status, attempts, listening, pending, boot, notices>>

\* The moment is over: establishConnection() goes on with whatever transport
\* the connection has by then.
Started(t) ==
  /\ at[t] = "starting" /\ reply[t] = "awaited"
  /\ listening' = listening \cup {transport}
  /\ Ask(t, "initialize")
  /\ UNCHANGED <<conn, process, boot, notices>>

Initialized(t) ==
  /\ at[t] = "initialize" /\ reply[t] = "result"
  /\ Ask(t, "announce")
  /\ UNCHANGED <<conn, process, listening, boot, notices>>

\* notifications/initialized goes out as a request whose failure is ignored.
Announced(t) ==
  /\ at[t] = "announce" /\ reply[t] \in {"result", "error", "exited"}
  /\ status' = "connected" /\ attempts' = 0
  /\ Ask(t, "list")
  /\ UNCHANGED <<transport, process, listening, boot, notices>>

\* A list that failed is an empty one.  Bootstrap registers the tools if it
\* still waits.
Listed(t) ==
  /\ at[t] = "list" /\ reply[t] \in {"result", "error", "exited"}
  /\ Goto(t, "settled")
  /\ registered' = (registered \/ (t = Setup /\ waiting /\ reply[t] = "result"))
  /\ waiting' = (waiting /\ t # Setup)
  /\ UNCHANGED <<conn, wires, notices>>

\* connect() or attemptReconnect() gives up.
EstablishFails(t) ==
  /\ at[t] \in {"starting", "initialize"} /\ reply[t] \in {"error", "exited"}
  /\ status' = "error" /\ waiting' = (waiting /\ t # Setup)
  /\ Goto(t, "settled")
  /\ UNCHANGED <<transport, attempts, wires, registered, notices>>

\* withTimeout(): Bootstrap goes on without the server, whose connection goes on too.
GiveUp ==
  /\ waiting /\ at[Setup] # "idle" /\ waiting' = FALSE
  /\ UNCHANGED <<conn, wires, at, reply, registered, notices>>

\* callTool()
Call(t) ==
  /\ at[t] = "idle" /\ registered
  /\ IF status = "connected" THEN Ask(t, "call")
     ELSE Goto(t, "settled") /\ UNCHANGED pending
  /\ UNCHANGED <<conn, process, listening, boot, notices>>

Returned(t) ==
  /\ at[t] = "call" /\ reply[t] \in {"result", "error"}
  /\ Goto(t, "settled")
  /\ UNCHANGED <<conn, wires, boot, notices>>

\* Bug for comparison: one attempt too many.
BackoffOnceMore(t) ==
  /\ at[t] = "call" /\ reply[t] = "exited" /\ attempts <= MaxAttempts
  /\ attempts' = attempts + 1
  /\ Goto(t, "backoff")
  /\ UNCHANGED <<status, transport, wires, boot, notices>>

\* attemptReconnect()
Backoff(t) ==
  /\ at[t] = "call" /\ reply[t] = "exited" /\ attempts < MaxAttempts
  /\ attempts' = attempts + 1
  /\ Goto(t, "backoff")
  /\ UNCHANGED <<status, transport, wires, boot, notices>>

Exhausted(t) ==
  /\ at[t] = "call" /\ reply[t] = "exited" /\ attempts >= MaxAttempts
  /\ status' = "error" /\ notices' = notices + 1
  /\ Goto(t, "settled")
  /\ UNCHANGED <<transport, attempts, wires, boot>>

Reconnect(t) ==
  /\ at[t] = "backoff" /\ Spawn(t)
  /\ UNCHANGED <<status, attempts, listening, pending, boot, notices>>

\* notifications/tools/list_changed, which may be read after the server has ended
Changed(t) ==
  /\ at[t] = "idle" /\ listening # {}
  /\ IF status = "connected" THEN Ask(t, "list") ELSE Goto(t, "settled") /\ UNCHANGED pending
  /\ UNCHANGED <<conn, process, listening, boot, notices>>

-----------------------------------------------------------------------------
\* What the process itself goes on with: promises and timers.
Proceed(t) ==
  \/ Started(t) \/ Timeout(t) \/ Initialized(t) \/ Announced(t) \/ Listed(t)
  \/ EstablishFails(t) \/ Returned(t) \/ Backoff(t) \/ Exhausted(t) \/ Reconnect(t)

Next ==
  \/ Connect \/ GiveUp
  \/ \E t \in Tasks : Proceed(t) \/ Answer(t) \/ Refusal(t) \/ SpawnFails(t)
  \/ \E x \in Tasks : Exit(x) \/ PipeError(x)
  \/ \E t \in Calls : Call(t)
  \/ \E t \in Refreshes : Changed(t)

Spec == Init /\ [][Next]_vars

\* Nothing obliges the server; timers run out and promises go on.
FairSpec == Spec /\ WF_vars(\E t \in Tasks : Proceed(t))

-----------------------------------------------------------------------------
TypeOK ==
  /\ status \in {"connecting", "connected", "error"}
  /\ transport \in Tasks \cup {NoTask} /\ attempts \in 0 .. MaxAttempts
  /\ process \subseteq Tasks /\ listening \subseteq Tasks
  /\ pending \in [Tasks -> SUBSET Tasks]
  /\ at \in [Tasks -> Requests \cup {"idle", "backoff", "starting", "settled"}]
  /\ reply \in [Tasks -> {"none", "awaited", "result", "error", "exited"}]
  /\ waiting \in BOOLEAN /\ registered \in BOOLEAN /\ notices \in 0 .. Cardinality(Calls)

\* Whoever awaits a reply is on the books of exactly one transport, and that
\* transport still has its process, which will answer, end or be timed out
\* (handleTransportFailure(), stdio.ts:187-202: "a dead server can never leave
\* a caller waiting on a promise that never settles").
NobodyForgotten ==
  /\ \A t \in Tasks : reply[t] = "awaited" =>
       IF at[t] = "starting" THEN t \in process
       ELSE Cardinality({x \in process : t \in pending[x]}) = 1
  /\ \A x \in Tasks : \A t \in pending[x] : x \in process /\ reply[t] = "awaited"

\* A call of a tool, and the connecting task, come to an end, whatever becomes
\* of the servers and however reconnections overlap (callTool(),
\* client-manager.ts:152-183).
Underway == \E t \in Tasks : at[t] \notin {"idle", "settled"}
EverybodySettles == Underway ~> ~Underway

\* When a server whose tools the model was offered is given up for good, the
\* user has been told (client-manager.ts:38-42 and 263).
LossIsNoticed ==
  (registered /\ status = "error" /\ ~Underway) => notices > 0
=============================================================================
