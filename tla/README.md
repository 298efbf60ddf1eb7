# A verification development for kc-cli

kc-cli is a coding agent for the terminal, written in TypeScript
(`src/src/`, about 51,000 lines without tests). A user's message starts a *query*: a
loop that asks an LLM, runs the tools the answer calls for, and asks again,
until the model stops or a budget is used up. Tools change files; some start
sub-agents, which run loops of their own beside the first; long transcripts are
summarised in the background.

This directory holds TLA+ models of the parts where order, concurrency and
failure matter, the TLC configurations that check them on small instances, and
proofs, checked by TLAPS, that hold for every instance. The code is
single-threaded JavaScript, so nothing here is about memory models: what
interleaves are callbacks, timers and the continuations of promises, and an
action of a model is what runs between two `await`s (or between two callbacks).

Contents: [inventory](#inventory) · [modules](#modules) · [runs](#runs) ·
[fairness](#fairness) · [proofs](#proofs) · [what the code does against its
own words](#what-the-code-does-against-its-own-words) · [seen while
modelling](#seen-while-modelling-without-a-run-of-their-own) · [what is not
modelled](#what-is-not-modelled) · [plan](#plan)

## Inventory

| Component | Source (under `src/src/`) | State | Operations | Interacts with |
|---|---|---|---|---|
| Counting semaphore | `utils/semaphore.ts` | counter, FIFO queue of waiters with timers | acquire (with timeout), release, withPermit, reset | used by the orchestrator, the file lock, the tool executor |
| Agent orchestrator | `orchestrator/agent-orchestrator.ts` | spawn permits and release hooks, a completion tracker per agent, waiters with timers | spawn, spawnBatch, waitForCompletion, waitForAll, cancel, shutdownAll, report gate with follow-up turns | calls the backend; listens to terminal events; feeds the aggregator |
| In-process backend | `orchestrator/backends/in-process.ts`, `backend-shared.ts` | active and retained runtimes, report contexts, terminal-event guard | spawn (with the lazy import of the engine), agent loop and timer, resume, shutdown | publishes events synchronously to the orchestrator's listeners |
| Result aggregator | `orchestrator/result-aggregator.ts` | the status of every agent | register, record, isAllDone | wakes waitForAll() through the orchestrator |
| Event bus | `orchestrator/event-bus.ts` | listeners, bounded replay buffer (1000) | emit, on, iterators | synchronous dispatch |
| Sub-process backend | `orchestrator/backends/subprocess*.ts` | child processes, IPC | the same interface as the in-process one | orchestrator |
| Per-file lock | `services/file-lock.ts` | map from paths to semaphores with reference counts | withFileLock, clearFileLocks | FileEdit, FileWrite |
| File tools | `tools/File{Edit,Write,Restore}Tool`, `services/execution-env-local.ts` | the file on disk, stamps | edit with optimistic check, write, append, roll back | lock, journal, executor |
| Undo journal | `state/file-operation-journal.ts` | entries with old and new content, one per session | record, last, first | written after each batch by the query loop, read by FileRestore |
| Tool executor | `executors/toolExecutor.ts` | per-executor permits (5), process-wide permits for commands and network, session allow rules | batches, hooks, permission check, dialog, permits, timeout | query loop, tools, permission engine, UI |
| Permissions | `permissions/engine.ts`, `ui/components/AppRoot.tsx` | rules, permission mode, the queue of requests and the one in the dialog | decide, ask, answer, switch mode, detach the handler | tool executor |
| Session store | `services/replSession.ts`, `sessionManager.ts`, `memory/FileMemoryService.ts`, `main.ts` | session id, session files and their temporary files, saves in flight | throttled save, awaited save, last save, load, resume, new, clear | query loop (transcript), process signals |
| MCP client | `mcp/client-manager.ts`, `mcp/transports/stdio.ts`, `bootstrap/Bootstrap.ts` | connection status, attempts, transport, child processes, request tables with timers | connect, call, list, refresh, reconnect | tool registry, tool executor |
| Query loop | `query/QueryEngine*.ts`, `state/machine.ts` | state machine, turn counter and budget, gate counters, steer and follow-up queues, abort flag | submitMessage, abort, clear, restoreSession, steer, followUp, branch | conversation, compaction, executor, LLM client |
| Conversation | `query/QueryEngineState.ts` | messages, cached token counts | add, set, trim | session tree |
| Compaction | `query/QueryEngineCompaction.ts`, `services/compaction/functional.ts` | pending promise, its result, the count of messages at its start | trigger in the background, drain, reset, overflow truncation | replaces the transcript |
| Session tree, store | `state/session-tree.ts`, `state/store.ts` | branches; observable facts (tracked tools, 500 at most) | branch, checkout | conversation, UI |
| Circuit breaker, budget, reconnection | `services/circuitBreaker.ts`, `budget.ts`, `autoReconnect.ts` | breaker state and counters | record, may execute, wait and retry | query loop |
| API clients | `api/*` | open streams | stream a completion | query loop |
| Caches, memory, LSP, IM, ACP, plugins, rendering, bootstrap | see `PROJECT.json` | | | |

What is hard in this code:

- **Concurrency.** Sub-agents run side by side and share permits, the event bus
  and files. `cancel()`, timers and terminal events of one agent race. A
  compaction runs while messages are added. A steer arrives while tools run.
  Several calls ask the user at once, and there is one dialog. Calls of one MCP
  server that fail together reconnect together. A save that is not awaited runs
  beside one that is.
- **Suspension.** `spawn()` suspends in a lazy import with the runtime half
  entered; the report gate suspends in `resume()` while the resumed agent may
  already complete; a file tool suspends between reading and writing.
- **Failure.** Requests fail and are retried; contexts overflow and are cut;
  tools time out *and go on*; a spawn fails after it took its permit. A server's
  process ends between two requests; the program is killed between the truncation
  of a file and its rename; the UI goes away while it is being asked.
- **Ordering.** The journal is written after the batch, not when the file
  changes; permit listeners and trackers see the same event one after the other;
  a compaction's result is merged into a transcript that has moved on.
- **Boundedness.** Turns, retries, follow-ups, gates and extensions multiply;
  together they must still end.

`PROJECT.json` lists the hazards, each at its line, with the property
that covers it or the reason why none does.

What makes each component correct:

- *Semaphore*: permits are neither lost nor invented; first come, first served;
  who waits is served.
- *Orchestrator*: the same for spawn permits, through every way an agent may end;
  an agent that is still to be followed up keeps its permit; a tracker that is
  open has an event to come; the verdict of a tracker and the aggregator agree;
  one terminal event per turn; a verdict is not revised by a late event; promises
  settle.
- *File lock*: one call inside per path, and a map no larger than the calls in
  flight.
- *File tools*: a change is atomic for other agents; the journal is the history of
  what succeeded; a rollback puts back what the change replaced. The code falls short of
  the last two, and for one kind of append of the first; [below](#what-the-code-does-against-its-own-words).
- *Tool executor*: every call of a batch is answered; one that is not safe beside others
  runs alone; requests to the user are served in turn and none is lost; both kinds of
  permits are fair pools.
- *Session store*: what a save has kept is there after any crash, whole, and of its session.
- *MCP client*: whoever awaits a reply is known to a live transport, and gets one, an
  error or a timeout.
- *Conversation*: nothing lost, nothing doubled, nothing out of order.
- *Query loop*: it ends; it keeps to its budget; it does not ask the model what it
  has just answered; a result that comes follows its call.

## Modules

```
PermitPool ◄── Semaphore ────────── LockProofs ──► QueueLemmas
   ▲  ▲  ▲  ▲
   │  │  │  └── AgentOrchestrator ── AgentOrchestratorProofs
   │  │  └───── FileLock ─────────── LockProofs
   │  └──────── FileTools ────────── FileToolsProofs
   │               └──► AtomicFile
   └─────────── ToolExecutor ─────── ToolExecutorProofs
                   └──► Permissions
Conversation ◄── QueryEngine ─────── QueryEngineProofs
                 SessionStore ────── SessionStoreProofs
                 MCPClient ───────── MCPClientProofs
```

(`◄──` from a user to what it is shown to implement or extends; each component has
an `MC…` module for TLC.)

**PermitPool** is the abstract specification of every limiter in the program: a
pool of permits and a fair line. A client joins only while all permits are out,
and a returned permit goes to the head of the line in the same step. It is used
five times: `Semaphore`, `AgentOrchestrator`, `FileLock` and (twice) `ToolExecutor` are
shown to implement it, and `FileTools` uses it as its lock, so that the lock's own bookkeeping need
not be repeated there.

**Semaphore** (`utils/semaphore.ts`). `permits` and `waitQueue` are the fields;
`holding` is a ghost, the callers inside. `AcquireNow`, `AcquireLater`,
`AcquireTimeout`, `Release`. A caller queues at most once at a time, as
`withPermit()` does.

**AgentOrchestrator** (`agent-orchestrator.ts`, with the in-process backend, the
terminal-event guard and the aggregator it drives synchronously). An action is
one callback (an API call, a timer, an I/O event) with all the synchronous calls
it makes: a terminal event, for example, changes in one step the guard, the
tracker, the aggregator, the permit and the waiters. Promise continuations that a
callback leaves behind are actions of their own (`BackendSpawn`, `GateUnwinds`,
`GateAcceptsQueued`, …) and run before the next callback, which waits for
`Quiescent`. Among themselves they may run in any order, which includes the
order of the microtask queue. The semaphore is inlined with its state
(`permits`, `waitQueue`, `held`) because a release hands its permit over in the
middle of a larger step; `waitForAll`'s timeout releases many at once.
The gate's verdict on a report is a choice, and so is whether checking it throws; how often it
can ask for a follow-up turn is bounded by the code at two. A spawn may come at any time, also
after `shutdownAll()`. `waitForCompletion()` is modelled for agents that have a tracker; the other
path (agent-orchestrator.ts:470-515) is left to agents that are not registered yet, or no longer,
after `shutdownAll()`: it may put such an agent on record as timed out. The catch of a failing
registration (:176-180) is left out, since what it guards only fills maps and cannot throw.

**FileLock** (`services/file-lock.ts`). A map from paths to entry *objects*
(members of `Entries`, so that a call can hold a reference to an entry the map no
longer has), each with a permit, a queue and a reference count. `acquire()`
cannot throw here, since no timeout is passed. `clearFileLocks()` is documented
for tests with nothing in flight; `MapTracksCalls` says the map is empty then,
so under its contract it does nothing.

**FileTools** (`FileEditTool`, `FileWriteTool`, `FileRestoreTool`, the executor's
batches and timeouts, the journal). One file, since the tools never relate two.
The content of the file is the set of operations whose text it has: enough to see
an update lost, and to say what a rollback must put back. The stamp that FileEdit
compares is a version number that every write changes. Each agent carries out a
plan, a sequence of batches of calls; what each call turns out to be is a choice
made at the start. In a batch the calls that may run side by side come first, the
others follow one after the other. After the batch its successes enter the
journal (`Record`). `Unreadable` are the calls whose `access()`, `stat()` or `readFile()` may fail on
a file that is there: an edit then goes without its stamp, or ends; a write and a rollback take
the file to be absent; and an append writes its own text alone and succeeds (`Read`). An
append is journaled without the old content (`Entry`). `history` is a ghost: of each change what
was on disk (`old`), what the call had seen (`seen`) and what it left (`new`).
`Ended` stutters when all plans are carried out, so that TLC's
deadlock check finds calls that are stuck. **AtomicFile** is what the tools promise; the append
that cannot read is an alternative of its `Append`, since that is what the code does.

**Permissions** (`permissions/engine.ts`). `Decide` is the cascade of
`hasPermissionsToUseTool()`, a function of what the rules, the tool's own check and the
scan for protected places say of a call (`CallFacts`), of the mode, and of whether the
bypass is armed. `"classify"` leaves the decision to the classifier. What is decided is about the
call's own input, also where a hook replaces it afterwards (toolExecutor.ts:402-417, 483); and
what becomes of an "ask" is the executor's business. No property is stated of `Decide` alone:
`ToolExecutor` uses it.

**ToolExecutor** (`executors/toolExecutor.ts`, the dialog of `AppRoot.tsx`). `at` says
where each call of each executor is, from `new` to `settled`; an action is what a call does
between two waits. `BeginBatch` answers unknown tools and starts the safe calls, `TakeTurn`
the others one by one. `Check` reads rules and mode, which may have changed when `Follow`
acts on the verdict. `Ask`, `Answer`, `DetachHandler` and `SwitchMode` are the UI's side:
`asks` is its queue of requests, `shown` the request in the dialog. `Clear` takes a
process-wide permit for commands and network calls, `EnterLocal` one of the executor; the
holders are the calls at certain places and the lines are `globalLine` and `localLine`.
`Leave` returns both and lets the next calls in. A call that is aborted while it runs ends
as one whose tool throws. `Watched` stands for any executor, for the comparison
with the pool.

**SessionStore** (`services/replSession.ts`, `FileMemoryService.saveSession()`, the REPL
of `main.ts`). `transcript` stands for what `getMessages()` returns: whose session it is,
which revision, how long, whether it has a system message. A save is `Named`, `Open`,
`Write`, `Rename`; three may be in flight, the throttled one of a turn, the awaited one, and
the last one of a signal. Descriptors follow files through renames (`fd`), since overlapping
saves share one temporary file. `kept` is a ghost: the newest transcript of each session
whose save has ended; so is `overlapped`. `Crash` forgets all but the disk, `Resume` starts
the next process from it.

**MCPClient** (`mcp/client-manager.ts` over `transports/stdio.ts`). The tasks are the
connection that Bootstrap starts, calls of tools, and refreshes of the list; each makes at
most one transport, named after it. `pending` is the request table of each transport,
`reply` what a task awaits. `Started` goes on with the transport the connection has *by
then*, as the code does, so that overlapping reconnections are in the model. `Break` is
`handleTransportFailure()`: the end of the process, or of a pipe.

**Conversation** (`ConversationState`, `CompactionHandler`, `fullCompact`). A
message carries the set of numbers of the messages it stands for: one for a
message that was added, many for a summary. So "nothing is lost" is a statement
about a union of sets, and "in order, without duplicates" about numbers that
increase. `Trigger` takes a snapshot and the length; `Complete` lets a background
call end with nothing, an unchanged snapshot, or a summary; `Drain` merges.
`Trims` keeps the first system and the first user message as the code does;
`Shrink` is the overflow truncation, whose cut depends on tokens and is a choice.
`running` holds the calls in flight, which `reset()` forgets but does not stop.
`dropped` and `stale` are ghosts: what was given up on purpose, and whether the
transcript was cut or replaced under a running compaction. A stale compaction may lose
messages (`NothingLost` excepts it), but cannot reorder them: `Chronological` has no exception.

**QueryEngine** (the query loop) extends Conversation. `state` is the state machine's
state, `at` says where the loop is suspended: at its head, at the head of the retry
loop, waiting for a response, or waiting for tools. One action is what runs between
two of these places: a response, for example, is one step with the message, the
checkpoint, the reminders, the budget and the transition. The exit gates are
`ExitGates`, `CallGates` and `Verdicts`, in the order in which `decide()` asks them.
Local variables are set to 0 when they go out of scope. `Ceiling = 0` stands for all values <= 0,
with which the code has no ceiling (QueryEngine.ts:481-485). One tool message stands for
the results of a batch. The user may steer, queue follow-ups, abort at any moment,
and clear or restore the session between queries.

### Properties, by module

| Module | Property | Kind | What it says |
|---|---|---|---|
| Semaphore | `PermitsConserved` | invariant | free permits and holders add up |
| | `ImplementsPool` | refinement | it is the pool |
| | `WaiterServed` | liveness | no one waits for ever |
| AgentOrchestrator | `PermitsConserved`, `ImplementsPool` | invariant, refinement | through timeouts, cancels, failed spawns and shutdown |
| | `OpenRunHoldsPermit` | invariant | a run that is not over, follow-ups included, keeps permit and hook |
| | `VerdictsAgree` | invariant | tracker and aggregator tell the same story |
| | `OneTerminalEventPerTurn` | invariant | exactly one, whoever is first |
| | `NoLateResurrection` | action | a timed-out or cancelled agent stays so |
| | `PermitReturned`, `EverySpawnSettles`, `SpawnAnswered`, `WaitAllReturns` | liveness | permits come back, promises settle, queued spawns are answered, waitForAll wakes |
| FileLock | `MutualExclusion`, `MapTracksCalls` | invariant | one inside per path; an entry exactly while it is used |
| | `ImplementsLock`, `CallServed` | refinement, liveness | a fair one-permit pool per path |
| FileTools | `ImplementsAtomic` | refinement | edits, writes and appends of several agents are atomic, while all take the lock |
| | `JournalIsHistory` | invariant | the journal is the file's history, restricted to the calls it answers for, with two exceptions: contents of appends, order within a batch |
| | `RollbackTrue` | action | for an agent that makes one call at a time, undo and restore put back what its change replaced, as far as the journal knows it |
| | `UndoReverts` | action | the same without the exception for appends; fails |
| ToolExecutor | `PromptsInTurn` | invariant | the dialog shows the oldest request; none is lost or queued twice |
| | `LoneUnlessSafe` | invariant | a call that is not safe beside others overlaps with none of its batch |
| | `ImplementsPools` | refinement | the process-wide and the executor's permits are fair pools |
| | `EveryCallAnswered` | liveness | no dialog, line or batch gets stuck |
| SessionStore | `NothingSavedIsLost` | invariant | a session's file is whole, its own, and as new as its last save that ended |
| MCPClient | `NobodyForgotten` | invariant | whoever awaits a reply is on the books of one live transport |
| | `EverybodySettles` | liveness | calls and connections come to an end |
| Conversation | `NothingLost`, `Chronological` | invariant | no message lost, doubled or out of order |
| QueryEngine | `ImplementsConversation` | refinement | the loop touches the transcript only through its operations |
| | `TurnsBounded` | invariant | the turns keep to the budget, the budget to its ceiling |
| | `PromptIsFresh` | invariant | the model is not asked its own answer again |
| | `ResultsFollowCalls` | invariant | nothing comes between a call and its result |
| | `QueryEnds` | liveness | a query ends, if its budget has a ceiling or does not grow |
| each | `TypeOK`, `SemTypeOK` | invariant | types and ranges (proved too; those of FileLock and FileTools are parts of the invariants proved there) |

## Runs

TLC checks these; the numbers are distinct states.

| Run | Instance | States | What it shows |
|---|---|---|---|
| `semaphore` | six callers, two permits, timers | 982 | conservation, the pool is implemented (first come, first served), no starvation |
| `orchestrator_live` | two agents on one permit, one gated with two follow-ups; cancel, waitForAll; engine loaded | 14,981 | trackers, permits and turns stay consistent; permits come back, promises settle, waiters are answered |
| `orchestrator_cold` | three agents on two permits, one gated with one follow-up; cancel, waitForAll, shutdownAll; engine to be imported; agents without a gate symmetric | 3,327,997 | permits conserved, verdicts agree, one terminal event per turn, the pool is implemented, whatever fails |
| `filelock` | four calls, two paths | 2,097 | exclusion per path, a tight map, the pool is implemented, no starvation |
| `filetools` | two agents, five calls: two side by side, three one by one; edit, write, append, undo, restore; failures, timeouts, a read that fails | 2,393,381 | changes are atomic and journals are the file's history while nobody rolls back; rollbacks put back what they know |
| `filetools_append` | one agent: an append, then an undo | violation | `UndoReverts` fails |
| `engine_control` | one query: planning, retries, compactions, overflows, all gates, budget extension, two steers or follow-ups, abort | 1,617,870 | it ends, keeps its budget, asks nothing twice, keeps results with their calls |
| `engine_transcript` | two queries, a session change, a steer or follow-up, trims, overflows, compactions | 3,603,169 | nothing is lost, doubled or reordered; the conversation is implemented |
| `toolexecutor` | two executors, one with a user: two fetches and an edit; a command and a late tool; one executor permit each, two process-wide; hooks, a mode switch, teardown of the UI | 182,186 | requests served in turn, unsafe calls alone, pools implemented, every call answered |
| `sessions` | two sessions, two processes, three revisions, one failing file operation, kills at any step | 3,092,176 | what was saved survives |
| `mcp` | the connection, three calls and a refresh, two attempts; the server may fail anywhere | 1,503,363 | nobody waits on a dead server; everything settles |
| `mcp_loss` | the same with one call and no refresh | violation | `LossIsNoticed` fails |

Why these bounds are enough. *Semaphore*: six callers on two permits leave four in
the queue, so that a timeout may hit its front, middle and back. *Orchestrator*: one
permit makes two agents depend on one another, and two follow-ups let a completion
arrive while the handler of the one before is still suspended; the second run has a
third agent, so that a release of two permits at once finds one in line. The state
of an agent never depends on who else there is except through the permits. The
`live` run has the engine loaded, because with a cold start a permit can be lost
([below](#seen-while-modelling-without-a-run-of-their-own)) and liveness with it; the
`cold` run checks what survives. *File lock*: four calls on two paths: one inside, one queued and one that
arrives after the entry was dropped, beside another path. *File tools*: two agents
are the least that interleave. One has a batch of two, an append whose read may fail beside an
edit or a write, so that two writes of one batch may reach the disk in either order; the other
makes three calls one by one, which reach an undo of an undo, an undo of an append, and
a restore past two changes, while the first agent changes the file in between. One call of each
agent may outlast its timeout. The plans in which no call turns out to be a rollback are
those that `ImplementsAtomic` and `JournalIsHistory` speak of.
*Query engine*: the real limits (400 turns, ten retries, checkpoints every ten turns)
are scaled down to 2–3 each, keeping their order: the budget below the ceiling, the
extension past it, planning turns fewer than the budget, a checkpoint before the last
turn. `control` takes one query with every gate and counter, in which any request may overflow and
any transcript be compacted, so that the recovery is part of what must end. It has a ceiling:
without one, a query whose budget grows need not end, by intention (QueryEngine.ts:481-483), and its
states are infinitely many. `transcript` has none; it takes two queries with short limits
on length (a trim at 4 messages, a compaction that keeps 1), so that trims, overflows
and two compactions meet in one behaviour.
*Tool executor*: one permit per executor makes two safe calls of one batch queue for it
while each holds one of the two process-wide permits, so that the third call that needs one
(another executor's) waits for calls that wait themselves. Three calls of one batch leave a
request in the queue when one is answered and one when the UI goes away; the edit
comes after them. A tool that arrives late and one mode switch suffice, since each is
looked at once per call.
*Sessions*: a second session and a second process are needed for every confusion of
two; three revisions let a newer transcript exist while an older one is saved and a third
has been kept; one failure at any of the four steps of a save.
*MCP*: with three calls, two can reconnect at the same time while the third uses
either's transport, and the attempts run out.

Deadlock is checked for the semaphore, the file lock and the file tools. The executor
stops when all batches are answered, the MCP client when all calls are made, the REPL when
its last process is down. The orchestrator really stops when all agents are done and all operations used up, and the
query engine waits for the user when the bound on the user's acts is used up:
those configurations say `CHECK_DEADLOCK FALSE`. That nothing gets stuck on the way
is what their liveness properties say.

The bounds that are not in the code are named constants: `Agents`, `Calls`, `Entries`,
`Plan`, `Slow`, `Unreadable`, `MaxQueries`, `MaxQueued` and `MaxClears`, `MaxSwitches`, `MaxRevision`, `MaxStarts` and
`MaxFailures`, which limit how much users and
agents do, not what happens then.

Each property of each passing run has a *mutant*: a plausible bug in a definition
(operators with the comment "Bug for comparison"), which the property must catch.

## Fairness

- *Semaphore, file lock*: `WF(Release)`, `WF(Leave)`. Callers release in `finally`
  blocks, and the guarded functions (file operations) settle. No caller is
  obliged to come, and no timer to fire.
- *Orchestrator*: continuations always run; the import of the engine settles; the
  timer of an agent's loop fires unless it is cleared; a loop whose controller is
  aborted ends, since it leaves at its next event. No agent has to
  succeed, no caller to wait, no wait to time out.
- *Query engine*: `WF(Loop)`. The loop waits only for a request (which the
  five-minute timeout of the stream ends by an abort), for a retry delay, and for
  tools (which the executor's timeouts end). Steers, follow-ups and aborts
  are not fair, nor is the background compaction, for which the loop never waits.
- *Tool executor*: one `WF(\E c : Advance(c))`. No call is favoured: continuations run,
  hooks and the classifier answer, a running call ends or times out (`executeWithTimeout`),
  and the user answers what the dialog shows. That nobody is passed over for ever follows from the
  queues, not from fairness. No batch is obliged to begin, no mode to switch.
- *MCP client*: one `WF(\E t : Proceed(t))`: promises go on and request timers run out. Nothing
  obliges the server to answer, to stay or to end.
- *Sessions*: none; only safety is claimed.

## Proofs

TLAPS proves the following for all values of the constants. Everything rests on the
named assumptions (`ASSUME`) of the modules, which TLC evaluates in each run.

**LockProofs** has the semaphore and the file lock made of semaphores.
`SemaphoreInvariant` proves the inductive invariant `SemInv`.
Conservation alone is not inductive: a hand-over must add a *new* holder, which
needs waiters and holders to be disjoint, which needs that nobody is queued twice.
From it follow `TypeCorrect`, `Conservation`, `NobodyWaitsInVain`, `AccessLimited`,
and step by step `Refinement`: the semaphore implements `PermitPool`.
`QueueLemmas` says what push, shift, splice and several shifts at once do to a queue
without duplicates.
`FileLockInvariant` (`LocksInv`): reference counts are exact, no entry is under
two keys, each reference of a call in flight equals what the map has, and the queue
of an entry is exactly its waiting calls. The exact count is the point: an entry is
dropped only by its last user. Hence `Exclusion`, `MapIsTight` and `LockRefinesPool`.

**AgentOrchestratorProofs.** `PermitInvariant`: conservation, a queue without
duplicates that is empty beside a free permit, hooks only of holders, and for each
state of a `spawn()` call whether it holds or waits. Hence `SpawnPermitsConserved`,
`SpawnWaitsOnlyAtTheLimit` and `PermitsRefinePool`, for any number of agents and any
sequence of timeouts, cancellations and shutdowns, the cold start included.
`AgentInv` adds for each agent `Consistent`: what the place of its loop, its tracker, its
gate, its events and its entry in the aggregator say of one another: an open tracker
has an event to come, from a loop that runs or a gate that is deciding, unless a cancel came
during the import of the engine (`Doomed`); a loop that still runs after its event was
published has been aborted; a follow-up waits only when no loop runs; and the events published are
one for each follow-up and one for the event that is out. No part is inductive alone. Hence, without
hypotheses, `OrchestratorTypeCorrect`, `OneTerminalEvent` and `VerdictsNeverDisagree`.
Two theorems need one, and it says where the code is weaker than its comments:
`RunsHoldPermits` assumes `Calm`, that the engine is loaded before the first spawn or nobody
cancels, since an agent that is cancelled during the import is registered all the same and a
second `cancel()` takes its hook; `TimedOutStaysTimedOut` assumes `Prompt`, that it is loaded or
nobody calls `waitForAll()`, whose timeout during the import records an agent that
`spawn()` then registers as pending. The runs check both properties with the engine loaded.

**FileToolsProofs.** While no call is a rollback (`NoRollbacks`, since FileRestore takes no
lock), `ToolsInvariant`: the lock has at most one holder, and what a holder has read is what the
file contains until it writes, or it could not read the file and took it to be absent. Hence
`ToolsAreAtomic`, for any plans, failures and timeouts.
`JournalsAreHistory` proves `JournalIsHistory` for all agents, plans, batches and
interleavings, given that each call has one place in the plans (`Planned`). The invariant `JInv` has two
halves. Of the file: a call changes it at most once (`Once`), with the contents its local
variables still hold (`Known`), and not before the calls it waits for have a result
(`Waited`): all earlier ones of its agent but for the writes and appends of its own batch. So
successes are in the history in the order of the plan, up to those (`InTurn`); a late
call that timed out may fall behind, but is never recorded. Of the journal: it has the entries
of the successes in batches that are over, all of them, in the order of the plan (`JSound`,
`JComplete`, `JOrdered`). The bijection of the property follows. The property itself says what
the journal is not: of an append it has neither the content before nor the whole content after, of a
write that could not access the file not the content before, and between two writes of one
batch its order may be the wrong one. What `Only` selects is
defined by recursion on the length; that this recursion has a solution, and what it
is, are proved by the least counterexample (`LeastNumber`, `EveryNumber` in `QueueLemmas`).
`RollbacksAreTrue` proves `RollbackTrue`, rollbacks and appends included, for
plans, files and undos of undos of any length, again with `Planned`. The property speaks of agents
that make one call at a time, none of which has outlasted its timeout (`OneByOne`, `Prompt`); of the
other agents it asks nothing, who may have batches, time out and change the file
while a rollback is under way. What is put back is what the call that is rolled back *saw*
(`seen`): with the lock that is what was there, without it another agent's change may be lost. The
invariant `Kept` of such an agent says that only the call whose turn it is may be under way
(`InTurnOnly`); that what a rollback is about to put back is the old content in the last or first
entry of the journal, which cannot change meanwhile (`Aimed`); and that the entries tell what
the agent's changes replaced, but for one change that has been made and not yet recorded
(`UpToDate`). When a rollback writes there is no such change, which is why its target is right. In a batch
there may be one, and the code's undo then goes back one change too far.

**ToolExecutorProofs.** `ExecutorInvariant`: the dialog's queue and both kinds of lines hold
exactly the calls that are waiting in them, once each (`PromptsInTurn`, `GlobalLineMatches`,
`LocalLinesMatch`), and while a call that is not safe is underway, all calls of its batch
that go before it are answered (`TurnOrder`). The last is why such a call is alone: two of
them would each have to be answered before the other. The lines matter for all
parts, since the permits that a call returns move *other* calls on, and must not move one that
waits for the user or has not begun. Hence `ExecutorTypeCorrect`, `DialogServesInTurn`,
`UnsafeRunsAlone`, and step by step `PoolsRefined`, for the process-wide pool and any
executor's. The number of calls is finite
(`CallsAssumption`), so that holders can be counted.

**QueryEngineProofs.** First the conversation. `CInv`: while a compaction is pending its
snapshot is a prefix of the transcript as long as the count it remembers; once it is done, its
result covers exactly what this prefix covers, in order; and no number beyond `added` is in
use. The first is why a drain puts the right thing in the right place, the last why new
messages come after all others. What is covered holds only while the transcript was not cut
under the compaction (`~stale`); otherwise messages are lost, as told below. Order needs no
such condition: the result of a compaction is older than all that came after its snapshot.
Lemmas say what covering and order do under concatenation, selection, trimming and
summarising. Hence `ConvTypeCorrect`, `NoMessageLost` and `TranscriptChronological`.
Then the loop. `EInv` has three parts: `Control`, what each place of the loop says about the
state machine, the counters and the queues; `TInv`, that a number stands for one kind of message
and a tool result for the number after its call, wherever messages are kept (the transcript, a
snapshot, the result of a compaction); and `News`, what was said last at each place. Hence `EngineTypeCorrect`, `TurnsStayBounded`,
`PromptsAreFresh` and `ResultsStayWithCalls`, for every budget, extension, ceiling or none, number of
retries, planning turns and gates, and any acts of the user.
`LoopRefinesConversation`: each action of the loop is one operation of the conversation or
leaves it alone. So what was proved of the conversation holds of the engine:
`EngineLosesNothing`, `EngineChronological`.

**SessionStoreProofs.** `SessionInv`: types, and while saves have not overlapped `Sound`: at
most one save writes (`Alone`); what it has opened, written or is about to rename is a
transcript of the session it is named after (`SoundSave`); what is in memory is at least as new
as what was kept of its session (`SoundMemory`); and the file of each session is whole, its
own and no older than what was kept (`SoundDisk`). The four need one another: the rename
replaces a file, so what it brings must be as new as what it replaces, which is so because
memory never falls behind the disk, also after a restart or a change of session. Hence
`SessionTypeCorrect` and `SavedIsKept`, for any sessions, revisions, kills and failures.

**MCPClientProofs.** `MInv`: for each task `Booked`, what its place, its promise and the request
tables say of one another. A request is in one table, of a transport that has its process,
just while its task awaits the reply; a start is awaited only while its process is there. That
a task moves on only after its reply, so that it never has two requests, is what makes
this inductive; the transport that a task began with may have been replaced meanwhile, and it is
enough that there is *some* transport. Calls that are over are at least as many as notices
(`Noticed`). Hence `ClientTypeCorrect` and `NobodyIsForgotten`, for any finite number of
calls, any refreshes and attempts, however processes end and reconnections overlap.

Only model-checked: everything under fairness (`WaiterServed`, `PermitReturned`,
`EverySpawnSettles`, `SpawnAnswered`, `WaitAllReturns`, `CallServed`, `QueryEnds`,
`EveryCallAnswered`, `EverybodySettles`), which is beyond this prover.

## What the code does against its own words

Shown by a run (see `PROJECT.json`, findings):

- **The undo of an append removes the file** (`filetools_append`): an append is journaled with no
  old content (FileWriteTool/index.ts:32-37), which FileRestore takes for a file that was created
  (FileRestoreTool/index.ts:56-60, 103), while its head promises to "revert the most recent
  FileWrite/FileEdit/FileRestore" (:6).
- **A server is given up after one failed reconnection, without a word** (`mcp_loss`):
  `attemptReconnect()` leaves the status at `error` (client-manager.ts:294), which bars every
  later call (:154), so that neither the second attempt nor the notice that lines
  39-41 and 263 promise is ever reached.

## Seen while modelling, without a run of their own

- **A cancel during a cold start loses the permit**: the terminal event is out before
  `spawn()` registers its listener (agent-orchestrator.ts:154), and the guard swallows
  the later one. A second cancel then takes the hook of an agent whose tracker is open.
- A `waitForAll()` that times out during a cold start records "timed out" for an agent
  that `spawn()` registers as pending afterwards.
- **An append that cannot read the file replaces it and reports success**: any failure of
  `readFile()` is taken for a missing file (FileWriteTool/index.ts:42-47). `AtomicFile` and `FileTools` do
  the same. A plain write and a rollback take a file they cannot access to be absent, too.
- **The journal of a batch is not chronological**: two writes of one batch enter it in the order of
  the calls, whichever came first (file-operation-journal.ts:76), and a rollback in the same
  batch as an edit does not find the edit, which is recorded after the batch
  (QueryEngineExecution.ts:104-127), so that it goes back one change too far.
- **Two names of one file take two locks**: the key is `path.resolve()` (FileEditTool/index.ts:134,
  FileWriteTool/index.ts:84) although file-lock.ts:34-35 speaks of a realpath-resolved one. In the model
  all calls name the file alike.
- **A write that outlasts its timeout is never journaled** (toolExecutor.ts:679, against
  file-operation-journal.ts:3-5).
- **A compaction drained after an overflow loses messages**: the merge slices at the count
  taken before the cut (QueryEngineCompaction.ts:322, against 283-287). The models mark it
  `stale`.
- **A checkpoint hides pending tool calls** (QueryEngineTurnControl.ts:168,
  QueryEngineDecision.ts:37-38).
- **"Always allow" is not honoured** for a tool whose own check asks: the session rule is added
  (toolExecutor.ts:1015-1018), but the cascade answers "ask" before it looks at
  allow rules (engine.ts:127-146).
- **A saved session may be refused**: `restoreSession()` wants a system message
  (QueryEngine.ts:1223), which only the planning phase adds and a compaction may drop, while
  replSession.ts:139-140 takes any saved session for resumable; `runREPL` does not catch the error.
- Overlapping saves share one `.tmp` file: the renamed file may be empty or torn, a rename may
  find nothing, and the older snapshot may land last. `NothingSavedIsLost` holds until saves
  overlap.
- `/clear` keeps the session id, so the next save overwrites the session that was cleared.
- Plan mode does not stop a tool whose own check asks; approved calls that queue for a
  permit still run after an abort; a handler that goes away between check and call
  makes the call end with an error (toolExecutor.ts:440-449).
- Bootstrap's timeout does not cancel a connection, which goes on, but its tools are
  never registered. `tools/list_changed` refreshes the connection's list, not the registry.
- Overlapping reconnections replace one another's transport, and the process of the one
  replaced is never stopped. When more calls fail together than there are attempts, the notice of an
  unavailable server comes although no attempt has failed, and may come more than once
  (client-manager.ts:39 says once; `TypeOK` only bounds it by the number of calls).
- `waitForCompletion()`'s timeout gives the permit back while the agent's loop runs
  on (agent-orchestrator.ts:445, against the limit the comment at :115 speaks of).
- `waitForAll()`'s timeout records "timed out" and the shutdown rewrites it to
  "cancelled" (:603-608). A spawn that fails leaves its runtime active
  (in-process.ts:205). Spawns that were queued start after `shutdownAll()`.
- FileWrite in append mode also reports its own text as the whole new content
  (FileWriteTool/index.ts:37 against file-operation-journal.ts:20-23).
- FileRestore takes no lock (FileRestoreTool/index.ts:66): between an edit's check and its rename a
  rollback may change the file unseen, and the other way round.
- `reset()` does not stop a running compaction; its result turns up in the next
  session if a compaction is triggered there before it ends. The models have this
  behaviour, `stale` marks it.
- `fullCompact()` catches all failures, so the counter of failed compactions never
  moves in the background path.
- Tool calls of a planning turn are not run. A failing-tests gate goes ahead of
  pending tool calls, which are dropped (QueryEngineDecision.ts:202-239).
- A query over its token budget in the planning phase ends with an invalid transition,
  as an error (`PlanOverBudget`).
- Steers left over from one query, the engine's own reminders included, go
  into the next.
- An overflow on the last attempt cuts the transcript and then ends the turn without
  an answer (QueryEngine.ts:978).
- `branch()` records how long the parent was (session-tree.ts:68) and
  `getMessagesForNode()` reads all of it (:93-100).

## What is not modelled

Text: prompts, reports, summaries, formatting, token counts, diffs, patterns of permission
rules. Where text decides control (is the plan complete, does the report pass, did the tests
fail, is a place protected) the model has a choice or a constant. The sub-process backend;
`branch()` and `checkout()`; caches; API streams; LSP, IM and ACP bridges; memory extraction,
plugins, rendering. `PROJECT.json` says for each why. They are either pure I/O and rendering, or
sequential code with unit tests, or in the plan below.

In the models themselves: more than one file, and programs outside that change it; dry runs and listings of FileRestore;
`clear()` and `restoreSession()` in the middle of a query; `reset()` of the semaphore,
which only tests call; nested calls of `withFileLock()`, which no code makes; what a timed-out
tool still does, which is in `FileTools`, while `ToolExecutor` has its permits; the
Ink UI's own save of a session, archiving and pruning; the HTTP transport, `disconnect()` and
`healthCheck()` of MCP.

## Plan

1. *Composition*: the batches of `FileTools` become those of `ToolExecutor`, and its answers
   the `ToolsSettled` of `QueryEngine`.
2. *Session tree*: branches under `Conversation`, with the branch point.
3. *Circuit breaker* with parallel requests, *sub-process backend* (messages, exit of
   the child, kill timer), *caches*.
4. Theorems: the lock discipline of FileTools for the calls that lock, also beside rollbacks.
