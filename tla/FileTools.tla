----------------------------- MODULE FileTools ------------------------------
(***************************************************************************)
(* The tools that change files (FileEdit, FileWrite, FileRestore), run in  *)
(* batches by the query engines of several agents, over one file that they *)
(* share, with the per-file lock between them and an undo journal for each *)
(* agent.  One action is the code between two awaits of a tool.  A content *)
(* is the set of the operations whose text it has, {} when there is no     *)
(* file.  The lock is the pool of one permit that FileLock.tla implements; *)
(* its key is the resolved path, and every call names the file by the same *)
(* path here (two links to one file would take two locks).                 *)
(***************************************************************************)
EXTENDS Integers, FiniteSets, SequencesExt

CONSTANTS
  Agents,
  Ops,          \* the tool calls, each made by one agent
  Original,     \* the text of the file before the session
  Plan,         \* for each agent, its batches: a sequence of sequences of Ops
  Kinds,        \* the tools and modes each call may turn out to be
  Slow,         \* the calls that may outlast their timeout
  Unreadable    \* the calls for which access(), stat() or readFile() may fail
                \* on a file that is there

ASSUME OriginalAssumption == Original \notin Ops
ASSUME DiskAssumption == Slow \subseteq Ops /\ Unreadable \subseteq Ops
ASSUME KindsAssumption ==
  Kinds \in [Ops -> SUBSET {"edit", "write", "append", "undo", "restore"}]

VARIABLES
  file, version,  \* the content on disk, and what stat() shows of its history
  holders, line,  \* the lock of the file
  kind,         \* what each call is
  pc,           \* where it is: "todo", then before its "stat", "read", "check",
                \* "write" or "finish", then "over"
  stamp, local, target, \* its variables: what stat() and readFile() returned,
                \* and what a restore puts back
  result,       \* what the executor reports: "none" yet, "ok", "error", "timeout"
  batch,        \* the batch each agent is in
  journal,      \* the undo journal of each agent
  history       \* for the properties: the changes of the file, in order

vars == <<file, version, holders, line, kind, pc, stamp, local, target, result,
          batch, journal, history>>
toolVars == <<kind, batch>>

Absent   == {}
Contents == SUBSET (Ops \cup {Original})
NoStamp  == -1      \* stamp = null
Lock     == INSTANCE PermitPool WITH Clients <- Ops, MaxPermits <- 1

Locked(o)     == kind[o] \in {"edit", "write", "append"}
Concurrent(o) == kind[o] \in {"write", "append"}  \* isConcurrencySafe() by default
Proceeds(o, p) == pc[o] = p /\ (Locked(o) => o \in holders)

Init ==
  /\ file \in {Absent, {Original}}
  /\ version = 0
  /\ holders = {} /\ line = <<>>
  /\ kind \in {f \in [Ops -> UNION {Kinds[o] : o \in Ops}] : \A o \in Ops : f[o] \in Kinds[o]}
  /\ pc = [o \in Ops |-> "todo"]
  /\ stamp = [o \in Ops |-> 0]
  /\ local = [o \in Ops |-> Absent]
  /\ target = [o \in Ops |-> Absent]
  /\ result = [o \in Ops |-> "none"]
  /\ batch = [a \in Agents |-> 1]
  /\ journal = [a \in Agents |-> <<>>]
  /\ history = <<>>

-----------------------------------------------------------------------------
(* The executor's batch: the calls that may run side by side first, then   *)
(* the others one after the other, in the order of the calls.              *)

\* The entries of s that are in S, in their order.
Only(s, S) ==
  LET upTo[n \in 0..Len(s)] ==
        IF n = 0 THEN <<>>
        ELSE IF s[n] \in S THEN Append(upTo[n - 1], s[n]) ELSE upTo[n - 1]
  IN  upTo[Len(s)]

Current(a) == IF batch[a] <= Len(Plan[a]) THEN Plan[a][batch[a]] ELSE <<>>
Sorted(calls) == Only(calls, {o \in Ops : Concurrent(o)}) \o Only(calls, {o \in Ops : ~Concurrent(o)})
InOrder(a) == Sorted(Current(a))
Before(o, a) == {InOrder(a)[i] : i \in {j \in 1..Len(InOrder(a)) :
                    \E k \in (j + 1)..Len(InOrder(a)) : InOrder(a)[k] = o}}

Ready(o, a) ==
  /\ pc[o] = "todo"
  /\ o \in ToSet(Current(a))
  /\ Concurrent(o) \/ \A p \in Before(o, a) : result[p] # "none"

\* What the operation puts on disk, and the entry the journal gets for it.
NewContent(o) ==
  CASE kind[o] = "write"              -> {o}
    [] kind[o] \in {"edit", "append"} -> local[o] \cup {o}
    [] OTHER                          -> target[o]

\* FileWrite reports no old content and only its own text when it appends.
Entry(o) ==
  [op  |-> o,
   old |-> IF kind[o] = "append" THEN Absent ELSE local[o],
   new |-> IF kind[o] = "append" THEN {o} ELSE NewContent(o)]

Settle(o, r) ==
  result' = [result EXCEPT ![o] = IF @ = "none" THEN r ELSE @]

\* The call ends: the finally block of the lock, and the executor's result.
End(o, r) ==
  /\ pc' = [pc EXCEPT ![o] = "over"]
  /\ Settle(o, r)
  /\ IF Locked(o) THEN Lock!Return({o}) ELSE UNCHANGED <<holders, line>>

-----------------------------------------------------------------------------
(* One call *)

\* A hook, the permission rules, the user or the sandbox refuse the call, or
\* there is nothing in the journal to undo.
Refuse(o, a) ==
  /\ Ready(o, a)
  /\ pc' = [pc EXCEPT ![o] = "over"]
  /\ Settle(o, "error")
  /\ UNCHANGED <<file, version, holders, line, stamp, local, target, journal, history, toolVars>>

FirstStep(o) == IF kind[o] = "edit" THEN "stat" ELSE "read"

\* Bug for comparison: the tool works on the file without the lock.
StartUnlocked(o, a) ==
  /\ Ready(o, a)
  /\ Locked(o)
  /\ holders' = holders \cup {o}
  /\ pc' = [pc EXCEPT ![o] = FirstStep(o)]
  /\ UNCHANGED <<line, file, version, stamp, local, target, result, journal, history, toolVars>>

\* FileEdit and FileWrite ask for the lock of the path first.
Start(o, a) ==
  /\ Ready(o, a)
  /\ Locked(o)
  /\ Lock!Take(o) \/ Lock!Join(o)
  /\ pc' = [pc EXCEPT ![o] = FirstStep(o)]
  /\ UNCHANGED <<file, version, stamp, local, target, result, journal, history, toolVars>>

\* Bug for comparison: undo-last goes back to the first entry.
StartRollbackOldest(o, a) ==
  /\ Ready(o, a)
  /\ ~Locked(o)
  /\ journal[a] # <<>>
  /\ target' = [target EXCEPT ![o] = Head(journal[a]).old]
  /\ pc' = [pc EXCEPT ![o] = "read"]
  /\ UNCHANGED <<file, version, holders, line, stamp, local, result, journal, history, toolVars>>

\* FileRestore takes no lock; it picks the entry to roll back at once.
StartRollback(o, a) ==
  /\ Ready(o, a)
  /\ ~Locked(o)
  /\ journal[a] # <<>>
  /\ target' = [target EXCEPT ![o] = IF kind[o] = "undo" THEN Last(journal[a]).old
                                                         ELSE Head(journal[a]).old]
  /\ pc' = [pc EXCEPT ![o] = "read"]
  /\ UNCHANGED <<file, version, holders, line, stamp, local, result, journal, history, toolVars>>

\* FileEdit: the stamp of the file it is going to read, or none when stat()
\* fails, which is ignored.
Stat(o) ==
  /\ Proceeds(o, "stat")
  /\ file # Absent
  /\ \/ stamp' = [stamp EXCEPT ![o] = version]
     \/ o \in Unreadable /\ stamp' = [stamp EXCEPT ![o] = NoStamp]
  /\ pc' = [pc EXCEPT ![o] = "read"]
  /\ UNCHANGED <<file, version, holders, line, local, target, result, journal, history, toolVars>>

\* The content before the operation.  For FileWrite and FileRestore the file
\* need not exist, and they take it to be absent also when it cannot be
\* accessed; an append does so whatever readFile() fails with, and goes on.
Read(o) ==
  /\ Proceeds(o, "read")
  /\ kind[o] = "edit" => file # Absent
  /\ \/ local' = [local EXCEPT ![o] = file]
     \/ kind[o] # "edit" /\ o \in Unreadable /\ local' = [local EXCEPT ![o] = Absent]
  /\ pc' = [pc EXCEPT ![o] = IF kind[o] = "edit" THEN "check" ELSE "write"]
  /\ UNCHANGED <<file, version, holders, line, stamp, target, result, journal, history, toolVars>>

\* FileEdit: the file is still the one it read, or there is no stamp, or
\* stat() fails, because the file is gone or for another reason: the check
\* lets all that pass.
Check(o) ==
  /\ Proceeds(o, "check")
  /\ stamp[o] \in {version, NoStamp} \/ file = Absent \/ o \in Unreadable
  /\ pc' = [pc EXCEPT ![o] = "write"]
  /\ UNCHANGED <<file, version, holders, line, stamp, local, target, result, journal, history, toolVars>>

\* The rename in writeFileAtomic(), or the rm of a rollback, which is skipped
\* when the file was not there and does not mind when it is gone since.
Commit(o) ==
  /\ Proceeds(o, "write")
  /\ file' = IF NewContent(o) = Absent /\ local[o] = Absent THEN file ELSE NewContent(o)
  /\ version' = version + 1
  /\ history' = Append(history, [op |-> o, old |-> file, seen |-> local[o], new |-> file'])
  /\ pc' = [pc EXCEPT ![o] = "finish"]
  /\ UNCHANGED <<holders, line, stamp, local, target, result, journal, toolVars>>

\* A missing file, a string that is not there, a conflict, a directory that
\* cannot be made, a read (but for an append) or a write that fails.
Fail(o) ==
  /\ \E p \in {"stat", "read", "check", "write"} : Proceeds(o, p)
  /\ pc[o] = "check" => stamp[o] \notin {version, NoStamp} /\ file # Absent
  /\ End(o, "error")
  /\ UNCHANGED <<file, version, stamp, local, target, journal, history, toolVars>>

\* Success.  FileRestore records its own entry, the others leave that to the
\* end of the batch.
Finish(o, a) ==
  /\ Proceeds(o, "finish")
  /\ \E b \in 1..Len(Plan[a]) : o \in ToSet(Plan[a][b])
  /\ End(o, "ok")
  /\ journal' = IF Locked(o) THEN journal ELSE [journal EXCEPT ![a] = Append(@, Entry(o))]
  /\ UNCHANGED <<file, version, stamp, local, target, history, toolVars>>

\* The executor stops waiting; the tool goes on, with the lock.
Timeout(o) ==
  /\ o \in Slow
  /\ pc[o] \notin {"todo", "over"}
  /\ result[o] = "none"
  /\ result' = [result EXCEPT ![o] = "timeout"]
  /\ UNCHANGED <<file, version, holders, line, pc, stamp, local, target, journal, history, toolVars>>

-----------------------------------------------------------------------------
(* The query engine *)

\* Bug for comparison: the batch is recorded without looking at the results.
RecordEvenFailures(a) ==
  /\ batch[a] <= Len(Plan[a])
  /\ \A o \in ToSet(Current(a)) : result[o] # "none"
  /\ LET mutations == Only(InOrder(a), {o \in Ops : Locked(o)}) IN
     journal' = [journal EXCEPT ![a] = @ \o [i \in 1..Len(mutations) |-> Entry(mutations[i])]]
  /\ batch' = [batch EXCEPT ![a] = @ + 1]
  /\ UNCHANGED <<file, version, holders, line, kind, pc, stamp, local, target, result, history>>

\* Every call of the batch has a result: the writes and edits that succeeded
\* enter the journal, in the order of the results, and the next batch begins.
Record(a) ==
  /\ batch[a] <= Len(Plan[a])
  /\ \A o \in ToSet(Current(a)) : result[o] # "none"
  /\ LET mutations == Only(InOrder(a), {o \in Ops : Locked(o) /\ result[o] = "ok"}) IN
     journal' = [journal EXCEPT ![a] = @ \o [i \in 1..Len(mutations) |-> Entry(mutations[i])]]
  /\ batch' = [batch EXCEPT ![a] = @ + 1]
  /\ UNCHANGED <<file, version, holders, line, kind, pc, stamp, local, target, result, history>>

\* The plans are carried out, so that any other stop is a deadlock.
Ended ==
  /\ \A a \in Agents : batch[a] > Len(Plan[a])
  /\ \A o \in Ops : pc[o] = "over"
  /\ UNCHANGED vars

Next ==
  \/ \E a \in Agents :
       \/ Record(a)
       \/ \E o \in Ops : Refuse(o, a) \/ Start(o, a) \/ StartRollback(o, a) \/ Finish(o, a)
  \/ \E o \in Ops : Stat(o) \/ Read(o) \/ Check(o) \/ Commit(o) \/ Fail(o) \/ Timeout(o)
  \/ Ended

Spec == Init /\ [][Next]_vars

-----------------------------------------------------------------------------
(* Properties *)

OpsOf(a) == UNION {ToSet(Plan[a][b]) : b \in 1..Len(Plan[a])}
Changes(a) == Only(history, [op : OpsOf(a), old : Contents, seen : Contents, new : Contents])

NoRollbacks == \A o \in Ops : Locked(o)

\* While every call takes the lock, the tools change the file atomically, once
\* each, and none of them erases what another agent put there, whichever calls
\* time out or fail on the way (FileEditTool/index.ts:136-145, file-lock.ts:1-12),
\* with one exception: an append whose read fails (FileWriteTool/index.ts:42-47).
Atomic == INSTANCE AtomicFile WITH done <- {history[i].op : i \in 1..Len(history)}
ImplementsAtomic == Atomic!Init /\ [][NoRollbacks => Atomic!Next]_(Atomic!fileVars)

\* The calls of agent a that its journal answers for: the writes and edits
\* that reported success in a batch that is over, and the rollbacks.
Journaled(a) ==
  {o \in OpsOf(a) :
     IF Locked(o) THEN result[o] = "ok" /\ \E b \in 1..(batch[a] - 1) : o \in ToSet(Plan[a][b])
                  ELSE pc[o] = "over"}

\* Two writes or appends of one batch run at the same time.
SideBySide(o, p) ==
  /\ Concurrent(o) /\ Concurrent(p)
  /\ \E a \in Agents : \E b \in 1..Len(Plan[a]) : {o, p} \subseteq ToSet(Plan[a][b])

\* The entry tells what the file had before and after the change.  That of an
\* append has no old content and only the text it added; a write that could
\* not access the file has no old content either.
Records(entry, change) ==
  /\ entry.op = change.op
  /\ IF kind[change.op] = "append"
       THEN entry.old = Absent /\ entry.new = {change.op}
       ELSE /\ entry.new = change.new
            /\ \/ entry.old = change.old
               \/ change.op \in Unreadable /\ entry.old = Absent

\* While every call takes the lock, the journal of an agent has one entry for
\* each of these calls and none besides, with the contents of the file, and in
\* the order of the changes, whatever other agents and late calls do to the
\* file (file-operation-journal.ts:3-8).  The exceptions contradict lines 20-23
\* and 76 of that file: appends are recorded as if there had been no file, and
\* writes of one batch in the order of the calls, whichever came first.
JournalIsHistory ==
  NoRollbacks =>
    \A a \in Agents :
      LET own == {j \in DOMAIN history : history[j].op \in Journaled(a)}
      IN  \E place \in Bijection(DOMAIN journal[a], own) :
            \A i, k \in DOMAIN journal[a] :
              /\ Records(journal[a][i], history[place[i]])
              /\ i < k => \/ place[i] < place[k]
                          \/ SideBySide(journal[a][i].op, journal[a][k].op)

\* What a change replaced, as its call saw it and as an undo knows it: of an
\* append it does not know (FileWriteTool/index.ts:32-37).
Replaced(change) == IF kind[change.op] = "append" THEN Absent ELSE change.seen

\* Agent a makes one call at a time, and none has outlasted its timeout.
OneByOne(a) == \A b \in 1..Len(Plan[a]) : Len(Plan[a][b]) = 1
Prompt(a)   == \A o \in OpsOf(a) : result[o] # "timeout"

\* Content c is on disk; or there was no file to remove when o looked.
PutsBack(o, c) == file' = c \/ (c = Absent /\ local[o] = Absent /\ file' = file)

\* undo-last puts back what was in the file before the agent's most recent
\* change, also when that was itself an undo, and restore the state before its
\* first (FileRestoreTool/index.ts:4-12), whatever other agents do meanwhile,
\* for an agent that makes one call at a time and waits for its end.  The undo
\* of an append removes the file.
RollbackTrue ==
  [][\A a \in Agents : \A o \in OpsOf(a) :
       OneByOne(a) /\ Prompt(a) /\ pc[o] = "write" /\ pc'[o] = "finish" =>
         /\ kind[o] = "undo" => PutsBack(o, Replaced(Last(Changes(a))))
         /\ kind[o] = "restore" => PutsBack(o, Replaced(Head(Changes(a))))]_vars

\* What FileRestoreTool/index.ts:6 says without exception: undo-last reverts
\* the agent's most recent FileWrite, FileEdit or FileRestore.
UndoReverts ==
  [][\A a \in Agents : \A o \in OpsOf(a) :
       OneByOne(a) /\ Prompt(a) /\ kind[o] = "undo" /\ pc[o] = "write" /\ pc'[o] = "finish" =>
         PutsBack(o, Last(Changes(a)).seen)]_vars
=============================================================================
