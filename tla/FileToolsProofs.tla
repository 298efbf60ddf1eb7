-------------------------- MODULE FileToolsProofs ---------------------------
(***************************************************************************)
(* For any agents, calls, plans and batches: as long as every call takes   *)
(* the lock (no rollback), the tools change the file atomically, whatever  *)
(* times out, fails or is refused, and the undo journal of an agent is the *)
(* history of its changes, but for the order of writes made side by side.  *)
(* And a rollback of an agent that makes one call at a time puts back what *)
(* its journal should have, whatever the other agents do.                  *)
(***************************************************************************)
EXTENDS FileTools, QueueLemmas

Changed == [op : Ops, old : Contents, seen : Contents, new : Contents]
Entries == [op : Ops, old : Contents, new : Contents]

\* The inductive invariant.  What an operation has read is what is in the file
\* until it writes, because it holds the lock all that time and the lock has
\* one holder; unless it could not read the file and goes on without.
Typed ==
  /\ kind \in [Ops -> {"edit", "write", "append"}]
  /\ pc \in [Ops -> {"todo", "stat", "read", "check", "write", "finish", "over"}]
  /\ local \in [Ops -> Contents]
  /\ holders \subseteq Ops
  /\ line \in Seq(Ops)
  /\ history \in Seq(Changed)
  /\ file \in Contents

OneHolder ==
  /\ \A o, p \in holders : o = p
  /\ Distinct(line)
  /\ ToSet(line) \cap holders = {}

InFlight == \A o \in Ops : o \in holders \cup ToSet(line) <=> pc[o] \notin {"todo", "over"}

Holding == \A o \in Ops : pc[o] \in {"check", "write", "finish"} => o \in holders

ReadIsCurrent ==
  \A o \in Ops : pc[o] \in {"check", "write"} =>
    \/ local[o] = file /\ (kind[o] = "edit" => file # {})
    \/ local[o] = {} /\ kind[o] # "edit" /\ o \in Unreadable

Happened == {history[i].op : i \in 1..Len(history)}
DoneOnce == \A o \in Happened : pc[o] \in {"finish", "over"}

IInv == Typed /\ OneHolder /\ InFlight /\ Holding /\ ReadIsCurrent /\ DoneOnce

LEMMA SameOperators ==
  /\ \A S : Lock!Cardinality(S) = Cardinality(S)
  /\ \A q : Lock!ToSet(q) = ToSet(q)
<1>1. \A S : Lock!Cardinality(S) = Cardinality(S)
  BY DEF Lock!Cardinality, Cardinality
<1>2. \A q : Lock!ToSet(q) = ToSet(q)
  BY DEF Lock!ToSet, ToSet
<1> QED BY <1>1, <1>2

LEMMA EmptyQueue ==
  ASSUME NEW S
  PROVE  <<>> \in Seq(S) /\ Distinct(<<>>) /\ ToSet(<<>>) = {}
<1>1. <<>> \in Seq(S) /\ Len(<<>>) = 0
  OBVIOUS
<1>2. ToSet(<<>>) = {}
  BY <1>1, ToSetIndexed, Zenon
<1> QED BY <1>1, <1>2 DEF Distinct

LEMMA ElementInRange ==
  ASSUME NEW S, NEW s \in Seq(S), NEW i \in 1..Len(s)
  PROVE  s[i] \in S
OBVIOUS

LEMMA HappenedOps == Typed => Happened \subseteq Ops
<1> SUFFICES ASSUME Typed, NEW i \in 1..Len(history) PROVE history[i].op \in Ops
  BY DEF Happened
<1>1. history[i] \in Changed
  BY ElementInRange, Zenon DEF Typed
<1> QED BY <1>1 DEF Changed

LEMMA InitEstablishes == NoRollbacks /\ Init => IInv
<1> SUFFICES ASSUME NoRollbacks, Init PROVE IInv
  OBVIOUS
<1>1. kind \in [Ops -> {"edit", "write", "append"}]
  BY DEF Init, NoRollbacks, Locked
<1>2. Happened = {}
  <2>1. Len(history) = 0
    BY DEF Init
  <2> QED BY <2>1 DEF Happened
<1>3. Typed
  BY <1>1, EmptyQueue DEF Init, Typed, Contents, Absent
<1> QED BY <1>2, <1>3, EmptyQueue DEF Init, IInv, OneHolder, InFlight, Holding, ReadIsCurrent, DoneOnce

\* Giving the lock back passes it to at most one operation of the line.
LEMMA ReturnProperties ==
  ASSUME IInv, NEW o \in holders, Lock!Return({o})
  PROVE  /\ holders' \subseteq Ops /\ line' \in Seq(Ops) /\ Distinct(line')
         /\ \A p, q \in holders' : p = q
         /\ ToSet(line') \cap holders' = {}
         /\ holders' \cup ToSet(line') = ToSet(line)
         /\ o \notin ToSet(line) /\ holders = {o}
<1>1. /\ line \in Seq(Ops) /\ Distinct(line) /\ holders = {o} /\ o \notin ToSet(line)
  BY DEF IInv, Typed, OneHolder
<1>2. Cardinality({o}) = 1
  BY FS_Singleton
<1>3. holders' = Lock!Heirs(1) /\ line' = Lock!Rest(1)
  BY <1>1, <1>2, SameOperators DEF Lock!Return
<1>4. CASE line = <<>>
  <2>1. Lock!Heirs(1) = {}
    BY <1>4 DEF Lock!Heirs
  <2>2. SubSeq(line, 2, 0) = <<>>
    BY <1>4, SubSeqEmpty
  <2>3. Lock!Rest(1) = <<>>
    BY <1>4, <2>2 DEF Lock!Rest
  <2> QED BY <1>1, <1>3, <1>4, <2>1, <2>3, EmptyQueue
<1>5. CASE line # <<>>
  <2>1. /\ Head(line) = line[1]
        /\ Tail(line) = SubSeq(line, 2, Len(line))
        /\ 1 \in 1..Len(line)
    BY <1>1, <1>5, TailIsSubSeq
  <2>2. Lock!Heirs(1) = {Head(line)}
    BY <2>1 DEF Lock!Heirs
  <2>3. Lock!Rest(1) = Tail(line)
    BY <2>1 DEF Lock!Rest
  <2>4. /\ Head(line) \in ToSet(line) /\ Tail(line) \in Seq(Ops)
        /\ ToSet(Tail(line)) = ToSet(line) \ {Head(line)}
        /\ Distinct(Tail(line))
    BY <1>1, <1>5, ShiftProperties
  <2>5. ToSet(line) \subseteq Ops
    BY <1>1, ToSetIndexed
  <2>6. holders' = {Head(line)} /\ line' = Tail(line)
    BY <1>3, <2>2, <2>3
  <2> QED BY <1>1, <2>4, <2>5, <2>6
<1> QED BY <1>4, <1>5

\* Taking or joining puts the operation in flight and leaves the others alone.
LEMMA StartPreserves ==
  ASSUME IInv, NEW o \in Ops, NEW a \in Agents, Start(o, a)
  PROVE  IInv'
<1>1. /\ pc[o] = "todo" /\ o \notin holders \cup ToSet(line)
      /\ \E p \in {"stat", "read"} : pc' = [pc EXCEPT ![o] = p]
      /\ UNCHANGED <<file, local, history, kind>>
  BY SameOperators DEF Start, Ready, FirstStep, toolVars, IInv, InFlight
<1>2. /\ holders' \subseteq Ops /\ line' \in Seq(Ops) /\ Distinct(line')
      /\ \A p, q \in holders' : p = q
      /\ ToSet(line') \cap holders' = {}
      /\ holders' \cup ToSet(line') = holders \cup ToSet(line) \cup {o}
      /\ holders \subseteq holders'
  <2>1. CASE Lock!Take(o)
    <3>1. holders = {}
      <4>1. ~(Cardinality(holders) >= 1)
        <5>1. Cardinality(holders) < 1
          BY <2>1, SameOperators DEF Lock!Take
        <5>2. IsFiniteSet(holders)
          <6>1. holders = {} \/ \E p \in Ops : holders = {p}
            BY DEF IInv, Typed, OneHolder
          <6> QED BY <6>1, FS_EmptySet, FS_Singleton
        <5>3. Cardinality(holders) \in Nat
          BY <5>2, FS_CardinalityType
        <5> QED BY <5>1, <5>3
      <4>2. \A p \in Ops : holders = {p} => Cardinality(holders) = 1
        BY FS_Singleton
      <4>3. holders = {} \/ \E p \in Ops : holders = {p}
        BY DEF IInv, Typed, OneHolder
      <4> QED BY <4>1, <4>2, <4>3
    <3>2. holders' = {o} /\ line' = line
      BY <2>1, <3>1 DEF Lock!Take
    <3> QED BY <1>1, <3>1, <3>2 DEF IInv, Typed, OneHolder
  <2>2. CASE Lock!Join(o)
    <3>1. line' = Append(line, o) /\ holders' = holders
      BY <2>2 DEF Lock!Join
    <3>2. /\ line' \in Seq(Ops) /\ Distinct(line')
          /\ ToSet(line') = ToSet(line) \cup {o}
      BY <1>1, <3>1, PushProperties DEF IInv, Typed, OneHolder
    <3> QED BY <1>1, <3>1, <3>2 DEF IInv, Typed, OneHolder
  <2> QED BY <2>1, <2>2 DEF Start
<1>3. \A p \in Ops : p # o => pc'[p] = pc[p]
  BY <1>1 DEF IInv, Typed
<1>4. pc'[o] \in {"stat", "read"}
  BY <1>1 DEF IInv, Typed
<1>5. Typed'
  BY <1>1, <1>2 DEF IInv, Typed, Contents
<1>6. Happened' = Happened
  BY <1>1 DEF Happened
<1>7. OneHolder' /\ InFlight' /\ Holding' /\ ReadIsCurrent'
  BY <1>1, <1>2, <1>3, <1>4 DEF IInv, OneHolder, InFlight, Holding, ReadIsCurrent
<1>8. DoneOnce'
  <2>1. Happened \subseteq Ops
    BY HappenedOps DEF IInv
  <2> QED BY <1>1, <1>3, <1>6, <2>1 DEF IInv, DoneOnce
<1> QED BY <1>5, <1>7, <1>8 DEF IInv

\* The steps that end an operation give the lock back.
LEMMA EndPreserves ==
  ASSUME IInv, NEW o \in Ops, NEW r, pc[o] \notin {"todo", "over"}, o \in holders, End(o, r),
         UNCHANGED <<file, local, history, kind>>
  PROVE  IInv'
<1>1. /\ pc' = [pc EXCEPT ![o] = "over"] /\ Lock!Return({o})
  BY DEF End, Locked, IInv, Typed
<1>2. /\ holders' \subseteq Ops /\ line' \in Seq(Ops) /\ Distinct(line')
      /\ \A p, q \in holders' : p = q
      /\ ToSet(line') \cap holders' = {}
      /\ holders' \cup ToSet(line') = ToSet(line)
      /\ o \notin ToSet(line) /\ holders = {o}
  BY <1>1, ReturnProperties
<1>3. \A p \in Ops : pc'[p] = IF p = o THEN "over" ELSE pc[p]
  BY <1>1 DEF IInv, Typed
<1>4. Typed'
  BY <1>1, <1>2 DEF IInv, Typed, Contents
<1>5. OneHolder' /\ InFlight'
  BY <1>2, <1>3 DEF IInv, OneHolder, InFlight
<1>6. Holding' /\ ReadIsCurrent'
  BY <1>2, <1>3 DEF IInv, Holding, ReadIsCurrent
<1>7. DoneOnce'
  <2>1. Happened' = Happened /\ Happened \subseteq Ops
    BY HappenedOps DEF IInv, Happened
  <2> QED BY <1>3, <2>1 DEF IInv, DoneOnce
<1> QED BY <1>4, <1>5, <1>6, <1>7 DEF IInv

\* Reading, checking and stat leave the file and the lock alone.
LEMMA ReadingPreserves ==
  ASSUME IInv, NEW o \in Ops, Stat(o) \/ Read(o) \/ Check(o)
  PROVE  IInv'
<1>1. /\ o \in holders /\ pc[o] \in {"stat", "read", "check"}
      /\ UNCHANGED <<file, holders, line, history, kind>>
  BY DEF Stat, Read, Check, Proceeds, Locked, toolVars, IInv, Typed
<1>2. /\ \A p \in Ops : p # o => pc'[p] = pc[p] /\ local'[p] = local[p]
      /\ pc' \in [Ops -> {"todo", "stat", "read", "check", "write", "finish", "over"}]
      /\ pc'[o] \in {"read", "check", "write"}
      /\ local' \in [Ops -> Contents]
  <2>1. CASE Stat(o) \/ Check(o)
    BY <2>1 DEF Stat, Check, IInv, Typed
  <2>2. CASE Read(o)
    <3>1. PICK c \in Contents : local' = [local EXCEPT ![o] = c]
      BY <2>2 DEF Read, Absent, Contents, IInv, Typed
    <3> QED BY <2>2, <3>1 DEF Read, IInv, Typed
  <2> QED BY <2>1, <2>2
<1>3. pc'[o] \in {"check", "write"} =>
        \/ local'[o] = file /\ (kind[o] = "edit" => file # {})
        \/ local'[o] = {} /\ kind[o] # "edit" /\ o \in Unreadable
  <2>1. CASE Stat(o)
    BY <2>1 DEF Stat, IInv, Typed
  <2>2. CASE Read(o)
    <3>1. local'[o] = file \/ (local'[o] = Absent /\ kind[o] # "edit" /\ o \in Unreadable)
      BY <2>2 DEF Read, IInv, Typed
    <3> QED BY <2>2, <3>1 DEF Read, Absent
  <2>3. CASE Check(o)
    BY <2>3 DEF Check, Proceeds, IInv, ReadIsCurrent
  <2> QED BY <2>1, <2>2, <2>3
<1>4. Typed'
  BY <1>1, <1>2 DEF IInv, Typed, Contents
<1>5. OneHolder' /\ InFlight' /\ Holding' /\ ReadIsCurrent'
  BY <1>1, <1>2, <1>3 DEF IInv, OneHolder, InFlight, Holding, ReadIsCurrent
<1>6. DoneOnce'
  <2>1. Happened' = Happened /\ Happened \subseteq Ops
    BY <1>1, HappenedOps DEF IInv, Happened
  <2> QED BY <1>1, <1>2, <2>1 DEF IInv, DoneOnce
<1> QED BY <1>4, <1>5, <1>6 DEF IInv

\* A commit appends the operation to the history, and writes what it read
\* with its own mark.
LEMMA CommitFacts ==
  ASSUME IInv, NEW o \in Ops, Commit(o)
  PROVE  /\ o \in holders /\ pc[o] = "write" /\ o \notin Happened
         /\ file' = NewContent(o) /\ file' \in Contents /\ file' # {}
         /\ Happened' = Happened \cup {o}
         /\ history' \in Seq(Changed)
         /\ pc' = [pc EXCEPT ![o] = "finish"]
         /\ UNCHANGED <<holders, line, local, kind>>
<1>1. /\ Locked(o) /\ o \in holders /\ pc[o] = "write" /\ kind[o] \in {"edit", "write", "append"}
  BY DEF Commit, Proceeds, Locked, IInv, Typed
<1>2. NewContent(o) # {} /\ NewContent(o) \in Contents
  BY <1>1 DEF NewContent, Contents, IInv, Typed
<1>3. file' = NewContent(o) /\ o \notin Happened
  BY <1>1, <1>2 DEF Commit, Absent, IInv, DoneOnce
<1>4. PICK h \in Changed :
        h.op = o /\ history' = Append(history, h)
  <2>1. [op |-> o, old |-> file, seen |-> local[o], new |-> file'] \in Changed
    BY <1>2, <1>3 DEF IInv, Typed, Changed
  <2> QED BY <2>1 DEF Commit
<1>5. /\ history' \in Seq(Changed)
      /\ Len(history') = Len(history) + 1
      /\ \A i \in 1..Len(history) : history'[i] = history[i]
      /\ history'[Len(history) + 1] = h
      /\ Len(history) \in Nat
  BY <1>4, AppendProperties DEF IInv, Typed
<1>6. Happened' = Happened \cup {o}
  <2>1. 1..Len(history') = (1..Len(history)) \cup {Len(history) + 1}
    BY <1>5
  <2>2. \A i \in 1..Len(history') : history'[i].op = o \/ history'[i].op \in Happened
    BY <1>4, <1>5, <2>1 DEF Happened
  <2>3. \A i \in 1..Len(history) : i \in 1..Len(history') /\ history'[i].op = history[i].op
    BY <1>5, <2>1
  <2>4. Len(history) + 1 \in 1..Len(history') /\ history'[Len(history) + 1].op = o
    BY <1>4, <1>5, <2>1
  <2>5. Happened' = {history'[i].op : i \in 1..Len(history')}
    BY DEF Happened
  <2>6. \A x : x \in Happened' => x \in Happened \cup {o}
    BY <2>2, <2>5
  <2>7. \A x : x \in Happened => x \in Happened'
    BY <2>3, <2>5 DEF Happened
  <2>8. o \in Happened'
    BY <2>4, <2>5
  <2> QED BY <2>6, <2>7, <2>8
<1> QED BY <1>1, <1>2, <1>3, <1>5, <1>6 DEF Commit, toolVars

LEMMA CommitPreserves ==
  ASSUME IInv, NEW o \in Ops, Commit(o)
  PROVE  IInv'
<1>1. /\ o \in holders /\ pc[o] = "write"
      /\ file' \in Contents /\ file' # {}
      /\ Happened' = Happened \cup {o}
      /\ history' \in Seq(Changed)
      /\ pc' = [pc EXCEPT ![o] = "finish"]
      /\ UNCHANGED <<holders, line, local, kind>>
  BY CommitFacts
<1>2. \A p \in Ops : pc'[p] = IF p = o THEN "finish" ELSE pc[p]
  BY <1>1 DEF IInv, Typed
<1>3. Typed'
  BY <1>1 DEF IInv, Typed, Contents
<1>4. OneHolder' /\ InFlight' /\ Holding'
  BY <1>1, <1>2 DEF IInv, OneHolder, InFlight, Holding
<1>5. ReadIsCurrent'
  <2>1. \A p \in Ops : pc[p] \in {"check", "write"} => p = o
    BY <1>1 DEF IInv, OneHolder, Holding
  <2> QED BY <1>1, <1>2, <2>1 DEF ReadIsCurrent
<1>6. DoneOnce'
  <2>1. Happened \subseteq Ops
    BY HappenedOps DEF IInv
  <2> QED BY <1>1, <1>2, <2>1 DEF IInv, DoneOnce
<1> QED BY <1>3, <1>4, <1>5, <1>6 DEF IInv

\* Steps of the executor and the engine that touch none of these variables,
\* or only end a call that never began.
LEMMA OthersPreserve ==
  ASSUME IInv, UNCHANGED <<file, holders, line, kind, local, history>>,
         \/ UNCHANGED pc
         \/ \E o \in Ops : pc[o] = "todo" /\ pc' = [pc EXCEPT ![o] = "over"]
  PROVE  IInv'
<1>1. Happened' = Happened /\ Happened \subseteq Ops
  BY HappenedOps DEF IInv, Happened
<1>2. CASE UNCHANGED pc
  BY <1>1, <1>2 DEF IInv, Typed, Contents, OneHolder, InFlight, Holding, ReadIsCurrent, DoneOnce
<1>3. ASSUME NEW o \in Ops, pc[o] = "todo", pc' = [pc EXCEPT ![o] = "over"]
      PROVE  IInv'
  <2>1. \A p \in Ops : pc'[p] = IF p = o THEN "over" ELSE pc[p]
    BY <1>3 DEF IInv, Typed
  <2>2. Typed'
    BY <1>3 DEF IInv, Typed, Contents
  <2>3. OneHolder' /\ InFlight' /\ Holding' /\ ReadIsCurrent' /\ DoneOnce'
    BY <1>1, <1>3, <2>1 DEF IInv, OneHolder, InFlight, Holding, ReadIsCurrent, DoneOnce
  <2> QED BY <2>2, <2>3 DEF IInv
<1> QED BY <1>2, <1>3

LEMMA StepPreserves == IInv /\ [Next]_vars => IInv'
<1> SUFFICES ASSUME IInv, [Next]_vars PROVE IInv'
  OBVIOUS
<1>1. CASE UNCHANGED vars
  BY <1>1, OthersPreserve DEF vars
<1>2. ASSUME NEW a \in Agents, Record(a) PROVE IInv'
  BY <1>2, OthersPreserve DEF Record
<1>3. ASSUME NEW a \in Agents, NEW o \in Ops, Refuse(o, a) PROVE IInv'
  BY <1>3, OthersPreserve DEF Refuse, Ready, toolVars
<1>4. ASSUME NEW a \in Agents, NEW o \in Ops, StartRollback(o, a) PROVE FALSE
  BY <1>4 DEF StartRollback, Locked, IInv, Typed
<1>5. ASSUME NEW a \in Agents, NEW o \in Ops, Finish(o, a) PROVE IInv'
  <2>1. pc[o] = "finish" /\ o \in holders
    BY <1>5 DEF Finish, Proceeds, Locked, IInv, Typed
  <2> QED BY <1>5, <2>1, EndPreserves DEF Finish, toolVars
<1>6. ASSUME NEW o \in Ops, Fail(o) PROVE IInv'
  <2>1. pc[o] \notin {"todo", "over"} /\ o \in holders
    BY <1>6 DEF Fail, Proceeds, Locked, IInv, Typed
  <2> QED BY <1>6, <2>1, EndPreserves DEF Fail, toolVars
<1>7. ASSUME NEW o \in Ops, Timeout(o) PROVE IInv'
  BY <1>7, OthersPreserve DEF Timeout, toolVars
<1>8. CASE Ended
  BY <1>8, OthersPreserve DEF Ended, vars
<1> QED
  BY <1>1, <1>2, <1>3, <1>4, <1>5, <1>6, <1>7, <1>8, StartPreserves, ReadingPreserves,
     CommitPreserves DEF Next

\* What a call is does not change.
LEMMA KindStays == [Next]_vars => UNCHANGED kind
BY DEF Next, Record, Refuse, Start, StartRollback, Finish, Stat, Read, Check, Commit, Fail, Timeout,
       Ended, toolVars, vars

LEMMA LockedStep == (NoRollbacks => IInv) /\ [Next]_vars => (NoRollbacks => IInv)'
<1> SUFFICES ASSUME NoRollbacks => IInv, [Next]_vars, NoRollbacks' PROVE IInv'
  OBVIOUS
<1>1. NoRollbacks
  BY KindStays DEF NoRollbacks, Locked
<1> QED BY <1>1, StepPreserves

\* While every call takes the lock, what an operation has read stays current
\* until it writes, or it could not read the file and writes all the same
\* (FileEditTool/index.ts:39-124, FileWriteTool/index.ts:36-58, file-lock.ts:41-66).
THEOREM ToolsInvariant == Spec => [](NoRollbacks => IInv)
<1>1. Init => (NoRollbacks => IInv)
  BY InitEstablishes
<1> QED BY <1>1, LockedStep, PTL DEF Spec

\* The tools implement atomic changes of the file: every commit is one edit,
\* append or write of the content at that moment, or an append that takes the
\* file to be absent since it cannot read it, and every other step leaves the
\* file alone (FileEditTool/index.ts:32-35 and 136-145, FileWriteTool/index.ts:36-58).
THEOREM ToolsAreAtomic == Spec => ImplementsAtomic
<1>1. Init => Atomic!Init
  <2> SUFFICES ASSUME Init PROVE Atomic!Init
    OBVIOUS
  <2>1. Len(history) = 0
    BY DEF Init
  <2> QED BY <2>1 DEF Atomic!Init
<1>2. ASSUME IInv, [Next]_vars
      PROVE  [Atomic!Next]_(Atomic!fileVars)
  <2>1. ASSUME NEW o \in Ops, Commit(o) PROVE Atomic!Next
    <3>1. /\ pc[o] = "write" /\ o \notin Happened
          /\ file' = NewContent(o)
          /\ Happened' = Happened \cup {o}
          /\ kind' = kind
      BY <1>2, <2>1, CommitFacts
    <3>2. /\ kind[o] \in {"edit", "write", "append"}
          /\ \/ local[o] = file /\ (kind[o] = "edit" => file # {})
             \/ local[o] = {} /\ kind[o] # "edit" /\ o \in Unreadable
      BY <1>2, <3>1 DEF IInv, Typed, ReadIsCurrent
    <3>3. Atomic!Edit(o) \/ Atomic!Append(o) \/ Atomic!Write(o)
      BY <3>1, <3>2 DEF Atomic!Edit, Atomic!Append, Atomic!Write, NewContent
    <3> QED BY <3>1, <3>3 DEF Atomic!Next, Happened
  <2>2. CASE UNCHANGED <<file, history, kind>>
    BY <2>2 DEF Atomic!fileVars
  <2>3. CASE UNCHANGED vars
    BY <2>2, <2>3 DEF vars
  <2>4. ASSUME NEW a \in Agents, NEW o \in Ops,
               Refuse(o, a) \/ Start(o, a) \/ StartRollback(o, a) \/ Finish(o, a)
        PROVE  UNCHANGED <<file, history, kind>>
    BY <2>4 DEF Refuse, Start, StartRollback, Finish, toolVars
  <2>5. ASSUME NEW o \in Ops, Stat(o) \/ Read(o) \/ Check(o) \/ Fail(o) \/ Timeout(o)
        PROVE  UNCHANGED <<file, history, kind>>
    BY <2>5 DEF Stat, Read, Check, Fail, Timeout, toolVars
  <2>6. ASSUME NEW a \in Agents, Record(a) PROVE UNCHANGED <<file, history, kind>>
    BY <2>6 DEF Record
  <2>7. CASE Ended
    BY <2>2, <2>7 DEF Ended, vars
  <2> QED BY <1>2, <2>1, <2>2, <2>3, <2>4, <2>5, <2>6, <2>7 DEF Next
<1>3. (NoRollbacks => IInv) /\ [Next]_vars => [NoRollbacks => Atomic!Next]_(Atomic!fileVars)
  BY <1>2
<1> QED BY <1>1, <1>3, ToolsInvariant, PTL DEF Spec, ImplementsAtomic

-----------------------------------------------------------------------------
(* What Only selects *)

\* How Only goes through a sequence: f[i] is what it has selected of the first i.
SelectStep(s, S, f, i) ==
  IF i = 0 THEN <<>> ELSE IF s[i] \in S THEN Append(f[i - 1], s[i]) ELSE f[i - 1]
Selects(s, S, f, n) == f = [i \in 0..n |-> SelectStep(s, S, f, i)]

LEMMA SelectionExists ==
  ASSUME NEW s, NEW S, NEW N \in Nat
  PROVE  \E f : Selects(s, S, f, N)
<1>1. PICK T : T = {n \in Nat : \E f : Selects(s, S, f, n)}
  OBVIOUS
<1>2. 0 \in T
  <2>1. PICK f : f = [i \in 0..0 |-> <<>>]
    OBVIOUS
  <2>2. ASSUME NEW i \in 0..0 PROVE SelectStep(s, S, f, i) = <<>>
    <3>1. i = 0
      OBVIOUS
    <3> QED BY <3>1 DEF SelectStep
  <2>3. f = [i \in 0..0 |-> SelectStep(s, S, f, i)]
    BY <2>1, <2>2
  <2> QED BY <1>1, <2>3 DEF Selects
<1>3. ASSUME NEW n \in Nat, n \in T PROVE n + 1 \in T
  <2>1. PICK f : Selects(s, S, f, n)
    BY <1>1, <1>3
  <2>2. PICK g : g = [i \in 0..(n + 1) |-> SelectStep(s, S, f, i)]
    OBVIOUS
  <2>3. ASSUME NEW i \in 0..n PROVE g[i] = f[i]
    <3>1. i \in 0..(n + 1)
      OBVIOUS
    <3>2. f[i] = SelectStep(s, S, f, i)
      BY <2>1, Zenon DEF Selects
    <3> QED BY <2>2, <3>1, <3>2, Zenon
  <2>4. ASSUME NEW i \in 0..(n + 1) PROVE SelectStep(s, S, f, i) = SelectStep(s, S, g, i)
    <3>1. i = 0 \/ i - 1 \in 0..n
      OBVIOUS
    <3>2. i = 0 \/ f[i - 1] = g[i - 1]
      BY <2>3, <3>1
    <3> QED BY <3>2 DEF SelectStep
  <2>5. Selects(s, S, g, n + 1)
    BY <2>2, <2>4, Zenon DEF Selects
  <2> QED BY <1>1, <2>5
<1>4. Nat \subseteq T
  BY <1>2, <1>3, EveryNumber
<1> QED BY <1>1, <1>4

\* c is what of the first n entries of s is in S, in their order.
Part(c, s, S, n) ==
  /\ \A i \in 1..Len(c) : \E x \in 1..n : c[i] = s[x] /\ s[x] \in S
  /\ \A x \in 1..n : s[x] \in S => \E i \in 1..Len(c) : c[i] = s[x]
  /\ \A i, k \in 1..Len(c) : i < k => \E x, y \in 1..n : x < y /\ c[i] = s[x] /\ c[k] = s[y]

LEMMA PartGrows ==
  ASSUME NEW U, NEW s \in Seq(U), NEW S, NEW c \in Seq(U), NEW n \in 1..Len(s), Part(c, s, S, n - 1),
         NEW d, d = IF s[n] \in S THEN Append(c, s[n]) ELSE c
  PROVE  d \in Seq(U) /\ Part(d, s, S, n)
<1>1. /\ n \in Nat /\ n - 1 \in Nat /\ n \in 1..n /\ \A x \in 1..(n - 1) : x \in 1..n /\ x < n
      /\ \A x \in 1..n : x = n \/ x \in 1..(n - 1)
  OBVIOUS
<1>2. s[n] \in U
  OBVIOUS
<1>3. CASE s[n] \notin S
  <2>1. d = c
    BY <1>3
  <2>2. \A i \in 1..Len(d) : \E x \in 1..n : d[i] = s[x] /\ s[x] \in S
    BY <1>1, <2>1 DEF Part
  <2>3. \A x \in 1..n : s[x] \in S => \E i \in 1..Len(d) : d[i] = s[x]
    BY <1>1, <1>3, <2>1 DEF Part
  <2>4. \A i, k \in 1..Len(d) : i < k => \E x, y \in 1..n : x < y /\ d[i] = s[x] /\ d[k] = s[y]
    BY <1>1, <2>1 DEF Part
  <2> QED BY <2>1, <2>2, <2>3, <2>4 DEF Part
<1>4. CASE s[n] \in S
  <2>1. d = Append(c, s[n]) /\ d \in Seq(U)
    BY <1>2, <1>4
  <2>2. /\ Len(c) \in Nat /\ Len(d) = Len(c) + 1 /\ d[Len(c) + 1] = s[n]
        /\ \A i \in 1..Len(c) : d[i] = c[i]
    BY <2>1, <1>2, AppendProperties
  <2>3. /\ \A i \in 1..Len(d) : i \in 1..Len(c) \/ i = Len(c) + 1
        /\ \A i \in 1..Len(c) : i \in 1..Len(d)
        /\ Len(c) + 1 \in 1..Len(d)
        /\ \A i, k \in 1..Len(d) : i < k => i \in 1..Len(c)
    BY <2>2
  <2>4. \A i \in 1..Len(d) : \E x \in 1..n : d[i] = s[x] /\ s[x] \in S
    BY <1>1, <1>4, <2>2, <2>3 DEF Part
  <2>5. \A x \in 1..n : s[x] \in S => \E i \in 1..Len(d) : d[i] = s[x]
    BY <1>1, <2>2, <2>3 DEF Part
  <2>6. ASSUME NEW i \in 1..Len(d), NEW k \in 1..Len(d), i < k
        PROVE  \E x, y \in 1..n : x < y /\ d[i] = s[x] /\ d[k] = s[y]
    <3>1. i \in 1..Len(c) /\ d[i] = c[i]
      BY <2>2, <2>3, <2>6
    <3>2. CASE k \in 1..Len(c)
      <4>1. PICK x \in 1..(n - 1), y \in 1..(n - 1) : x < y /\ c[i] = s[x] /\ c[k] = s[y]
        BY <2>6, <3>1, <3>2 DEF Part
      <4>2. x \in 1..n /\ y \in 1..n /\ d[k] = c[k]
        BY <1>1, <2>2, <3>2
      <4> QED BY <3>1, <4>1, <4>2
    <3>3. CASE k = Len(c) + 1
      <4>1. PICK x \in 1..(n - 1) : c[i] = s[x]
        BY <3>1 DEF Part
      <4>2. x \in 1..n /\ n \in 1..n /\ x < n
        BY <1>1
      <4>3. d[i] = s[x] /\ d[k] = s[n]
        BY <2>2, <3>1, <3>3, <4>1
      <4> QED BY <4>2, <4>3
    <3> QED BY <2>3, <3>2, <3>3
  <2> QED BY <2>1, <2>4, <2>5, <2>6 DEF Part
<1> QED BY <1>3, <1>4

LEMMA OnlySelects ==
  ASSUME NEW U, NEW s \in Seq(U), NEW S
  PROVE  \E f : Selects(s, S, f, Len(s)) /\ Only(s, S) = f[Len(s)]
<1>1. Len(s) \in Nat
  OBVIOUS
<1>2. PICK g : g = CHOOSE f : Selects(s, S, f, Len(s))
  OBVIOUS
<1>3. Selects(s, S, g, Len(s))
  BY <1>1, <1>2, SelectionExists, Zenon
<1>4. Only(s, S) = g[Len(s)]
  BY <1>2 DEF Only, Selects, SelectStep
<1> QED BY <1>3, <1>4

LEMMA OnlyIsPart ==
  ASSUME NEW U, NEW s \in Seq(U), NEW S
  PROVE  Only(s, S) \in Seq(U) /\ Part(Only(s, S), s, S, Len(s))
<1>1. Len(s) \in Nat
  OBVIOUS
<1>2. PICK f : Selects(s, S, f, Len(s)) /\ Only(s, S) = f[Len(s)]
  BY OnlySelects
<1>3. ASSUME NEW i \in 0..Len(s) PROVE f[i] = SelectStep(s, S, f, i)
  BY <1>2, Zenon DEF Selects
<1>4. PICK T : T = {n \in Nat : n \in 0..Len(s) => f[n] \in Seq(U) /\ Part(f[n], s, S, n)}
  OBVIOUS
<1>5. 0 \in T
  <2>1. 0 \in 0..Len(s) /\ f[0] = SelectStep(s, S, f, 0)
    BY <1>1, <1>3
  <2>2. f[0] = <<>>
    BY <2>1 DEF SelectStep
  <2>3. <<>> \in Seq(U) /\ Len(<<>>) = 0 /\ 1..0 = {}
    OBVIOUS
  <2>4. Part(<<>>, s, S, 0)
    BY <2>3 DEF Part
  <2>5. f[0] \in Seq(U) /\ Part(f[0], s, S, 0)
    BY <2>2, <2>3, <2>4, Zenon
  <2> QED BY <1>4, <2>5
<1>6. ASSUME NEW n \in Nat, n \in T PROVE n + 1 \in T
  <2>1. ASSUME n + 1 \in 0..Len(s)
        PROVE  f[n + 1] \in Seq(U) /\ Part(f[n + 1], s, S, n + 1)
    <3>1. n \in 0..Len(s) /\ n + 1 \in 1..Len(s) /\ (n + 1) - 1 = n /\ n + 1 # 0
      BY <1>1, <2>1
    <3>2. PICK c \in Seq(U) : c = f[n] /\ Part(c, s, S, (n + 1) - 1)
      BY <1>4, <1>6, <3>1
    <3>3. f[n + 1] = IF s[n + 1] \in S THEN Append(c, s[n + 1]) ELSE c
      BY <1>3, <2>1, <3>1, <3>2 DEF SelectStep
    <3> QED BY <3>1, <3>2, <3>3, PartGrows
  <2> QED BY <1>4, <2>1
<1>7. Nat \subseteq T
  BY <1>5, <1>6, EveryNumber
<1>8. Len(s) \in T /\ Len(s) \in 0..Len(s)
  BY <1>1, <1>7
<1> QED BY <1>2, <1>4, <1>8

\* The entries that are selected, each once and in their order.
LEMMA OnlyProperties ==
  ASSUME NEW U, NEW s \in Seq(U), NEW S, Distinct(s)
  PROVE  /\ Only(s, S) \in Seq(U)
         /\ \A i \in 1..Len(Only(s, S)) : Only(s, S)[i] \in S /\ \E x \in 1..Len(s) : Only(s, S)[i] = s[x]
         /\ \A x \in 1..Len(s) : s[x] \in S => \E i \in 1..Len(Only(s, S)) : Only(s, S)[i] = s[x]
         /\ \A i, k \in 1..Len(Only(s, S)) : \A x, y \in 1..Len(s) :
              i < k /\ Only(s, S)[i] = s[x] /\ Only(s, S)[k] = s[y] => x < y
         /\ Distinct(Only(s, S))
<1>1. PICK c \in Seq(U) : c = Only(s, S) /\ Part(c, s, S, Len(s))
  BY OnlyIsPart
<1>2. ASSUME NEW i \in 1..Len(c), NEW k \in 1..Len(c), NEW x \in 1..Len(s), NEW y \in 1..Len(s),
             i < k, c[i] = s[x], c[k] = s[y]
      PROVE  x < y
  <2>1. PICK v \in 1..Len(s), w \in 1..Len(s) : v < w /\ c[i] = s[v] /\ c[k] = s[w]
    BY <1>1, <1>2 DEF Part
  <2>2. v = x /\ w = y
    BY <1>2, <2>1 DEF Distinct
  <2> QED BY <2>1, <2>2
<1>3. Distinct(c)
  <2>1. SUFFICES ASSUME NEW i \in 1..Len(c), NEW k \in 1..Len(c), c[i] = c[k], i < k PROVE FALSE
    BY DEF Distinct
  <2>2. PICK v \in 1..Len(s), w \in 1..Len(s) : v < w /\ c[i] = s[v] /\ c[k] = s[w]
    BY <1>1, <2>1 DEF Part
  <2>3. v = w
    BY <2>1, <2>2 DEF Distinct
  <2> QED BY <2>2, <2>3
<1> QED BY <1>1, <1>2, <1>3 DEF Part

-----------------------------------------------------------------------------
(* The journal *)

\* Every call has one place in the plans.
Planned ==
  /\ Plan \in [Agents -> Seq(Seq(Ops))]
  /\ \A a, b \in Agents : \A m \in 1..Len(Plan[a]), n \in 1..Len(Plan[b]) :
     \A i \in 1..Len(Plan[a][m]), k \in 1..Len(Plan[b][n]) :
       Plan[a][m][i] = Plan[b][n][k] => a = b /\ m = n /\ i = k

\* Call o of agent a is at position i of its batch m, call p at position k of
\* its batch n, in the order in which the calls of a batch are taken.
At(a, o, m, i, p, n, k) ==
  /\ m \in 1..Len(Plan[a]) /\ i \in 1..Len(Sorted(Plan[a][m])) /\ Sorted(Plan[a][m])[i] = o
  /\ n \in 1..Len(Plan[a]) /\ k \in 1..Len(Sorted(Plan[a][n])) /\ Sorted(Plan[a][n])[k] = p

\* Call o comes before call p; and p waits for the end of o.
Earlier(a, o, p) == \E m, i, n, k \in Nat : At(a, o, m, i, p, n, k) /\ (m < n \/ (m = n /\ i < k))
Waits(a, o, p) ==
  \E m, i, n, k \in Nat : At(a, o, m, i, p, n, k) /\ (m < n \/ (m = n /\ i < k /\ ~Concurrent(p)))

\* The calls that the journal of agent a is to have.
Recorded(a, o) ==
  /\ result[o] = "ok"
  /\ \E m \in 1..(batch[a] - 1) : \E i \in 1..Len(Plan[a][m]) : Plan[a][m][i] = o

JTyped ==
  /\ batch \in [Agents -> Nat] /\ \A a \in Agents : batch[a] \in 1..(Len(Plan[a]) + 1)
  /\ result \in [Ops -> {"none", "ok", "error", "timeout"}]
  /\ journal \in [Agents -> Seq(Entries)]

\* The calls of a batch that is over have a result, and so have those before a
\* call that is under way.
Past == \A a \in Agents : \A m \in 1..(batch[a] - 1) : \A i \in 1..Len(Plan[a][m]) :
          result[Plan[a][m][i]] # "none"
Waited == \A a \in Agents : \A o, p \in Ops :
            Waits(a, o, p) /\ pc[p] # "todo" => result[o] # "none"

\* A call that succeeded has changed the file.
Settled == \A o \in Ops :
  /\ result[o] = "ok" => pc[o] = "over" /\ o \in Happened
  /\ pc[o] = "finish" => o \in Happened

\* A change has the contents that its call knows of, and changes come in turn
\* unless their calls run side by side.
Once == \A j, l \in 1..Len(history) : history[j].op = history[l].op => j = l
Known == \A j \in 1..Len(history), o \in Ops :
  history[j].op = o =>
    /\ history[j].new = NewContent(o)
    /\ history[j].old = local[o] \/ (kind[o] # "edit" /\ o \in Unreadable /\ local[o] = Absent)
InTurn == \A a \in Agents : \A j, l \in 1..Len(history) :
  Waits(a, history[j].op, history[l].op) /\ result[history[j].op] = "ok" => j < l

JSound == \A a \in Agents : \A i \in 1..Len(journal[a]) :
  \E o \in Ops : Recorded(a, o) /\ journal[a][i] = Entry(o)
JComplete == \A a \in Agents : \A o \in Ops :
  Recorded(a, o) => \E i \in 1..Len(journal[a]) : journal[a][i].op = o
JOrdered == \A a \in Agents : \A i, k \in 1..Len(journal[a]) :
  i < k => Earlier(a, journal[a][i].op, journal[a][k].op)

JInv == JTyped /\ Past /\ Waited /\ Settled /\ Once /\ Known /\ InTurn /\ JSound /\ JComplete /\ JOrdered

\* A batch in the order in which its calls are taken: every call once, and
\* those that may run beside others first.
LEMMA SortedProperties ==
  ASSUME Planned, NEW a \in Agents, NEW m \in 1..Len(Plan[a])
  PROVE  /\ Plan[a][m] \in Seq(Ops) /\ Sorted(Plan[a][m]) \in Seq(Ops) /\ Distinct(Sorted(Plan[a][m]))
         /\ \A i \in 1..Len(Sorted(Plan[a][m])) : \E x \in 1..Len(Plan[a][m]) : Sorted(Plan[a][m])[i] = Plan[a][m][x]
         /\ \A x \in 1..Len(Plan[a][m]) : \E i \in 1..Len(Sorted(Plan[a][m])) : Sorted(Plan[a][m])[i] = Plan[a][m][x]
         /\ \A i, k \in 1..Len(Sorted(Plan[a][m])) :
              i < k /\ Concurrent(Sorted(Plan[a][m])[k]) => Concurrent(Sorted(Plan[a][m])[i])
<1>1. Plan[a] \in Seq(Seq(Ops))
  BY DEF Planned
<1>2. PICK q \in Seq(Ops) : q = Plan[a][m]
  BY <1>1, ElementInRange
<1>3. Distinct(q)
  <2>1. ASSUME NEW i \in 1..Len(q), NEW k \in 1..Len(q), q[i] = q[k] PROVE i = k
    <3>1. i \in 1..Len(Plan[a][m]) /\ k \in 1..Len(Plan[a][m]) /\ Plan[a][m][i] = Plan[a][m][k]
      BY <1>2, <2>1
    <3>2. \A b \in Agents : \A n \in 1..Len(Plan[b]) :
          \A x \in 1..Len(Plan[a][m]), y \in 1..Len(Plan[b][n]) :
            Plan[a][m][x] = Plan[b][n][y] => a = b /\ m = n /\ x = y
      BY Zenon DEF Planned
    <3>3. \A x, y \in 1..Len(Plan[a][m]) : Plan[a][m][x] = Plan[a][m][y] => x = y
      BY <3>2, Zenon
    <3> QED BY <3>1, <3>3, Zenon
  <2> QED BY <2>1 DEF Distinct
<1>4. PICK C : C = {o \in Ops : Concurrent(o)}
  OBVIOUS
<1>5. PICK N : N = {o \in Ops : ~Concurrent(o)}
  OBVIOUS
<1>6. PICK c \in Seq(Ops) :
        /\ c = Only(q, C) /\ Distinct(c)
        /\ \A i \in 1..Len(c) : c[i] \in C /\ \E x \in 1..Len(q) : c[i] = q[x]
        /\ \A x \in 1..Len(q) : q[x] \in C => \E i \in 1..Len(c) : c[i] = q[x]
  BY <1>3, OnlyProperties
<1>7. PICK d \in Seq(Ops) :
        /\ d = Only(q, N) /\ Distinct(d)
        /\ \A i \in 1..Len(d) : d[i] \in N /\ \E x \in 1..Len(q) : d[i] = q[x]
        /\ \A x \in 1..Len(q) : q[x] \in N => \E i \in 1..Len(d) : d[i] = q[x]
  BY <1>3, OnlyProperties
<1>8. PICK t \in Seq(Ops) : t = c \o d /\ t = Sorted(q)
  <2>1. Sorted(q) = c \o d
    BY <1>4, <1>5, <1>6, <1>7 DEF Sorted
  <2> QED BY <2>1, ConcatProperties
<1>9. /\ Len(c) \in Nat /\ Len(d) \in Nat /\ Len(t) = Len(c) + Len(d)
      /\ \A i \in 1..Len(t) : t[i] = IF i <= Len(c) THEN c[i] ELSE d[i - Len(c)]
  <2>1. Len(c) \in Nat /\ Len(d) \in Nat
    OBVIOUS
  <2>2. Len(c \o d) = Len(c) + Len(d)
    BY ConcatProperties
  <2>3. \A i \in 1..Len(c) + Len(d) : (c \o d)[i] = IF i <= Len(c) THEN c[i] ELSE d[i - Len(c)]
    BY ConcatProperties
  <2> QED BY <1>8, <2>1, <2>2, <2>3
<1>10. /\ \A i \in 1..Len(c) : i \in 1..Len(t) /\ t[i] = c[i]
       /\ \A i \in 1..Len(d) : Len(c) + i \in 1..Len(t) /\ t[Len(c) + i] = d[i]
       /\ \A i \in 1..Len(t) : i \in 1..Len(c) \/ (i - Len(c) \in 1..Len(d) /\ t[i] = d[i - Len(c)])
  <2>1. ASSUME NEW i \in 1..Len(c) PROVE i \in 1..Len(t) /\ t[i] = c[i]
    BY <1>9
  <2>2. ASSUME NEW i \in 1..Len(d) PROVE Len(c) + i \in 1..Len(t) /\ t[Len(c) + i] = d[i]
    <3>1. Len(c) + i \in 1..Len(t) /\ ~(Len(c) + i <= Len(c)) /\ (Len(c) + i) - Len(c) = i
      BY <1>9
    <3> QED BY <1>9, <3>1
  <2>3. ASSUME NEW i \in 1..Len(t)
        PROVE  i \in 1..Len(c) \/ (i - Len(c) \in 1..Len(d) /\ t[i] = d[i - Len(c)])
    BY <1>9
  <2> QED BY <2>1, <2>2, <2>3
<1>11. \A i \in 1..Len(t) : \E x \in 1..Len(q) : t[i] = q[x]
  BY <1>6, <1>7, <1>10
<1>12. \A x \in 1..Len(q) : \E i \in 1..Len(t) : t[i] = q[x]
  <2>1. ASSUME NEW x \in 1..Len(q) PROVE \E i \in 1..Len(t) : t[i] = q[x]
    <3>1. CASE q[x] \in C
      <4>1. PICK k \in 1..Len(c) : c[k] = q[x]
        BY <1>6, <3>1
      <4>2. k \in 1..Len(t) /\ t[k] = q[x]
        BY <1>10, <4>1
      <4> QED BY <4>2
    <3>2. CASE q[x] \in N
      <4>1. PICK k \in 1..Len(d) : d[k] = q[x]
        BY <1>7, <3>2
      <4>2. Len(c) + k \in 1..Len(t) /\ t[Len(c) + k] = q[x]
        BY <1>10, <4>1
      <4> QED BY <4>2
    <3>3. q[x] \in C \/ q[x] \in N
      BY <1>4, <1>5
    <3> QED BY <3>1, <3>2, <3>3
  <2> QED BY <2>1
<1>13. Distinct(t)
  <2>1. ASSUME NEW i \in 1..Len(c), NEW k \in 1..Len(d) PROVE c[i] # d[k]
    BY <1>4, <1>5, <1>6, <1>7
  <2>2. ASSUME NEW i \in 1..Len(t), NEW k \in 1..Len(t), t[i] = t[k] PROVE i = k
    <3>1. CASE i \in 1..Len(c) /\ k \in 1..Len(c)
      BY <1>6, <1>10, <2>2, <3>1 DEF Distinct
    <3>2. CASE i \notin 1..Len(c) /\ k \notin 1..Len(c)
      <4>1. /\ i - Len(c) \in 1..Len(d) /\ k - Len(c) \in 1..Len(d)
            /\ d[i - Len(c)] = d[k - Len(c)]
        BY <1>10, <2>2, <3>2
      <4>2. i - Len(c) = k - Len(c)
        BY <1>7, <4>1 DEF Distinct
      <4> QED BY <1>9, <4>2
    <3>3. CASE i \in 1..Len(c) /\ k \notin 1..Len(c)
      BY <1>10, <2>1, <2>2, <3>3
    <3>4. CASE i \notin 1..Len(c) /\ k \in 1..Len(c)
      BY <1>10, <2>1, <2>2, <3>4
    <3> QED BY <3>1, <3>2, <3>3, <3>4
  <2> QED BY <2>2 DEF Distinct
<1>14. ASSUME NEW i \in 1..Len(t), NEW k \in 1..Len(t), i < k, Concurrent(t[k])
       PROVE  Concurrent(t[i])
  <2>1. k \in 1..Len(c)
    <3>1. k \notin 1..Len(c) => t[k] \in N
      BY <1>7, <1>10
    <3> QED BY <1>5, <1>14, <3>1
  <2>2. i \in 1..Len(c) /\ t[i] = c[i]
    <3>1. i \in 1..Len(c)
      BY <1>9, <1>14, <2>1
    <3> QED BY <1>10, <3>1
  <2> QED BY <1>4, <1>6, <2>2
<1> QED BY <1>2, <1>8, <1>11, <1>12, <1>13, <1>14

\* The order of the calls does not change while their kinds do not.
LEMMA EarlierSame ==
  ASSUME UNCHANGED kind, NEW a, NEW o, NEW p
  PROVE  (Earlier(a, o, p)' <=> Earlier(a, o, p)) /\ (Waits(a, o, p)' <=> Waits(a, o, p))
BY DEF Earlier, Waits, At, Sorted, Concurrent

\* Of two calls the later one waits, or both run side by side; and no call
\* comes before itself.
LEMMA EarlierMeans ==
  ASSUME Planned, NEW a \in Agents, NEW o \in Ops, NEW p \in Ops, Earlier(a, o, p)
  PROVE  (Waits(a, o, p) \/ SideBySide(o, p)) /\ o # p
<1>1. PICK m \in Nat, i \in Nat, n \in Nat, k \in Nat :
        At(a, o, m, i, p, n, k) /\ (m < n \/ (m = n /\ i < k))
  BY DEF Earlier
<1>2. /\ m \in 1..Len(Plan[a]) /\ i \in 1..Len(Sorted(Plan[a][m])) /\ Sorted(Plan[a][m])[i] = o
      /\ n \in 1..Len(Plan[a]) /\ k \in 1..Len(Sorted(Plan[a][n])) /\ Sorted(Plan[a][n])[k] = p
  BY <1>1 DEF At
<1>3. PICK x \in 1..Len(Plan[a][m]), y \in 1..Len(Plan[a][n]) : Plan[a][m][x] = o /\ Plan[a][n][y] = p
  BY <1>2, SortedProperties
<1>4. ASSUME m < n \/ ~Concurrent(p)
      PROVE  Waits(a, o, p)
  <2>1. At(a, o, m, i, p, n, k) /\ (m < n \/ (m = n /\ i < k /\ ~Concurrent(p)))
    BY <1>1, <1>4
  <2> QED BY <1>1, <2>1, Zenon DEF Waits
<1>5. ASSUME m = n, i < k, Concurrent(p)
      PROVE  SideBySide(o, p)
  <2>1. Concurrent(o)
    BY <1>2, <1>5, SortedProperties
  <2>2. o \in ToSet(Plan[a][m]) /\ p \in ToSet(Plan[a][m])
    <3>1. Plan[a][m] \in Seq(Ops)
      BY <1>2, SortedProperties
    <3> QED BY <1>3, <1>5, <3>1, ToSetIndexed
  <2> QED BY <1>2, <1>5, <2>1, <2>2 DEF SideBySide
<1>6. o # p
  <2>1. ASSUME o = p PROVE FALSE
    <3>1. \A b, c \in Agents : \A u \in 1..Len(Plan[b]), v \in 1..Len(Plan[c]) :
          \A w \in 1..Len(Plan[b][u]), z \in 1..Len(Plan[c][v]) :
            Plan[b][u][w] = Plan[c][v][z] => b = c /\ u = v /\ w = z
      BY Zenon DEF Planned
    <3>2. m = n
      <4>1. Plan[a][m][x] = Plan[a][n][y]
        BY <1>3, <2>1
      <4>2. \A u \in 1..Len(Plan[a]), v \in 1..Len(Plan[a]) :
            \A w \in 1..Len(Plan[a][u]), z \in 1..Len(Plan[a][v]) :
              Plan[a][u][w] = Plan[a][v][z] => a = a /\ u = v /\ w = z
        BY <3>1
      <4>3. \A w \in 1..Len(Plan[a][m]), z \in 1..Len(Plan[a][n]) :
              Plan[a][m][w] = Plan[a][n][z] => m = n
        BY <1>2, <4>2, Zenon
      <4> QED BY <1>3, <4>1, <4>3, Zenon
    <3>3. Distinct(Sorted(Plan[a][m]))
      BY <1>2, SortedProperties
    <3>4. i = k
      BY <1>2, <2>1, <3>2, <3>3 DEF Distinct
    <3> QED BY <1>1, <3>2, <3>4
  <2> QED BY <2>1
<1> QED BY <1>1, <1>4, <1>5, <1>6

\* What a call that has written knows of its change stays.
LEMMA EntrySame ==
  ASSUME Typed, UNCHANGED kind, NEW o \in Ops, local'[o] = local[o]
  PROVE  NewContent(o)' = NewContent(o) /\ Entry(o)' = Entry(o)
<1>1. kind[o] \in {"edit", "write", "append"} /\ kind'[o] = kind[o]
  BY DEF Typed
<1>2. NewContent(o)' = NewContent(o)
  BY <1>1 DEF NewContent
<1> QED BY <1>1, <1>2 DEF Entry

\* An entry: the contents as its call reports them.
LEMMA EntryFacts ==
  ASSUME Typed, NEW o \in Ops
  PROVE  /\ Entry(o) \in Entries /\ Entry(o).op = o /\ Locked(o)
         /\ IF kind[o] = "append" THEN Entry(o).old = Absent /\ Entry(o).new = {o}
                                  ELSE Entry(o).old = local[o] /\ Entry(o).new = NewContent(o)
<1>1. kind[o] \in {"edit", "write", "append"} /\ local[o] \in Contents
  BY DEF Typed
<1>2. NewContent(o) \in Contents /\ {o} \in Contents /\ Absent \in Contents
  BY <1>1 DEF NewContent, Contents, Absent
<1>3. PICK old \in Contents, new \in Contents :
        /\ old = IF kind[o] = "append" THEN Absent ELSE local[o]
        /\ new = IF kind[o] = "append" THEN {o} ELSE NewContent(o)
  BY <1>1, <1>2
<1>4. Entry(o) = [op |-> o, old |-> old, new |-> new]
  BY <1>3 DEF Entry
<1> QED BY <1>1, <1>3, <1>4 DEF Entries, Locked

LEMMA HappenedIndexed ==
  ASSUME Typed
  PROVE  /\ \A o : o \in Happened <=> \E j \in 1..Len(history) : history[j].op = o
         /\ \A j \in 1..Len(history) : history[j] \in Changed /\ history[j].op \in Ops
<1>1. ASSUME NEW j \in 1..Len(history) PROVE history[j] \in Changed /\ history[j].op \in Ops
  <2>1. history[j] \in Changed
    BY ElementInRange, Zenon DEF Typed, Changed
  <2> QED BY <2>1 DEF Changed
<1> QED BY <1>1 DEF Happened

\* Whatever has a place in a batch that is over has a result.
LEMMA RecordedHasResult ==
  ASSUME JInv, NEW a \in Agents, NEW o \in Ops,
         \E m \in 1..(batch[a] - 1) : \E i \in 1..Len(Plan[a][m]) : Plan[a][m][i] = o
  PROVE  result[o] # "none"
BY DEF JInv, Past

LEMMA PlannedOps ==
  ASSUME Planned, NEW a \in Agents, NEW m \in 1..Len(Plan[a])
  PROVE  Plan[a][m] \in Seq(Ops) /\ \A i \in 1..Len(Plan[a][m]) : Plan[a][m][i] \in Ops
<1>1. Plan[a] \in Seq(Seq(Ops))
  BY DEF Planned
<1>2. PICK q \in Seq(Ops) : q = Plan[a][m]
  BY <1>1, ElementInRange
<1> QED BY <1>2, ElementInRange

\* A step of call o that leaves the file and the journals alone.
Quiet(o) ==
  /\ UNCHANGED <<kind, batch, journal, history>>
  /\ \A p \in Ops : p # o => pc'[p] = pc[p] /\ result'[p] = result[p] /\ local'[p] = local[p]
  /\ result' \in [Ops -> {"none", "ok", "error", "timeout"}]
  /\ result[o] # "none" => result'[o] = result[o]
  /\ result'[o] = "ok" => pc'[o] = "over" /\ o \in Happened
  /\ o \in Happened => local'[o] = local[o]
  /\ pc'[o] = "finish" => o \in Happened
  /\ \/ pc'[o] = "todo" \/ pc[o] # "todo"
     \/ \A a \in Agents, p \in Ops : Waits(a, p, o) => result[p] # "none"

LEMMA QuietPreserves ==
  ASSUME Planned, IInv, JInv, NEW o \in Ops, Quiet(o)
  PROVE  JInv'
<1> USE DEF Quiet
<1>0. Typed /\ Happened' = Happened /\ Happened \subseteq Ops
  BY HappenedOps DEF IInv, Happened
<1>1. JTyped'
  BY DEF JInv, JTyped, Entries, Contents
<1>2. ASSUME NEW p \in Ops
      PROVE  /\ result[p] # "none" => result'[p] = result[p]
             /\ p \in Happened => local'[p] = local[p]
             /\ NewContent(p)' = NewContent(p) \/ p \notin Happened
             /\ Entry(p)' = Entry(p) \/ p \notin Happened
  <2>1. /\ result[p] # "none" => result'[p] = result[p]
        /\ p \in Happened => local'[p] = local[p]
    OBVIOUS
  <2>2. CASE p \in Happened
    BY <1>0, <2>1, <2>2, EntrySame
  <2>3. CASE p \notin Happened
    BY <2>1, <2>3
  <2> QED BY <2>2, <2>3
<1>3. Past'
  <2>1. ASSUME NEW a \in Agents, NEW m \in 1..(batch[a] - 1), NEW i \in 1..Len(Plan[a][m])
        PROVE  result'[Plan[a][m][i]] # "none"
    <3>1. result[Plan[a][m][i]] # "none"
      BY DEF JInv, Past
    <3>2. \A p : p # o => result'[p] = result[p] \/ p \notin Ops
      OBVIOUS
    <3>3. Plan[a][m][i] = o \/ Plan[a][m][i] \notin Ops \/ result'[Plan[a][m][i]] = result[Plan[a][m][i]]
      BY <3>2, Zenon
    <3>4. Plan[a][m][i] \in Ops
      <4>1. a \in Agents /\ m \in 1..Len(Plan[a])
        BY DEF JInv, JTyped
      <4> QED BY <4>1, PlannedOps
    <3> QED BY <3>1, <3>3, <3>4
  <2> QED BY <2>1 DEF Past
<1>4. Waited'
  <2>1. ASSUME NEW a \in Agents, NEW q \in Ops, NEW p \in Ops, Waits(a, q, p), pc'[p] # "todo"
        PROVE  result'[q] # "none"
    <3>1. result[q] # "none"
      BY <2>1 DEF JInv, Waited
    <3> QED BY <1>2, <3>1
  <2> QED BY <2>1, EarlierSame DEF Waited
<1>5. Settled'
  BY <1>0 DEF JInv, Settled
<1>6. Once'
  BY DEF JInv, Once
<1>7. Known'
  <2>1. ASSUME NEW j \in 1..Len(history), NEW p \in Ops, history[j].op = p
        PROVE  /\ history[j].new = NewContent(p)'
               /\ \/ history[j].old = local'[p]
                  \/ kind[p] # "edit" /\ p \in Unreadable /\ local'[p] = Absent
    <3>1. p \in Happened
      BY <1>0, <2>1, HappenedIndexed
    <3> QED BY <1>2, <2>1, <3>1 DEF JInv, Known
  <2> QED BY <2>1 DEF Known
<1>8. InTurn'
  <2>1. ASSUME NEW a \in Agents, NEW j \in 1..Len(history), NEW l \in 1..Len(history),
               Waits(a, history[j].op, history[l].op), result'[history[j].op] = "ok"
        PROVE  j < l
    <3>1. /\ history[j].op \in Ops /\ history[l].op \in Ops /\ history[l].op \in Happened
      BY <1>0, HappenedIndexed
    <3>2. pc[history[l].op] # "todo"
      BY <3>1 DEF IInv, DoneOnce
    <3>3. result[history[j].op] # "none"
      BY <2>1, <3>1, <3>2 DEF JInv, Waited
    <3>4. result[history[j].op] = "ok"
      BY <1>2, <2>1, <3>1, <3>3
    <3> QED BY <2>1, <3>4 DEF JInv, InTurn
  <2> QED BY <2>1, EarlierSame DEF InTurn
<1>9. ASSUME NEW a \in Agents, NEW p \in Ops
      PROVE  Recorded(a, p)' <=> Recorded(a, p)
  <2>1. CASE \E m \in 1..(batch[a] - 1) : \E i \in 1..Len(Plan[a][m]) : Plan[a][m][i] = p
    <3>1. result[p] # "none"
      BY <2>1, RecordedHasResult
    <3> QED BY <1>2, <2>1, <3>1 DEF Recorded
  <2>2. CASE ~\E m \in 1..(batch[a] - 1) : \E i \in 1..Len(Plan[a][m]) : Plan[a][m][i] = p
    BY <2>2 DEF Recorded
  <2> QED BY <2>1, <2>2
<1>10. JSound'
  <2>1. ASSUME NEW a \in Agents, NEW i \in 1..Len(journal[a])
        PROVE  \E p \in Ops : Recorded(a, p)' /\ journal[a][i] = Entry(p)'
    <3>1. PICK p \in Ops : Recorded(a, p) /\ journal[a][i] = Entry(p)
      BY DEF JInv, JSound
    <3>2. p \in Happened
      BY <3>1 DEF JInv, Settled, Recorded
    <3> QED BY <1>2, <1>9, <3>1, <3>2
  <2> QED BY <2>1 DEF JSound
<1>11. JComplete'
  BY <1>9 DEF JInv, JComplete
<1>12. JOrdered'
  BY EarlierSame DEF JInv, JOrdered
<1> QED BY <1>1, <1>3, <1>4, <1>5, <1>6, <1>7, <1>8, <1>10, <1>11, <1>12 DEF JInv

\* A call that may start has every earlier call of its agent behind it.
LEMMA ReadyWaits ==
  ASSUME Planned, IInv, JInv, NEW o \in Ops, NEW a \in Agents, Ready(o, a)
  PROVE  \A b \in Agents, p \in Ops : Waits(b, p, o) => result[p] # "none"
<1>0. Typed /\ JTyped /\ Past
  BY DEF IInv, JInv
<1>1. /\ batch[a] \in 1..Len(Plan[a]) /\ Current(a) = Plan[a][batch[a]]
      /\ \E y \in 1..Len(Plan[a][batch[a]]) : Plan[a][batch[a]][y] = o
  <2>1. batch[a] \in 1..(Len(Plan[a]) + 1) /\ Len(Plan[a]) \in Nat
    BY <1>0 DEF JTyped, Planned
  <2>2. ToSet(<<>>) = {}
    BY EmptyQueue
  <2>3. batch[a] <= Len(Plan[a])
    BY <2>2 DEF Ready, Current
  <2>4. batch[a] \in 1..Len(Plan[a]) /\ Current(a) = Plan[a][batch[a]]
    BY <2>1, <2>3 DEF Current
  <2>5. Plan[a][batch[a]] \in Seq(Ops)
    BY <2>4, PlannedOps
  <2>6. o \in ToSet(Plan[a][batch[a]])
    BY <2>4 DEF Ready
  <2> QED BY <2>4, <2>5, <2>6, ToSetIndexed
<1>2. SUFFICES ASSUME NEW b \in Agents, NEW p \in Ops,
                      NEW m \in Nat, NEW i \in Nat, NEW n \in Nat, NEW k \in Nat, At(b, p, m, i, o, n, k),
                      m < n \/ (m = n /\ i < k /\ ~Concurrent(o))
               PROVE  result[p] # "none"
  BY DEF Waits
<1>3. /\ m \in 1..Len(Plan[b]) /\ i \in 1..Len(Sorted(Plan[b][m])) /\ Sorted(Plan[b][m])[i] = p
      /\ n \in 1..Len(Plan[b]) /\ k \in 1..Len(Sorted(Plan[b][n])) /\ Sorted(Plan[b][n])[k] = o
  BY <1>2 DEF At
<1>4. b = a /\ n = batch[a]
  <2>1. PICK z \in 1..Len(Plan[b][n]) : Plan[b][n][z] = o
    BY <1>3, SortedProperties
  <2>2. PICK y \in 1..Len(Plan[a][batch[a]]) : Plan[a][batch[a]][y] = o
    BY <1>1
  <2>3. \A c, d \in Agents : \A v \in 1..Len(Plan[c]), w \in 1..Len(Plan[d]) :
        \A x \in 1..Len(Plan[c][v]), u \in 1..Len(Plan[d][w]) :
          Plan[c][v][x] = Plan[d][w][u] => c = d /\ v = w /\ x = u
    BY Zenon DEF Planned
  <2>4. \A v \in 1..Len(Plan[a]), w \in 1..Len(Plan[b]) :
        \A x \in 1..Len(Plan[a][v]), u \in 1..Len(Plan[b][w]) :
          Plan[a][v][x] = Plan[b][w][u] => a = b /\ v = w /\ x = u
    BY <2>3, Zenon
  <2>5. n \in 1..Len(Plan[b])
    BY <1>3
  <2>6. \A x \in 1..Len(Plan[a][batch[a]]), u \in 1..Len(Plan[b][n]) :
          Plan[a][batch[a]][x] = Plan[b][n][u] => a = b /\ batch[a] = n /\ x = u
    BY <1>1, <2>4, <2>5, Zenon
  <2> QED BY <2>1, <2>2, <2>6, Zenon
<1>5. CASE m < n
  <2>1. PICK x \in 1..Len(Plan[b][m]) : Plan[b][m][x] = p
    BY <1>3, SortedProperties
  <2>2. m \in 1..(batch[b] - 1)
    BY <1>0, <1>4, <1>5, <1>3 DEF JTyped
  <2> QED BY <1>0, <2>1, <2>2 DEF Past
<1>6. CASE m = n /\ i < k /\ ~Concurrent(o)
  <2>1. \A q \in Before(o, a) : result[q] # "none"
    BY <1>6 DEF Ready
  <2>2. InOrder(a) = Sorted(Plan[b][n])
    BY <1>1, <1>4 DEF InOrder
  <2>3. Len(InOrder(a)) \in Nat /\ i \in 1..Len(InOrder(a)) /\ k \in (i + 1)..Len(InOrder(a))
    <3>1. Sorted(Plan[b][n]) \in Seq(Ops)
      BY <1>3, SortedProperties
    <3> QED BY <1>6, <1>3, <2>2, <3>1
  <2>4. InOrder(a)[i] = p /\ InOrder(a)[k] = o
    BY <1>6, <1>3, <2>2
  <2>5. p \in Before(o, a)
    BY <2>3, <2>4 DEF Before
  <2> QED BY <2>1, <2>5
<1> QED BY <1>2, <1>5, <1>6

\* The steps of a call, but for its commit.
LEMMA CallsPreserve ==
  ASSUME Planned, IInv, JInv, NEW o \in Ops,
         \/ \E a \in Agents : Refuse(o, a) \/ Start(o, a) \/ Finish(o, a)
         \/ Stat(o) \/ Read(o) \/ Check(o) \/ Fail(o) \/ Timeout(o)
  PROVE  JInv'
<1>1. /\ Typed /\ Settled /\ result \in [Ops -> {"none", "ok", "error", "timeout"}]
      /\ o \in Happened => pc[o] \in {"finish", "over"}
      /\ Locked(o)
  BY DEF IInv, JInv, JTyped, DoneOnce, Typed, Locked
<1> SUFFICES Quiet(o)
  BY QuietPreserves
<1>2. ASSUME NEW r \in {"ok", "error"}, Settle(o, r)
      PROVE  /\ result' \in [Ops -> {"none", "ok", "error", "timeout"}]
             /\ \A p \in Ops : p # o => result'[p] = result[p]
             /\ result[o] # "none" => result'[o] = result[o]
             /\ result'[o] = "ok" => result[o] = "ok" \/ r = "ok"
  BY <1>1, <1>2 DEF Settle
<1>3. ASSUME NEW a \in Agents, Refuse(o, a) PROVE Quiet(o)
  <2>1. \A b \in Agents, p \in Ops : Waits(b, p, o) => result[p] # "none"
    BY <1>3, ReadyWaits DEF Refuse
  <2>2. pc[o] = "todo" /\ Settle(o, "error") /\ pc' = [pc EXCEPT ![o] = "over"]
        /\ UNCHANGED <<kind, batch, journal, history, local>>
    BY <1>3 DEF Refuse, Ready, toolVars
  <2> QED BY <1>1, <1>2, <2>1, <2>2 DEF Quiet, Settled, Typed
<1>4. ASSUME NEW a \in Agents, Start(o, a) PROVE Quiet(o)
  <2>1. \A b \in Agents, p \in Ops : Waits(b, p, o) => result[p] # "none"
    BY <1>4, ReadyWaits DEF Start
  <2>2. pc[o] = "todo" /\ pc' = [pc EXCEPT ![o] = FirstStep(o)] /\ FirstStep(o) \in {"stat", "read"}
        /\ UNCHANGED <<kind, batch, journal, history, local, result>>
    BY <1>4 DEF Start, Ready, toolVars, FirstStep
  <2> QED BY <1>1, <2>1, <2>2 DEF Quiet, Settled, Typed
<1>5. ASSUME NEW a \in Agents, Finish(o, a) PROVE Quiet(o)
  <2>1. /\ pc[o] = "finish" /\ Settle(o, "ok") /\ pc' = [pc EXCEPT ![o] = "over"]
        /\ UNCHANGED <<kind, batch, journal, history, local>>
    BY <1>1, <1>5 DEF Finish, Proceeds, End, toolVars
  <2> QED BY <1>1, <1>2, <2>1 DEF Quiet, Settled, Typed
<1>6. CASE Stat(o) \/ Read(o) \/ Check(o)
  <2>1. /\ pc[o] \in {"stat", "read", "check"} /\ \E q \in {"read", "check", "write"} : pc' = [pc EXCEPT ![o] = q]
        /\ UNCHANGED <<kind, batch, journal, history, result>>
        /\ \A p \in Ops : p # o => local'[p] = local[p]
    BY <1>1, <1>6 DEF Stat, Read, Check, Proceeds, toolVars, Typed
  <2> QED BY <1>1, <2>1 DEF Quiet, Settled, Typed
<1>7. CASE Fail(o)
  <2>1. /\ pc[o] \in {"stat", "read", "check", "write"} /\ Settle(o, "error") /\ pc' = [pc EXCEPT ![o] = "over"]
        /\ UNCHANGED <<kind, batch, journal, history, local>>
    BY <1>1, <1>7 DEF Fail, Proceeds, End, toolVars
  <2> QED BY <1>1, <1>2, <2>1 DEF Quiet, Settled, Typed
<1>8. CASE Timeout(o)
  BY <1>1, <1>8 DEF Timeout, toolVars, Quiet, Settled, Typed
<1> QED BY <1>3, <1>4, <1>5, <1>6, <1>7, <1>8

\* A commit adds the change that its call knows of.
LEMMA CommitKeepsJournals ==
  ASSUME Planned, IInv, JInv, NEW o \in Ops, Commit(o)
  PROVE  JInv'
<1>0. Typed
  BY DEF IInv
<1>1. /\ pc[o] = "write" /\ o \notin Happened /\ Happened' = Happened \cup {o}
      /\ file' = NewContent(o) /\ pc' = [pc EXCEPT ![o] = "finish"]
      /\ UNCHANGED <<local, kind, result, journal, batch>>
      /\ history' \in Seq(Changed)
      /\ local[o] = file \/ (kind[o] # "edit" /\ o \in Unreadable /\ local[o] = Absent)
  BY CommitFacts DEF Commit, toolVars, IInv, ReadIsCurrent, Absent
<1>2. PICK h \in Changed :
        /\ h.op = o /\ h.old = file /\ h.new = NewContent(o)
        /\ history' = Append(history, h)
  <2>1. [op |-> o, old |-> file, seen |-> local[o], new |-> file'] \in Changed
    BY <1>0, <1>1, CommitFacts DEF Typed, Changed
  <2> QED BY <1>1, <2>1 DEF Commit
<1>3. /\ Len(history) \in Nat /\ Len(history') = Len(history) + 1
      /\ history'[Len(history) + 1] = h
      /\ \A i \in 1..Len(history) : history'[i] = history[i]
  BY <1>0, <1>2, AppendProperties DEF Typed
<1>4. /\ \A i \in 1..Len(history') : i = Len(history) + 1 \/ i \in 1..Len(history)
      /\ \A i \in 1..Len(history) : i < Len(history) + 1
  BY <1>3
<1>5. \A i \in 1..Len(history) : history[i].op \in Happened /\ history[i].op # o /\ history[i].op \in Ops
  BY <1>0, <1>1, HappenedIndexed
<1>6. \A p \in Ops : NewContent(p)' = NewContent(p) /\ Entry(p)' = Entry(p)
  BY <1>0, <1>1, EntrySame
<1>7. JTyped' /\ Past'
  BY <1>1 DEF JInv, JTyped, Past, Entries, Contents
<1>8. Waited'
  <2>1. \A p \in Ops : pc'[p] # "todo" => pc[p] # "todo"
    BY <1>0, <1>1 DEF Typed
  <2> QED BY <1>1, <2>1, EarlierSame DEF JInv, Waited
<1>9. Settled'
  <2>1. \A p \in Ops : p # o => pc'[p] = pc[p]
    BY <1>0, <1>1 DEF Typed
  <2> QED BY <1>1, <2>1 DEF JInv, Settled
<1>10. Once'
  <2>1. ASSUME NEW j \in 1..Len(history'), NEW l \in 1..Len(history'), history'[j].op = history'[l].op
        PROVE  j = l
    BY <1>2, <1>3, <1>4, <1>5, <2>1 DEF JInv, Once
  <2> QED BY <2>1 DEF Once
<1>11. Known'
  <2>1. ASSUME NEW j \in 1..Len(history'), NEW p \in Ops, history'[j].op = p
        PROVE  /\ history'[j].new = NewContent(p)'
               /\ \/ history'[j].old = local'[p]
                  \/ kind'[p] # "edit" /\ p \in Unreadable /\ local'[p] = Absent
    <3>1. CASE j \in 1..Len(history)
      <4>1. history'[j] = history[j] /\ NewContent(p)' = NewContent(p) /\ UNCHANGED <<kind, local>>
        BY <1>1, <1>3, <1>6, <3>1
      <4> QED BY <2>1, <3>1, <4>1 DEF JInv, Known
    <3>2. CASE j = Len(history) + 1
      <4>1. history'[j] = h /\ p = o /\ NewContent(p)' = NewContent(p) /\ UNCHANGED <<kind, local>>
        BY <1>1, <1>2, <1>3, <1>6, <2>1, <3>2
      <4> QED BY <1>1, <1>2, <4>1
    <3> QED BY <1>4, <3>1, <3>2
  <2> QED BY <2>1 DEF Known
<1>12. InTurn'
  <2>1. ASSUME NEW a \in Agents, NEW j \in 1..Len(history'), NEW l \in 1..Len(history'),
               Waits(a, history'[j].op, history'[l].op), result[history'[j].op] = "ok"
        PROVE  j < l
    <3>1. j # Len(history) + 1
      BY <1>1, <1>2, <1>3, <2>1 DEF JInv, Settled
    <3>2. j \in 1..Len(history) /\ history'[j] = history[j]
      BY <1>3, <1>4, <3>1
    <3>3. CASE l \in 1..Len(history)
      BY <1>3, <2>1, <3>2, <3>3 DEF JInv, InTurn
    <3>4. CASE l = Len(history) + 1
      BY <1>4, <3>2, <3>4
    <3> QED BY <1>4, <3>3, <3>4
  <2> QED BY <1>1, <2>1, EarlierSame DEF InTurn
<1>13. JSound' /\ JComplete' /\ JOrdered'
  <2>1. \A a \in Agents, p \in Ops : Recorded(a, p)' <=> Recorded(a, p)
    BY <1>1 DEF Recorded
  <2>2. JSound'
    BY <1>1, <1>6, <2>1 DEF JInv, JSound
  <2>3. JComplete'
    BY <1>1, <2>1 DEF JInv, JComplete
  <2>4. JOrdered'
    BY <1>1, EarlierSame DEF JInv, JOrdered
  <2> QED BY <2>2, <2>3, <2>4
<1> QED BY <1>7, <1>8, <1>9, <1>10, <1>11, <1>12, <1>13 DEF JInv

\* The end of a batch adds its writes and edits that succeeded, in order.
LEMMA RecordKeepsJournals ==
  ASSUME Planned, IInv, JInv, NEW a \in Agents, Record(a)
  PROVE  JInv'
<1>0. Typed /\ JTyped
  BY DEF IInv, JInv
<1>1. PICK b \in 1..Len(Plan[a]) :
        /\ b = batch[a] /\ Current(a) = Plan[a][b]
        /\ batch' = [batch EXCEPT ![a] = b + 1]
        /\ \A o \in ToSet(Plan[a][b]) : result[o] # "none"
  <2>1. batch[a] \in 1..(Len(Plan[a]) + 1) /\ Len(Plan[a]) \in Nat /\ batch[a] <= Len(Plan[a])
    BY <1>0 DEF JTyped, Planned, Record
  <2>2. batch[a] \in 1..Len(Plan[a]) /\ Current(a) = Plan[a][batch[a]]
    BY <2>1 DEF Current
  <2> QED BY <2>2 DEF Record
<1>2. UNCHANGED <<file, kind, pc, local, result, history>>
  BY DEF Record
<1>3. PICK t \in Seq(Ops) :
        /\ t = Sorted(Plan[a][b]) /\ Distinct(t)
        /\ \A i \in 1..Len(t) : \E x \in 1..Len(Plan[a][b]) : t[i] = Plan[a][b][x]
        /\ \A x \in 1..Len(Plan[a][b]) : \E i \in 1..Len(t) : t[i] = Plan[a][b][x]
  BY <1>0, SortedProperties
<1>4. PICK M \in Seq(Ops) :
        /\ M = Only(t, {o \in Ops : Locked(o) /\ result[o] = "ok"})
        /\ \A i \in 1..Len(M) : result[M[i]] = "ok" /\ \E x \in 1..Len(t) : M[i] = t[x]
        /\ \A x \in 1..Len(t) : result[t[x]] = "ok" => \E i \in 1..Len(M) : M[i] = t[x]
        /\ \A i, k \in 1..Len(M) : \A x, y \in 1..Len(t) : i < k /\ M[i] = t[x] /\ M[k] = t[y] => x < y
  <2>1. PICK G : G = {o \in Ops : Locked(o) /\ result[o] = "ok"}
    OBVIOUS
  <2>2. \A x \in 1..Len(t) : t[x] \in G <=> result[t[x]] = "ok"
    BY <1>0, <2>1, EntryFacts, ElementInRange
  <2>3. Distinct(t)
    BY <1>3
  <2>4. Only(t, G) \in Seq(Ops)
    BY <2>3, OnlyProperties
  <2>5. \A i \in 1..Len(Only(t, G)) : Only(t, G)[i] \in G /\ \E x \in 1..Len(t) : Only(t, G)[i] = t[x]
    BY <2>3, OnlyProperties
  <2>6. \A x \in 1..Len(t) : t[x] \in G => \E i \in 1..Len(Only(t, G)) : Only(t, G)[i] = t[x]
    BY <2>3, OnlyProperties
  <2>7. \A i, k \in 1..Len(Only(t, G)) : \A x, y \in 1..Len(t) :
          i < k /\ Only(t, G)[i] = t[x] /\ Only(t, G)[k] = t[y] => x < y
    BY <2>3, OnlyProperties
  <2> QED BY <2>1, <2>2, <2>4, <2>5, <2>6, <2>7
<1>5. PICK E \in Seq(Entries) :
        /\ Len(E) = Len(M) /\ \A i \in 1..Len(M) : E[i] = Entry(M[i])
        /\ journal' = [journal EXCEPT ![a] = @ \o E]
  <2>1. Len(M) \in Nat /\ \A i \in 1..Len(M) : M[i] \in Ops
    BY ElementInRange
  <2>2. \A i \in 1..Len(M) : Entry(M[i]) \in Entries
    BY <1>0, <2>1, EntryFacts
  <2>3. PICK E : E = [i \in 1..Len(M) |-> Entry(M[i])]
    OBVIOUS
  <2>4. E \in Seq(Entries) /\ Len(E) = Len(M)
    <3>1. E \in [1..Len(M) -> Entries]
      BY <2>2, <2>3
    <3> QED BY <2>1, <3>1
  <2>5. InOrder(a) = t
    BY <1>1, <1>3 DEF InOrder
  <2>6. journal' = [journal EXCEPT ![a] = @ \o E]
    BY <1>4, <2>3, <2>5 DEF Record
  <2> QED BY <2>3, <2>4, <2>6
<1>6. PICK old \in Seq(Entries), new \in Seq(Entries) :
        /\ old = journal[a] /\ new = old \o E
        /\ Len(old) \in Nat /\ Len(new) = Len(old) + Len(M)
        /\ \A i \in 1..Len(new) : new[i] = IF i <= Len(old) THEN old[i] ELSE E[i - Len(old)]
  <2>1. PICK old \in Seq(Entries) : old = journal[a]
    BY <1>0 DEF JTyped
  <2>2. /\ old \o E \in Seq(Entries) /\ Len(old \o E) = Len(old) + Len(E) /\ Len(old) \in Nat
        /\ \A i \in 1..(Len(old) + Len(E)) : (old \o E)[i] = IF i <= Len(old) THEN old[i] ELSE E[i - Len(old)]
    BY ConcatProperties
  <2> QED BY <1>5, <2>1, <2>2
<1>7. /\ journal' \in [Agents -> Seq(Entries)] /\ journal'[a] = new
      /\ \A c \in Agents : c # a => journal'[c] = journal[c]
  BY <1>0, <1>5, <1>6 DEF JTyped
<1>8. /\ \A i \in 1..Len(new) : i \in 1..Len(old) \/ (i \notin 1..Len(old) /\ i - Len(old) \in 1..Len(M))
      /\ \A i \in 1..Len(old) : i \in 1..Len(new) /\ new[i] = old[i]
      /\ \A i \in 1..Len(M) : Len(old) + i \in 1..Len(new) /\ new[Len(old) + i] = Entry(M[i])
      /\ \A i \in 1..Len(new) : i \notin 1..Len(old) => new[i] = Entry(M[i - Len(old)])
  <2>1. Len(M) \in Nat
    OBVIOUS
  <2>2. ASSUME NEW i \in 1..Len(new), i \notin 1..Len(old)
        PROVE  i - Len(old) \in 1..Len(M) /\ new[i] = Entry(M[i - Len(old)])
    <3>1. i - Len(old) \in 1..Len(M) /\ ~(i <= Len(old))
      BY <1>6, <2>1, <2>2
    <3> QED BY <1>5, <1>6, <3>1
  <2>3. ASSUME NEW i \in 1..Len(old) PROVE i \in 1..Len(new) /\ new[i] = old[i]
    BY <1>6, <2>1
  <2>4. ASSUME NEW i \in 1..Len(M)
        PROVE  Len(old) + i \in 1..Len(new) /\ new[Len(old) + i] = Entry(M[i])
    <3>1. /\ Len(old) + i \in 1..Len(new) /\ ~(Len(old) + i <= Len(old)) /\ (Len(old) + i) - Len(old) = i
      BY <1>6, <2>1
    <3> QED BY <1>5, <1>6, <3>1
  <2> QED BY <2>2, <2>3, <2>4
<1>9. /\ \A c \in Agents : batch'[c] = IF c = a THEN b + 1 ELSE batch[c]
      /\ b \in Nat /\ b \in 1..((b + 1) - 1) /\ \A m \in 1..(b - 1) : m \in 1..((b + 1) - 1) /\ m < b
      /\ \A m \in 1..((b + 1) - 1) : m = b \/ m \in 1..(b - 1)
  BY <1>0, <1>1 DEF JTyped
<1>10. ASSUME NEW c \in Agents, NEW o \in Ops
       PROVE  Recorded(c, o)' <=> \/ Recorded(c, o)
                                  \/ c = a /\ result[o] = "ok" /\ \E i \in 1..Len(t) : t[i] = o
  <2>1. CASE c # a
    BY <1>2, <1>9, <2>1 DEF Recorded
  <2>2. CASE c = a
    <3>1. (\E i \in 1..Len(t) : t[i] = o) <=> \E x \in 1..Len(Plan[a][b]) : Plan[a][b][x] = o
      <4>1. ASSUME NEW i \in 1..Len(t), t[i] = o PROVE \E x \in 1..Len(Plan[a][b]) : Plan[a][b][x] = o
        <5>1. PICK x \in 1..Len(Plan[a][b]) : t[i] = Plan[a][b][x]
          BY <1>3, Zenon
        <5> QED BY <4>1, <5>1, Zenon
      <4>2. ASSUME NEW x \in 1..Len(Plan[a][b]), Plan[a][b][x] = o PROVE \E i \in 1..Len(t) : t[i] = o
        <5>1. PICK i \in 1..Len(t) : t[i] = Plan[a][b][x]
          BY <1>3, Zenon
        <5> QED BY <4>2, <5>1, Zenon
      <4> QED BY <4>1, <4>2, Zenon
    <3> QED BY <1>1, <1>2, <1>9, <2>2, <3>1 DEF Recorded
  <2> QED BY <2>1, <2>2
<1>11. \A p \in Ops : Entry(p)' = Entry(p)
  BY <1>0, <1>2, EntrySame
<1>12. JTyped'
  <2>1. \A c \in Agents : batch'[c] \in 1..(Len(Plan[c]) + 1)
    <3>1. Len(Plan[a]) \in Nat
      BY DEF Planned
    <3> QED BY <1>0, <1>1, <1>9, <3>1 DEF JTyped
  <2>2. batch' \in [Agents -> Nat]
    BY <1>0, <1>1 DEF JTyped
  <2> QED BY <1>0, <1>2, <1>7, <2>1, <2>2 DEF JTyped, Entries, Contents
<1>13. Past'
  <2>1. ASSUME NEW c \in Agents, NEW m \in 1..(batch'[c] - 1), NEW i \in 1..Len(Plan[c][m])
        PROVE  result[Plan[c][m][i]] # "none"
    <3>1. CASE m \in 1..(batch[c] - 1)
      BY <3>1 DEF JInv, Past
    <3>2. CASE c = a /\ m = b
      <4>1. Plan[a][b] \in Seq(Ops)
        BY PlannedOps
      <4>2. Plan[a][b][i] \in ToSet(Plan[a][b])
        BY <3>2, <4>1, ToSetIndexed
      <4> QED BY <1>1, <3>2, <4>2
    <3> QED BY <1>1, <1>9, <3>1, <3>2
  <2> QED BY <1>2, <2>1 DEF Past
<1>14. Waited' /\ InTurn'
  BY <1>2, EarlierSame DEF JInv, Waited, InTurn
<1>15. Settled' /\ Once' /\ Known'
  <2>1. Happened' = Happened
    BY <1>2 DEF Happened
  <2>2. \A p \in Ops : NewContent(p)' = NewContent(p)
    BY <1>0, <1>2, EntrySame
  <2> QED BY <1>2, <2>1, <2>2 DEF JInv, Settled, Once, Known
<1>16. JSound'
  <2>1. ASSUME NEW c \in Agents, NEW i \in 1..Len(journal'[c])
        PROVE  \E o \in Ops : Recorded(c, o)' /\ journal'[c][i] = Entry(o)'
    <3>1. CASE i \in 1..Len(journal[c]) /\ journal'[c][i] = journal[c][i]
      <4>1. PICK o \in Ops : Recorded(c, o) /\ journal[c][i] = Entry(o)
        BY <3>1 DEF JInv, JSound
      <4> QED BY <1>10, <1>11, <3>1, <4>1
    <3>2. CASE c = a /\ i \notin 1..Len(old)
      <4>1. PICK k \in 1..Len(M) : journal'[c][i] = Entry(M[k])
        BY <1>7, <1>8, <3>2
      <4>2. M[k] \in Ops
        BY ElementInRange
      <4>3. Recorded(c, M[k])'
        BY <1>4, <1>10, <3>2, <4>2
      <4> QED BY <1>11, <4>1, <4>2, <4>3
    <3> QED BY <1>6, <1>7, <1>8, <3>1, <3>2
  <2> QED BY <2>1 DEF JSound
<1>17. JComplete'
  <2>1. ASSUME NEW c \in Agents, NEW o \in Ops, Recorded(c, o)'
        PROVE  \E i \in 1..Len(journal'[c]) : journal'[c][i].op = o
    <3>1. CASE Recorded(c, o)
      <4>1. PICK i \in 1..Len(journal[c]) : journal[c][i].op = o
        BY <3>1 DEF JInv, JComplete
      <4>2. i \in 1..Len(journal'[c]) /\ journal'[c][i] = journal[c][i]
        BY <1>6, <1>7, <1>8
      <4> QED BY <4>1, <4>2
    <3>2. CASE c = a /\ result[o] = "ok" /\ \E i \in 1..Len(t) : t[i] = o
      <4>1. PICK k \in 1..Len(M) : M[k] = o
        BY <1>4, <3>2
      <4>2. Len(old) + k \in 1..Len(new) /\ new[Len(old) + k] = Entry(o)
        BY <1>8, <4>1
      <4>3. Entry(o).op = o
        BY <1>0, EntryFacts
      <4> QED BY <1>7, <3>2, <4>2, <4>3
    <3> QED BY <1>10, <2>1, <3>1, <3>2
  <2> QED BY <2>1 DEF JComplete
<1>18. JOrdered'
  <2>1. ASSUME NEW c \in Agents, NEW i \in 1..Len(journal'[c]), NEW k \in 1..Len(journal'[c]), i < k
        PROVE  Earlier(c, journal'[c][i].op, journal'[c][k].op)
    <3>1. CASE c # a \/ k \in 1..Len(old)
      <4>1. /\ i \in 1..Len(journal[c]) /\ k \in 1..Len(journal[c])
            /\ journal'[c][i] = journal[c][i] /\ journal'[c][k] = journal[c][k]
        <5>1. CASE c # a
          BY <1>7, <5>1
        <5>2. CASE c = a /\ k \in 1..Len(old)
          <6>1. i \in 1..Len(old)
            BY <2>1, <5>2, <1>6, <1>7
          <6> QED BY <1>6, <1>7, <1>8, <5>2, <6>1
        <5> QED BY <3>1, <5>1, <5>2
      <4> QED BY <2>1, <4>1 DEF JInv, JOrdered
    <3>2. CASE c = a /\ k \notin 1..Len(old)
      <4>1. PICK w \in 1..Len(M) : w = k - Len(old) /\ new[k] = Entry(M[w])
        BY <1>7, <1>8, <3>2
      <4>2. PICK y \in 1..Len(t) : M[w] = t[y]
        BY <1>4
      <4>3. new[k].op = t[y]
        BY <1>0, <4>1, <4>2, EntryFacts, ElementInRange
      <4>4. CASE i \in 1..Len(old)
        <5>1. PICK o \in Ops : Recorded(a, o) /\ old[i] = Entry(o)
          BY <1>6, <4>4 DEF JInv, JSound
        <5>2. new[i].op = o
          BY <1>0, <1>8, <4>4, <5>1, EntryFacts
        <5>3. PICK m \in 1..(b - 1) : \E x \in 1..Len(Plan[a][m]) : Plan[a][m][x] = o
          BY <1>1, <5>1 DEF Recorded
        <5>4. m \in 1..Len(Plan[a]) /\ m < b
          BY <1>1, <5>3
        <5>5. PICK z \in 1..Len(Sorted(Plan[a][m])) : Sorted(Plan[a][m])[z] = o
          <6>1. \A x \in 1..Len(Plan[a][m]) :
                \E z \in 1..Len(Sorted(Plan[a][m])) : Sorted(Plan[a][m])[z] = Plan[a][m][x]
            BY <1>0, <5>4, SortedProperties
          <6> QED BY <5>3, <6>1, Zenon
        <5>6. Earlier(a, o, t[y])
          <6>1. At(a, o, m, z, t[y], b, y)
            BY <1>3, <5>4, <5>5 DEF At
          <6>2. m \in Nat /\ z \in Nat /\ b \in Nat /\ y \in Nat
            OBVIOUS
          <6> QED BY <5>4, <6>1, <6>2 DEF Earlier
        <5> QED BY <1>7, <3>2, <4>3, <5>2, <5>6
      <4>5. CASE i \notin 1..Len(old)
        <5>1. PICK v \in 1..Len(M) : v = i - Len(old) /\ new[i] = Entry(M[v])
          BY <1>7, <1>8, <3>2, <4>5
        <5>2. PICK x \in 1..Len(t) : M[v] = t[x]
          BY <1>4
        <5>3. new[i].op = t[x]
          BY <1>0, <5>1, <5>2, EntryFacts, ElementInRange
        <5>4. v < w
          BY <1>6, <2>1, <4>1, <5>1
        <5>5. x < y
          BY <1>4, <4>2, <5>2, <5>4
        <5>6. Earlier(a, t[x], t[y])
          <6>1. At(a, t[x], b, x, t[y], b, y)
            BY <1>3 DEF At
          <6>2. x \in Nat /\ b \in Nat /\ y \in Nat
            OBVIOUS
          <6> QED BY <5>5, <6>1, <6>2 DEF Earlier
        <5> QED BY <1>7, <3>2, <4>3, <5>3, <5>6
      <4> QED BY <4>4, <4>5
    <3> QED BY <3>1, <3>2
  <2> QED BY <1>2, <2>1, EarlierSame DEF JOrdered
<1> QED BY <1>12, <1>13, <1>14, <1>15, <1>16, <1>17, <1>18 DEF JInv

LEMMA JournalsBegin == Planned /\ Init => JInv
<1> SUFFICES ASSUME Planned, Init PROVE JInv
  OBVIOUS
<1>1. /\ \A a \in Agents : Len(Plan[a]) \in Nat /\ batch[a] = 1 /\ Len(journal[a]) = 0
      /\ Len(history) = 0
      /\ \A o \in Ops : result[o] = "none" /\ pc[o] = "todo"
  BY DEF Init, Planned
<1>2. JTyped
  <2>1. batch \in [Agents -> Nat] /\ result \in [Ops -> {"none", "ok", "error", "timeout"}]
    BY DEF Init
  <2>2. journal \in [Agents -> Seq(Entries)]
    BY EmptyQueue DEF Init
  <2>3. \A a \in Agents : batch[a] \in 1..(Len(Plan[a]) + 1)
    BY <1>1
  <2> QED BY <1>1, <2>1, <2>2, <2>3 DEF JTyped
<1>3. Past /\ Waited /\ Settled
  BY <1>1 DEF Past, Waited, Settled
<1>4. Once /\ Known /\ InTurn
  BY <1>1 DEF Once, Known, InTurn
<1>5. JSound /\ JComplete /\ JOrdered
  BY <1>1 DEF JSound, JComplete, JOrdered, Recorded
<1> QED BY <1>2, <1>3, <1>4, <1>5 DEF JInv

LEMMA JournalsStep == Planned /\ IInv /\ JInv /\ [Next]_vars => JInv'
<1> SUFFICES ASSUME Planned, IInv, JInv, [Next]_vars PROVE JInv'
  OBVIOUS
<1>1. CASE UNCHANGED vars
  <2>1. UNCHANGED <<pc, kind, local, result, batch, journal, history>>
    BY <1>1 DEF vars
  <2>2. /\ Happened' = Happened /\ \A o \in Ops : NewContent(o)' = NewContent(o) /\ Entry(o)' = Entry(o)
        /\ \A a \in Agents, o \in Ops : Recorded(a, o)' <=> Recorded(a, o)
    BY <2>1, EntrySame DEF Happened, Recorded, IInv
  <2>3. JTyped' /\ Past' /\ Settled' /\ Once' /\ Known'
    BY <2>1, <2>2 DEF JInv, JTyped, Past, Settled, Once, Known, Entries, Contents
  <2>4. Waited' /\ InTurn' /\ JOrdered'
    BY <2>1, EarlierSame DEF JInv, Waited, InTurn, JOrdered
  <2>5. JSound' /\ JComplete'
    BY <2>1, <2>2 DEF JInv, JSound, JComplete
  <2> QED BY <2>3, <2>4, <2>5 DEF JInv
<1>2. ASSUME NEW a \in Agents, NEW o \in Ops, Refuse(o, a) \/ Start(o, a) \/ Finish(o, a) PROVE JInv'
  BY <1>2, CallsPreserve
<1>3. ASSUME NEW a \in Agents, NEW o \in Ops, StartRollback(o, a) PROVE FALSE
  BY <1>3 DEF StartRollback, Locked, IInv, Typed
<1>4. ASSUME NEW o \in Ops, Stat(o) \/ Read(o) \/ Check(o) \/ Fail(o) \/ Timeout(o) PROVE JInv'
  BY <1>4, CallsPreserve
<1> QED
  BY <1>1, <1>2, <1>3, <1>4, CommitKeepsJournals, RecordKeepsJournals DEF Next, Ended

\* The journal of an agent lists its changes of the file, in their order.
LEMMA JournalsFollow ==
  ASSUME Planned, IInv, JInv
  PROVE  JournalIsHistory
<1>0. Typed /\ JTyped /\ Settled /\ \A o \in Ops : Locked(o)
  BY EntryFacts DEF IInv, JInv
<1>1. SUFFICES ASSUME NEW a \in Agents
               PROVE  LET own == {j \in DOMAIN history : history[j].op \in Journaled(a)}
                      IN  \E place \in Bijection(DOMAIN journal[a], own) :
                            \A i, k \in DOMAIN journal[a] :
                              /\ Records(journal[a][i], history[place[i]])
                              /\ i < k => \/ place[i] < place[k]
                                          \/ SideBySide(journal[a][i].op, journal[a][k].op)
  BY DEF JournalIsHistory
<1>2. /\ journal[a] \in Seq(Entries) /\ history \in Seq(Changed)
      /\ DOMAIN journal[a] = 1..Len(journal[a]) /\ DOMAIN history = 1..Len(history)
  <2>1. journal[a] \in Seq(Entries)
    BY <1>0 DEF JTyped
  <2>2. history \in Seq(Changed)
    BY <1>0 DEF Typed
  <2>3. DOMAIN journal[a] = 1..Len(journal[a]) /\ DOMAIN history = 1..Len(history)
    BY <2>1, <2>2
  <2> QED BY <2>1, <2>2, <2>3
<1>3. \A o \in Ops : o \in Journaled(a) <=> Recorded(a, o)
  <2>1. \A m \in 1..Len(Plan[a]) : \A o : o \in ToSet(Plan[a][m]) <=> \E i \in 1..Len(Plan[a][m]) : Plan[a][m][i] = o
    BY PlannedOps, ToSetIndexed
  <2>2. \A m \in 1..(batch[a] - 1) : m \in 1..Len(Plan[a])
    BY <1>0 DEF JTyped, Planned
  <2>3. ASSUME NEW o \in Ops PROVE o \in Journaled(a) <=> Recorded(a, o)
    <3>1. o \in Journaled(a) <=> /\ result[o] = "ok"
                                 /\ \E m \in 1..(batch[a] - 1) : o \in ToSet(Plan[a][m])
      BY <1>0, <2>2 DEF Journaled, OpsOf
    <3> QED BY <2>1, <2>2, <3>1 DEF Recorded
  <2> QED BY <2>3
<1>4. PICK own : own = {j \in 1..Len(history) : history[j].op \in Journaled(a)}
  OBVIOUS
<1>5. PICK place \in [1..Len(journal[a]) -> own] :
        \A i \in 1..Len(journal[a]) : history[place[i]].op = journal[a][i].op
  <2>1. ASSUME NEW i \in 1..Len(journal[a])
        PROVE  \E j \in own : history[j].op = journal[a][i].op
    <3>1. PICK o \in Ops : Recorded(a, o) /\ journal[a][i] = Entry(o)
      BY DEF JInv, JSound
    <3>2. o \in Happened /\ Entry(o).op = o
      BY <1>0, <3>1, EntryFacts DEF Recorded, Settled
    <3>3. PICK j \in 1..Len(history) : history[j].op = o
      BY <1>0, <3>2, HappenedIndexed
    <3> QED BY <1>3, <1>4, <3>1, <3>2, <3>3
  <2>2. PICK place : place = [i \in 1..Len(journal[a]) |-> CHOOSE j \in own : history[j].op = journal[a][i].op]
    OBVIOUS
  <2>3. \A i \in 1..Len(journal[a]) : place[i] \in own /\ history[place[i]].op = journal[a][i].op
    BY <2>1, <2>2
  <2> QED BY <2>2, <2>3
<1>6. ASSUME NEW i \in 1..Len(journal[a])
      PROVE  /\ place[i] \in own /\ place[i] \in 1..Len(history)
             /\ \E o \in Ops : Recorded(a, o) /\ journal[a][i] = Entry(o) /\ journal[a][i].op = o
  <2>1. PICK o \in Ops : Recorded(a, o) /\ journal[a][i] = Entry(o)
    BY DEF JInv, JSound
  <2> QED BY <1>0, <1>4, <2>1, EntryFacts
<1>7. ASSUME NEW i \in 1..Len(journal[a]), NEW k \in 1..Len(journal[a]), i < k
      PROVE  /\ journal[a][i].op # journal[a][k].op
             /\ place[i] < place[k] \/ SideBySide(journal[a][i].op, journal[a][k].op)
  <2>1. PICK o \in Ops, p \in Ops : /\ journal[a][i].op = o /\ history[place[i]].op = o
                                   /\ journal[a][k].op = p /\ history[place[k]].op = p
                                   /\ result[o] = "ok"
    BY <1>5, <1>6 DEF Recorded
  <2>2. Earlier(a, o, p)
    BY <1>7, <2>1 DEF JInv, JOrdered
  <2>3. (Waits(a, o, p) \/ SideBySide(o, p)) /\ o # p
    BY <2>2, EarlierMeans
  <2>4. Waits(a, o, p) => place[i] < place[k]
    BY <1>6, <2>1 DEF JInv, InTurn
  <2> QED BY <2>1, <2>3, <2>4
<1>8. place \in Bijection(1..Len(journal[a]), own)
  <2>1. IsInjective(place)
    <3>1. ASSUME NEW i \in 1..Len(journal[a]), NEW k \in 1..Len(journal[a]), place[i] = place[k] PROVE i = k
      <4>1. i < k \/ k < i \/ i = k
        OBVIOUS
      <4>2. journal[a][i].op = journal[a][k].op
        BY <1>5, <3>1
      <4> QED BY <1>7, <4>1, <4>2
    <3> QED BY <3>1 DEF IsInjective
  <2>2. ASSUME NEW j \in own PROVE \E i \in 1..Len(journal[a]) : place[i] = j
    <3>1. j \in 1..Len(history) /\ history[j].op \in Ops /\ Recorded(a, history[j].op)
      BY <1>0, <1>3, <1>4, HappenedIndexed
    <3>2. PICK i \in 1..Len(journal[a]) : journal[a][i].op = history[j].op
      BY <3>1 DEF JInv, JComplete
    <3>3. place[i] = j
      BY <1>5, <1>6, <3>1, <3>2 DEF JInv, Once
    <3> QED BY <3>3
  <2> QED BY <2>1, <2>2 DEF Bijection, Injection, Surjection
<1>9. ASSUME NEW i \in 1..Len(journal[a]) PROVE Records(journal[a][i], history[place[i]])
  <2>1. PICK o \in Ops : journal[a][i] = Entry(o) /\ journal[a][i].op = o
    BY <1>6
  <2>2. PICK c : c = history[place[i]]
    OBVIOUS
  <2>3. c \in Changed /\ c.op = o
    BY <1>0, <1>5, <1>6, <2>1, <2>2, HappenedIndexed
  <2>4. /\ c.new = NewContent(o)
        /\ c.old = local[o] \/ (kind[o] # "edit" /\ o \in Unreadable /\ local[o] = Absent)
    BY <1>6, <2>2, <2>3 DEF JInv, Known
  <2>5. IF kind[o] = "append" THEN Entry(o).old = Absent /\ Entry(o).new = {o}
                              ELSE Entry(o).old = local[o] /\ Entry(o).new = NewContent(o)
    BY <1>0, EntryFacts
  <2> QED BY <2>1, <2>2, <2>3, <2>4, <2>5 DEF Records
<1> QED BY <1>2, <1>4, <1>7, <1>8, <1>9

\* Whatever the agents and the calls, however they interleave, time out or
\* fail: while every call takes the lock, the journal of an agent is the history
\* of the file restricted to its recorded calls, in order but for writes made
\* side by side (file-operation-journal.ts:3-8, QueryEngineExecution.ts:104-127).
THEOREM JournalsAreHistory == Planned /\ Spec => []JournalIsHistory
<1>1. ASSUME Planned PROVE Spec => []JournalIsHistory
  <2>1. (NoRollbacks => IInv /\ JInv) /\ [Next]_vars => (NoRollbacks => IInv /\ JInv)'
    <3> SUFFICES ASSUME NoRollbacks => IInv /\ JInv, [Next]_vars, NoRollbacks' PROVE (IInv /\ JInv)'
      OBVIOUS
    <3>1. NoRollbacks
      BY KindStays DEF NoRollbacks, Locked
    <3> QED BY <1>1, <3>1, StepPreserves, JournalsStep
  <2>2. Init => (NoRollbacks => IInv /\ JInv)
    BY <1>1, InitEstablishes, JournalsBegin
  <2>3. (NoRollbacks => IInv /\ JInv) => JournalIsHistory
    BY <1>1, JournalsFollow DEF JournalIsHistory
  <2> QED BY <2>1, <2>2, <2>3, PTL DEF Spec
<1> QED BY <1>1

-----------------------------------------------------------------------------
(* Rollbacks *)

\* One more entry is selected or not.
LEMMA OnlyAppend ==
  ASSUME NEW U, NEW s \in Seq(U), NEW x \in U, NEW S
  PROVE  Only(Append(s, x), S) = IF x \in S THEN Append(Only(s, S), x) ELSE Only(s, S)
<1>1. PICK t \in Seq(U) : /\ t = Append(s, x) /\ Len(t) = Len(s) + 1 /\ t[Len(s) + 1] = x
                          /\ \A i \in 1..Len(s) : t[i] = s[i]
  BY AppendProperties
<1>2. Len(s) \in Nat /\ Len(t) \in 0..Len(t) /\ Len(t) # 0 /\ Len(t) - 1 = Len(s) /\ Len(s) \in 0..Len(s)
  BY <1>1
<1>3. PICK f : Selects(s, S, f, Len(s)) /\ Only(s, S) = f[Len(s)]
  BY OnlySelects
<1>4. PICK g : Selects(t, S, g, Len(t)) /\ Only(t, S) = g[Len(t)]
  BY OnlySelects
<1>5. ASSUME NEW i \in 0..Len(s) PROVE f[i] = SelectStep(s, S, f, i)
  BY <1>3, Zenon DEF Selects
<1>6. ASSUME NEW i \in 0..Len(t) PROVE g[i] = SelectStep(t, S, g, i)
  BY <1>4, Zenon DEF Selects
<1>7. PICK T : T = {n \in Nat : n \in 0..Len(s) => f[n] = g[n]}
  OBVIOUS
<1>8. 0 \in T
  <2>1. 0 \in 0..Len(s) /\ 0 \in 0..Len(t)
    BY <1>1, <1>2
  <2>2. f[0] = SelectStep(s, S, f, 0) /\ g[0] = SelectStep(t, S, g, 0)
    BY <1>5, <1>6, <2>1
  <2> QED BY <1>7, <2>2 DEF SelectStep
<1>9. ASSUME NEW n \in Nat, n \in T PROVE n + 1 \in T
  <2>1. ASSUME n + 1 \in 0..Len(s) PROVE f[n + 1] = g[n + 1]
    <3>1. /\ n \in 0..Len(s) /\ n + 1 \in 1..Len(s) /\ n + 1 \in 0..Len(t) /\ (n + 1) - 1 = n /\ n + 1 # 0
      BY <1>1, <1>2, <2>1
    <3>2. f[n] = g[n] /\ s[n + 1] = t[n + 1]
      BY <1>1, <1>7, <1>9, <3>1
    <3>3. f[n + 1] = SelectStep(s, S, f, n + 1) /\ g[n + 1] = SelectStep(t, S, g, n + 1)
      BY <1>5, <1>6, <2>1, <3>1
    <3> QED BY <3>1, <3>2, <3>3 DEF SelectStep
  <2> QED BY <1>7, <2>1
<1>10. f[Len(s)] = g[Len(s)]
  <2>1. Nat \subseteq T
    BY <1>8, <1>9, EveryNumber
  <2>2. Len(s) \in T
    BY <1>2, <2>1
  <2> QED BY <1>2, <1>7, <2>2
<1>11. g[Len(t)] = IF x \in S THEN Append(g[Len(s)], x) ELSE g[Len(s)]
  <2>1. g[Len(t)] = SelectStep(t, S, g, Len(t))
    BY <1>2, <1>6
  <2> QED BY <1>1, <1>2, <2>1 DEF SelectStep
<1> QED BY <1>1, <1>3, <1>4, <1>10, <1>11

\* One more change of the file.
LEMMA ChangesGrow ==
  ASSUME history \in Seq(Changed), NEW h \in Changed, history' = Append(history, h), NEW a
  PROVE  Changes(a)' = IF h.op \in OpsOf(a) THEN Append(Changes(a), h) ELSE Changes(a)
<1>1. PICK S : S = [op : OpsOf(a), old : Contents, seen : Contents, new : Contents]
  OBVIOUS
<1>2. h \in S <=> h.op \in OpsOf(a)
  BY <1>1 DEF Changed
<1>3. Changes(a)' = Only(history', S) /\ Changes(a) = Only(history, S)
  BY <1>1 DEF Changes, OpsOf, Contents
<1> QED BY <1>2, <1>3, OnlyAppend

LEMMA ChangesTyped ==
  ASSUME history \in Seq(Changed), NEW a
  PROVE  Changes(a) \in Seq(Changed)
BY OnlyIsPart DEF Changes

-----------------------------------------------------------------------------

Busy(o) == pc[o] \notin {"todo", "over"}

\* Call o makes up the batch agent a is in.
Turn(a, o) == batch[a] \in 1..Len(Plan[a]) /\ Plan[a][batch[a]] = <<o>>

RTyped ==
  /\ kind \in [Ops -> {"edit", "write", "append", "undo", "restore"}]
  /\ pc \in [Ops -> {"todo", "stat", "read", "check", "write", "finish", "over"}]
  /\ local \in [Ops -> Contents] /\ target \in [Ops -> Contents]
  /\ result \in [Ops -> {"none", "ok", "error", "timeout"}]
  /\ history \in Seq(Changed) /\ file \in Contents
  /\ journal \in [Agents -> Seq(Entries)]
  /\ batch \in [Agents -> Nat] /\ \A a \in Agents : batch[a] >= 1

OnlyEditsCheck == \A o \in Ops : pc[o] \in {"stat", "check"} => kind[o] = "edit"

\* Of the calls of agent a only the one whose turn it is may be under way.
InTurnOnly(a) ==
  /\ \A o \in OpsOf(a) : Busy(o) => Turn(a, o)
  /\ \A m \in 1..Len(Plan[a]) : m > batch[a] => pc[Plan[a][m][1]] = "todo"
  /\ \A o \in OpsOf(a) : pc[o] = "over" <=> result[o] # "none"

\* What is put back comes from the journal, which has not changed since.
Aimed(a) == \A o \in OpsOf(a) :
  pc[o] \in {"read", "write"} /\ ~Locked(o) =>
    /\ journal[a] # <<>>
    /\ target[o] = IF kind[o] = "undo" THEN Last(journal[a]).old ELSE Head(journal[a]).old

\* A change that the journal does not have yet.
Pending(a, o) == Turn(a, o) /\ (pc[o] = "finish" \/ (Locked(o) /\ result[o] = "ok"))

\* The entries tell what the changes replaced.
Mirrors(entries, changes) ==
  /\ Len(entries) = Len(changes)
  /\ \A i \in 1..Len(changes) : entries[i].old = Replaced(changes[i])

\* But for the pending change, the journal of a tells of its changes.
UpToDate(a) ==
  /\ (\A o \in Ops : ~Pending(a, o)) => Mirrors(journal[a], Changes(a))
  /\ \A o \in Ops : Pending(a, o) => Mirrors(Append(journal[a], Entry(o)), Changes(a))

Sound(a) == InTurnOnly(a) /\ Aimed(a) /\ UpToDate(a)
Kept(a)  == OneByOne(a) /\ Prompt(a) => Sound(a)

\* The inductive invariant of the rollbacks.
RInv == RTyped /\ OnlyEditsCheck /\ \A a \in Agents : Kept(a)

-----------------------------------------------------------------------------

\* A call belongs to one agent.
LEMMA Owner ==
  ASSUME Planned, NEW a \in Agents
  PROVE  /\ OpsOf(a) \subseteq Ops
         /\ \A b \in Agents : \A o \in OpsOf(a) : o \in OpsOf(b) => a = b
<1>1. ASSUME NEW b \in Agents, NEW o \in OpsOf(b)
      PROVE  o \in Ops /\ \E m \in 1..Len(Plan[b]) : \E i \in 1..Len(Plan[b][m]) : Plan[b][m][i] = o
  <2>1. PICK m \in 1..Len(Plan[b]) : o \in ToSet(Plan[b][m])
    BY <1>1 DEF OpsOf
  <2>2. PICK q \in Seq(Ops) : q = Plan[b][m]
    BY PlannedOps
  <2>3. PICK i \in 1..Len(q) : q[i] = o
    BY <2>1, <2>2, ToSetIndexed
  <2> QED BY <2>2, <2>3
<1>2. ASSUME NEW b \in Agents, NEW o \in OpsOf(a), o \in OpsOf(b)
      PROVE  a = b
  <2>1. PICK m \in 1..Len(Plan[a]) : \E i \in 1..Len(Plan[a][m]) : Plan[a][m][i] = o
    BY <1>1
  <2>2. PICK n \in 1..Len(Plan[b]) : \E k \in 1..Len(Plan[b][n]) : Plan[b][n][k] = o
    BY <1>1, <1>2
  <2>3. \A u \in 1..Len(Plan[a]), v \in 1..Len(Plan[b]) :
        \A x \in 1..Len(Plan[a][u]), y \in 1..Len(Plan[b][v]) :
          Plan[a][u][x] = Plan[b][v][y] => a = b /\ u = v /\ x = y
    BY Zenon DEF Planned
  <2>4. \A x \in 1..Len(Plan[a][m]), y \in 1..Len(Plan[b][n]) :
          Plan[a][m][x] = Plan[b][n][y] => a = b /\ m = n /\ x = y
    BY <2>3, Zenon
  <2> QED BY <2>1, <2>2, <2>4, Zenon
<1> QED BY <1>1, <1>2

\* A batch of one call.
LEMMA OnlyOne ==
  ASSUME NEW o \in Ops, NEW S
  PROVE  Only(<<o>>, S) = IF o \in S THEN <<o>> ELSE <<>>
<1>1. <<>> \in Seq(Ops) /\ Len(<<>>) = 0 /\ <<o>> = Append(<<>>, o)
  OBVIOUS
<1>2. Only(<<>>, S) = <<>>
  <2>1. PICK c \in Seq(Ops) : c = Only(<<>>, S) /\ Part(c, <<>>, S, 0)
    BY <1>1, OnlyIsPart
  <2>2. \A i \in 1..Len(c) : FALSE
    BY <2>1 DEF Part
  <2>3. Len(c) = 0
    <3>1. Len(c) \in Nat /\ (Len(c) # 0 => 1 \in 1..Len(c))
      OBVIOUS
    <3> QED BY <2>2, <3>1
  <2> QED BY <2>1, <2>3
<1>3. Only(Append(<<>>, o), S) = IF o \in S THEN Append(<<>>, o) ELSE <<>>
  BY <1>1, <1>2, OnlyAppend
<1> QED BY <1>1, <1>3

LEMMA SortedOne ==
  ASSUME NEW o \in Ops
  PROVE  Sorted(<<o>>) = <<o>>
<1>1. <<o>> \o <<>> = <<o>> /\ <<>> \o <<o>> = <<o>>
  OBVIOUS
<1>2. CASE Concurrent(o)
  BY <1>1, <1>2, OnlyOne DEF Sorted
<1>3. CASE ~Concurrent(o)
  BY <1>1, <1>3, OnlyOne DEF Sorted
<1> QED BY <1>2, <1>3

LEMMA TurnFacts ==
  ASSUME Planned, NEW a \in Agents, OneByOne(a), RTyped
  PROVE  /\ batch[a] \in 1..Len(Plan[a]) => \E o \in Ops : Turn(a, o)
         /\ \A o \in Ops : Turn(a, o) => Current(a) = <<o>> /\ ToSet(Current(a)) = {o} /\ o \in OpsOf(a)
         /\ \A o, p \in Ops : Turn(a, o) /\ Turn(a, p) => o = p
         /\ \A o \in Ops : o \in ToSet(Current(a)) => Turn(a, o)
<1>1. Plan[a] \in Seq(Seq(Ops)) /\ batch[a] \in Nat /\ batch[a] >= 1 /\ Len(Plan[a]) \in Nat
  BY DEF Planned, RTyped
<1>2. ASSUME batch[a] \in 1..Len(Plan[a])
      PROVE  \E o \in Ops : Plan[a][batch[a]] = <<o>>
  <2>1. PICK q \in Seq(Ops) : q = Plan[a][batch[a]]
    BY <1>1, <1>2, ElementInRange
  <2>2. Len(q) = 1
    BY <1>2, <2>1 DEF OneByOne
  <2>3. q[1] \in Ops /\ q = <<q[1]>>
    BY <2>2
  <2> QED BY <2>1, <2>3
<1>3. \A o : ToSet(<<o>>) = {o}
  <2> SUFFICES ASSUME NEW o PROVE ToSet(<<o>>) = {o}
    OBVIOUS
  <2>1. <<o>> \in Seq({o}) /\ Len(<<o>>) = 1 /\ <<o>>[1] = o
    OBVIOUS
  <2>2. ToSet(<<o>>) = {<<o>>[i] : i \in 1..1}
    BY <2>1, ToSetIndexed
  <2> QED BY <2>1, <2>2
<1>4. ASSUME NEW o \in Ops, Turn(a, o)
      PROVE  Current(a) = <<o>> /\ ToSet(Current(a)) = {o} /\ o \in OpsOf(a)
  <2>1. Current(a) = <<o>>
    BY <1>1, <1>4 DEF Turn, Current
  <2>2. ToSet(Plan[a][batch[a]]) = {o} /\ batch[a] \in 1..Len(Plan[a])
    BY <1>3, <1>4 DEF Turn
  <2> QED BY <1>3, <2>1, <2>2 DEF OpsOf
<1>5. ASSUME NEW o \in Ops, NEW p \in Ops, Turn(a, o), Turn(a, p)
      PROVE  o = p
  <2>1. <<o>> = <<p>>
    BY <1>5 DEF Turn
  <2>2. <<o>>[1] = <<p>>[1]
    BY <2>1
  <2> QED BY <2>2
<1>6. ASSUME NEW o \in Ops, o \in ToSet(Current(a))
      PROVE  Turn(a, o)
  <2>1. CASE batch[a] \in 1..Len(Plan[a])
    <3>1. PICK p \in Ops : Turn(a, p)
      BY <1>2, <2>1 DEF Turn
    <3>2. p = o
      BY <1>4, <1>6, <3>1
    <3> QED BY <3>1, <3>2
  <2>2. CASE batch[a] \notin 1..Len(Plan[a])
    <3>1. Current(a) = <<>>
      BY <1>1, <2>2 DEF Current
    <3> QED BY <1>6, <3>1, EmptyQueue
  <2> QED BY <2>1, <2>2
<1>7. batch[a] \in 1..Len(Plan[a]) => \E o \in Ops : Turn(a, o)
  BY <1>2 DEF Turn
<1> QED BY <1>4, <1>5, <1>6, <1>7

\* The call of a later batch is not the one whose turn it is.
LEMMA LaterCall ==
  ASSUME Planned, NEW a \in Agents, OneByOne(a), RTyped, NEW m \in 1..Len(Plan[a])
  PROVE  /\ Plan[a][m][1] \in OpsOf(a) /\ Plan[a][m] = <<Plan[a][m][1]>>
         /\ \A o \in Ops : Turn(a, o) /\ m > batch[a] => Plan[a][m][1] # o
<1>1. PICK q \in Seq(Ops) : q = Plan[a][m] /\ Len(q) = 1
  BY PlannedOps DEF OneByOne
<1>2. q[1] \in ToSet(q) /\ q = <<q[1]>>
  BY <1>1, ToSetIndexed
<1>3. ASSUME NEW o \in Ops, Turn(a, o), m > batch[a] PROVE q[1] # o
  <2>1. batch[a] \in 1..Len(Plan[a]) /\ Plan[a][batch[a]] = <<o>> /\ Len(<<o>>) = 1 /\ <<o>>[1] = o
    BY <1>3 DEF Turn
  <2>2. \A u \in 1..Len(Plan[a]), v \in 1..Len(Plan[a]) :
        \A x \in 1..Len(Plan[a][u]), y \in 1..Len(Plan[a][v]) :
          Plan[a][u][x] = Plan[a][v][y] => a = a /\ u = v /\ x = y
    BY DEF Planned
  <2>3. \A x \in 1..Len(Plan[a][m]), y \in 1..Len(Plan[a][batch[a]]) :
          Plan[a][m][x] = Plan[a][batch[a]][y] => m = batch[a]
    BY <2>1, <2>2, Zenon
  <2>4. 1 \in 1..Len(Plan[a][m]) /\ 1 \in 1..Len(Plan[a][batch[a]]) /\ Plan[a][batch[a]][1] = o
    BY <1>1, <2>1
  <2>5. Plan[a][m][1] = o => m = batch[a]
    BY <2>3, <2>4, Zenon
  <2> QED BY <1>1, <1>3, <2>1, <2>5
<1> QED BY <1>1, <1>2, <1>3 DEF OpsOf

\* What a call would have in the journal depends on its variables.
LEMMA EntryKnown ==
  ASSUME RTyped, NEW o \in Ops
  PROVE  /\ Entry(o) \in Entries /\ NewContent(o) \in Contents
         /\ Entry(o).old = IF kind[o] = "append" THEN Absent ELSE local[o]
         /\ kind'[o] = kind[o] /\ local'[o] = local[o] /\ target'[o] = target[o] => Entry(o)' = Entry(o)
<1>1. kind[o] \in {"edit", "write", "append", "undo", "restore"} /\ local[o] \in Contents /\ target[o] \in Contents
  BY DEF RTyped
<1>2. NewContent(o) \in Contents /\ {o} \in Contents /\ Absent \in Contents
  BY <1>1 DEF NewContent, Contents, Absent
<1>3. PICK old \in Contents, new \in Contents :
        /\ old = IF kind[o] = "append" THEN Absent ELSE local[o]
        /\ new = IF kind[o] = "append" THEN {o} ELSE NewContent(o)
  BY <1>1, <1>2
<1>4. Entry(o) = [op |-> o, old |-> old, new |-> new]
  BY <1>3 DEF Entry
<1>5. kind'[o] = kind[o] /\ local'[o] = local[o] /\ target'[o] = target[o] => Entry(o)' = Entry(o)
  BY DEF Entry, NewContent
<1> QED BY <1>2, <1>3, <1>4, <1>5 DEF Entries

LEMMA MirrorsSame ==
  ASSUME UNCHANGED kind, NEW j, NEW c, NEW k, NEW d, k = j, d = c
  PROVE  Mirrors(k, d)' <=> Mirrors(j, c)
BY DEF Mirrors, Replaced

-----------------------------------------------------------------------------

LEMMA MirrorsGrow ==
  ASSUME NEW j \in Seq(Entries), NEW c \in Seq(Changed), Mirrors(j, c),
         NEW e \in Entries, NEW h \in Changed, e.old = Replaced(h)
  PROVE  Mirrors(Append(j, e), Append(c, h))
<1>1. Len(j) = Len(c) /\ Len(c) \in Nat /\ \A i \in 1..Len(c) : j[i].old = Replaced(c[i])
  BY DEF Mirrors
<1>2. Len(Append(j, e)) = Len(j) + 1 /\ Len(Append(c, h)) = Len(c) + 1
  OBVIOUS
<1>3. ASSUME NEW i \in 1..(Len(c) + 1) PROVE Append(j, e)[i].old = Replaced(Append(c, h)[i])
  <2>1. CASE i \in 1..Len(c)
    <3>1. Append(j, e)[i] = j[i] /\ Append(c, h)[i] = c[i]
      BY <1>1, <2>1
    <3> QED BY <1>1, <2>1, <3>1
  <2>2. CASE i = Len(c) + 1
    <3>1. Append(j, e)[i] = e /\ Append(c, h)[i] = h
      BY <1>1, <2>2
    <3> QED BY <3>1
  <2> QED BY <1>1, <2>1, <2>2
<1> QED BY <1>1, <1>2, <1>3 DEF Mirrors

\* The ends of the journal tell of the last and the first change.
LEMMA MirrorsEnds ==
  ASSUME NEW j \in Seq(Entries), NEW c \in Seq(Changed), Mirrors(j, c), j # <<>>
  PROVE  Last(j).old = Replaced(Last(c)) /\ Head(j).old = Replaced(Head(c))
<1>1. Len(j) = Len(c) /\ Len(j) \in 1..Len(j) /\ 1 \in 1..Len(j) /\ c # <<>>
  BY DEF Mirrors
<1>2. Last(j) = j[Len(j)] /\ Last(c) = c[Len(c)] /\ Head(j) = j[1] /\ Head(c) = c[1]
  BY <1>1 DEF Last
<1>3. \A i \in 1..Len(c) : j[i].old = Replaced(c[i])
  BY DEF Mirrors
<1> QED BY <1>1, <1>2, <1>3

\* The ends of a journal hold contents.
LEMMA EndsTyped ==
  ASSUME NEW j \in Seq(Entries), j # <<>>
  PROVE  Last(j).old \in Contents /\ Head(j).old \in Contents
<1>1. Len(j) \in 1..Len(j) /\ 1 \in 1..Len(j) /\ Last(j) = j[Len(j)] /\ Head(j) = j[1]
  BY DEF Last
<1>2. Last(j) \in Entries /\ Head(j) \in Entries
  BY <1>1, ElementInRange
<1> QED BY <1>2 DEF Entries

\* What the end of a batch adds to the journal are entries.
LEMMA AddedTyped ==
  ASSUME Planned, RTyped, NEW a \in Agents, NEW S
  PROVE  [i \in 1..Len(Only(InOrder(a), S)) |-> Entry(Only(InOrder(a), S)[i])] \in Seq(Entries)
<1>1. Current(a) \in Seq(Ops)
  <2>1. batch[a] \in Nat /\ batch[a] >= 1 /\ Plan[a] \in Seq(Seq(Ops)) /\ <<>> \in Seq(Ops)
    BY DEF RTyped, Planned
  <2> QED BY <2>1, ElementInRange DEF Current
<1>2. InOrder(a) \in Seq(Ops)
  <2>1. \A T : Only(Current(a), T) \in Seq(Ops)
    BY <1>1, OnlyIsPart
  <2> QED BY <2>1 DEF InOrder, Sorted
<1>3. PICK m \in Seq(Ops) : m = Only(InOrder(a), S)
  BY <1>2, OnlyIsPart
<1>4. \A i \in 1..Len(m) : Entry(m[i]) \in Entries
  BY EntryKnown, ElementInRange
<1> QED BY <1>3, <1>4

\* Every step keeps the types, and only an edit looks at the stamp of the file.
LEMMA RTypedKept ==
  ASSUME Planned, RTyped, OnlyEditsCheck, [Next]_vars
  PROVE  RTyped' /\ OnlyEditsCheck'
<1>1. CASE UNCHANGED vars \/ Ended
  BY <1>1 DEF vars, Ended, RTyped, OnlyEditsCheck, Contents
<1>2. ASSUME NEW a \in Agents, Record(a) PROVE RTyped' /\ OnlyEditsCheck'
  <2>1. PICK added \in Seq(Entries) : journal' = [journal EXCEPT ![a] = @ \o added]
    BY <1>2, AddedTyped DEF Record
  <2>2. journal' \in [Agents -> Seq(Entries)]
    <3>1. journal[a] \o added \in Seq(Entries)
      BY DEF RTyped
    <3> QED BY <2>1, <3>1 DEF RTyped
  <2>3. batch' \in [Agents -> Nat] /\ \A b \in Agents : batch'[b] >= 1
    BY <1>2 DEF Record, RTyped
  <2>4. UNCHANGED <<kind, pc, local, target, result, history, file>>
    BY <1>2 DEF Record
  <2> QED BY <2>2, <2>3, <2>4 DEF RTyped, OnlyEditsCheck, Contents
<1>3. ASSUME NEW a \in Agents, NEW o \in Ops, Refuse(o, a) \/ Start(o, a) PROVE RTyped' /\ OnlyEditsCheck'
  <2>1. /\ UNCHANGED <<kind, local, target, history, file, journal, batch>>
        /\ result' \in [Ops -> {"none", "ok", "error", "timeout"}]
    BY <1>3 DEF Refuse, Start, Settle, toolVars, RTyped
  <2>2. /\ pc' \in [Ops -> {"todo", "stat", "read", "check", "write", "finish", "over"}]
        /\ \A p \in Ops : pc'[p] \in {"stat", "check"} => kind[p] = "edit"
    BY <1>3 DEF Refuse, Start, FirstStep, RTyped, OnlyEditsCheck
  <2> QED BY <2>1, <2>2 DEF RTyped, OnlyEditsCheck, Contents
<1>4. ASSUME NEW a \in Agents, NEW o \in Ops, StartRollback(o, a) PROVE RTyped' /\ OnlyEditsCheck'
  <2>1. PICK g \in Contents : target' = [target EXCEPT ![o] = g]
    BY <1>4, EndsTyped DEF StartRollback, RTyped
  <2>2. /\ pc' = [pc EXCEPT ![o] = "read"] /\ UNCHANGED <<kind, local, result, history, file, journal, batch>>
    BY <1>4 DEF StartRollback, toolVars
  <2> QED BY <2>1, <2>2 DEF RTyped, OnlyEditsCheck, Contents
<1>5. ASSUME NEW a \in Agents, NEW o \in Ops, Finish(o, a) PROVE RTyped' /\ OnlyEditsCheck'
  <2>1. journal' \in [Agents -> Seq(Entries)]
    <3>1. Append(journal[a], Entry(o)) \in Seq(Entries)
      BY EntryKnown DEF RTyped
    <3> QED BY <1>5, <3>1 DEF Finish, RTyped
  <2>2. /\ pc' = [pc EXCEPT ![o] = "over"] /\ UNCHANGED <<kind, local, target, history, file, batch>>
        /\ result' \in [Ops -> {"none", "ok", "error", "timeout"}]
    BY <1>5 DEF Finish, End, Settle, toolVars, RTyped
  <2> QED BY <2>1, <2>2 DEF RTyped, OnlyEditsCheck, Contents
<1>6. ASSUME NEW o \in Ops, Stat(o) \/ Read(o) \/ Check(o) PROVE RTyped' /\ OnlyEditsCheck'
  <2>1. local' \in [Ops -> Contents]
    BY <1>6 DEF Stat, Read, Check, RTyped, Contents, Absent
  <2>2. /\ pc' \in [Ops -> {"todo", "stat", "read", "check", "write", "finish", "over"}]
        /\ \A p \in Ops : pc'[p] \in {"stat", "check"} => kind[p] = "edit"
    BY <1>6 DEF Stat, Read, Check, RTyped, OnlyEditsCheck
  <2>3. UNCHANGED <<kind, target, result, history, file, journal, batch>>
    BY <1>6 DEF Stat, Read, Check, toolVars
  <2> QED BY <2>1, <2>2, <2>3 DEF RTyped, OnlyEditsCheck, Contents
<1>7. ASSUME NEW o \in Ops, Commit(o) PROVE RTyped' /\ OnlyEditsCheck'
  <2>1. file' \in Contents
    BY <1>7, EntryKnown DEF Commit, RTyped
  <2>2. history' \in Seq(Changed)
    <3>1. PICK h \in Changed : history' = Append(history, h)
      <4>1. [op |-> o, old |-> file, seen |-> local[o], new |-> file'] \in Changed
        BY <2>1 DEF RTyped, Changed
      <4> QED BY <1>7, <4>1 DEF Commit
    <3> QED BY <3>1 DEF RTyped
  <2>3. /\ pc' = [pc EXCEPT ![o] = "finish"] /\ UNCHANGED <<kind, local, target, result, journal, batch>>
    BY <1>7 DEF Commit, toolVars
  <2> QED BY <2>1, <2>2, <2>3 DEF RTyped, OnlyEditsCheck, Contents, Changed
<1>8. ASSUME NEW o \in Ops, Fail(o) \/ Timeout(o) PROVE RTyped' /\ OnlyEditsCheck'
  <2>1. /\ UNCHANGED <<kind, local, target, history, file, journal, batch>>
        /\ pc' = pc \/ pc' = [pc EXCEPT ![o] = "over"]
        /\ result' \in [Ops -> {"none", "ok", "error", "timeout"}]
    BY <1>8 DEF Fail, Timeout, End, Settle, toolVars, RTyped
  <2> QED BY <2>1 DEF RTyped, OnlyEditsCheck, Contents
<1> QED BY <1>1, <1>2, <1>3, <1>4, <1>5, <1>6, <1>7, <1>8 DEF Next

-----------------------------------------------------------------------------

\* Steps of others, and of calls of others.
LEMMA BystandersKeep ==
  ASSUME NEW a, Kept(a), UNCHANGED kind,
         batch'[a] = batch[a], journal'[a] = journal[a], Changes(a)' = Changes(a),
         \A o \in OpsOf(a) : /\ pc'[o] = pc[o] /\ local'[o] = local[o]
                             /\ target'[o] = target[o] /\ result'[o] = result[o],
         Planned, RTyped, a \in Agents
  PROVE  Kept(a)'
<1> SUFFICES ASSUME OneByOne(a), Prompt(a)' PROVE Sound(a)'
  BY DEF Kept, OneByOne
<1>1. Sound(a)
  BY DEF Kept, Prompt, OpsOf
<1>2. InTurnOnly(a)'
  <2>1. \A o : Turn(a, o)' <=> Turn(a, o)
    BY DEF Turn
  <2>2. \A o \in OpsOf(a) : /\ Busy(o)' => Turn(a, o)'
                            /\ pc'[o] = "over" <=> result'[o] # "none"
    BY <1>1, <2>1 DEF Sound, InTurnOnly, Busy
  <2>3. \A m \in 1..Len(Plan[a]) : m > batch'[a] => pc'[Plan[a][m][1]] = "todo"
    BY <1>1, LaterCall DEF Sound, InTurnOnly
  <2> QED BY <2>2, <2>3 DEF InTurnOnly, OpsOf
<1>3. Aimed(a)'
  BY <1>1 DEF Sound, Aimed, Locked, OpsOf
<1>4. UpToDate(a)'
  <2>1. \A o \in Ops : /\ Pending(a, o)' <=> Pending(a, o)
                       /\ Pending(a, o) => Entry(o)' = Entry(o)
    <3>1. \A o \in Ops : (Turn(a, o)' <=> Turn(a, o)) /\ (Turn(a, o) => o \in OpsOf(a))
      BY TurnFacts DEF Turn
    <3> QED BY <3>1, EntryKnown DEF Pending, Locked
  <2>2. Mirrors(journal[a], Changes(a))' <=> Mirrors(journal[a], Changes(a))
    BY MirrorsSame
  <2>3. \A o \in Ops : Pending(a, o) =>
          (Mirrors(Append(journal[a], Entry(o)), Changes(a))' <=> Mirrors(Append(journal[a], Entry(o)), Changes(a)))
    BY <2>1, MirrorsSame
  <2> QED BY <1>1, <2>1, <2>2, <2>3 DEF Sound, UpToDate
<1> QED BY <1>2, <1>3, <1>4 DEF Sound

\* The step of the call whose turn it is.
LEMMA TurnKeeps ==
  ASSUME Planned, RTyped, NEW a \in Agents, OneByOne(a), Sound(a), NEW o \in Ops, Turn(a, o),
         UNCHANGED kind, batch'[a] = batch[a],
         \A p \in Ops : p # o => /\ pc'[p] = pc[p] /\ local'[p] = local[p]
                                 /\ target'[p] = target[p] /\ result'[p] = result[p],
         pc'[o] = "over" <=> result'[o] # "none",
         pc'[o] \in {"read", "write"} /\ ~Locked(o) =>
           /\ journal'[a] # <<>>
           /\ target'[o] = IF kind[o] = "undo" THEN Last(journal'[a]).old ELSE Head(journal'[a]).old,
         Pending(a, o)' => Mirrors(Append(journal[a], Entry(o)), Changes(a))',
         ~Pending(a, o)' => Mirrors(journal[a], Changes(a))'
  PROVE  Sound(a)'
<1>1. /\ \A p \in Ops : (Turn(a, p)' <=> Turn(a, p)) /\ (Turn(a, p) <=> p = o)
      /\ OpsOf(a)' = OpsOf(a) /\ OpsOf(a) \subseteq Ops
  <2>1. \A p \in Ops : Turn(a, p) => p = o
    BY TurnFacts
  <2>2. \A p \in Ops : Turn(a, p)' <=> Turn(a, p)
    BY DEF Turn
  <2>3. OpsOf(a)' = OpsOf(a) /\ OpsOf(a) \subseteq Ops
    BY Owner DEF OpsOf
  <2> QED BY <2>1, <2>2, <2>3
<1>2. \A p \in OpsOf(a) : p # o => ~Busy(p) /\ ~Busy(p)'
  BY <1>1 DEF Sound, InTurnOnly, Busy
<1>3. InTurnOnly(a)'
  <2>1. \A p \in OpsOf(a) : Busy(p)' => Turn(a, p)'
    BY <1>1, <1>2
  <2>2. ASSUME NEW m \in 1..Len(Plan[a]), m > batch[a]
        PROVE  pc'[Plan[a][m][1]] = "todo"
    <3>1. Plan[a][m][1] \in Ops /\ Plan[a][m][1] # o
      BY <1>1, <2>2, LaterCall
    <3> QED BY <2>2, <3>1 DEF Sound, InTurnOnly
  <2>3. \A p \in OpsOf(a) : pc'[p] = "over" <=> result'[p] # "none"
    BY <1>1 DEF Sound, InTurnOnly
  <2> QED BY <1>1, <2>1, <2>2, <2>3 DEF InTurnOnly
<1>4. Aimed(a)'
  BY <1>1, <1>2 DEF Aimed, Busy, Locked
<1>5. UpToDate(a)'
  <2>1. \A p \in Ops : Pending(a, p)' => p = o
    BY <1>1 DEF Pending
  <2> QED BY <2>1 DEF UpToDate
<1> QED BY <1>3, <1>4, <1>5 DEF Sound

\* Before its turn is over a call has changed nothing yet.
LEMMA NothingPending ==
  ASSUME Planned, RTyped, NEW a \in Agents, OneByOne(a), Sound(a), NEW o \in Ops, Turn(a, o),
         pc[o] # "finish", pc[o] # "over"
  PROVE  Mirrors(journal[a], Changes(a)) /\ result[o] = "none"
<1>1. o \in OpsOf(a) /\ \A p \in Ops : Turn(a, p) => p = o
  BY TurnFacts
<1>2. result[o] = "none"
  BY <1>1 DEF Sound, InTurnOnly
<1>3. \A p \in Ops : ~Pending(a, p)
  BY <1>1, <1>2 DEF Pending
<1> QED BY <1>2, <1>3 DEF Sound, UpToDate

\* A call that has outlasted its timeout stays so.
LEMMA PromptBefore ==
  ASSUME Planned, RTyped, Next, NEW a \in Agents, Prompt(a)'
  PROVE  Prompt(a)
<1>1. ASSUME NEW p \in Ops, result[p] = "timeout" PROVE result'[p] = "timeout"
  <2>1. ASSUME NEW o \in Ops, NEW b \in Agents, Refuse(o, b) \/ Finish(o, b) PROVE result'[p] = "timeout"
    BY <1>1, <2>1 DEF Refuse, Finish, End, Settle, RTyped
  <2>2. ASSUME NEW o \in Ops, NEW b \in Agents, Start(o, b) \/ StartRollback(o, b) PROVE result'[p] = "timeout"
    BY <1>1, <2>2 DEF Start, StartRollback
  <2>3. ASSUME NEW o \in Ops, Stat(o) \/ Read(o) \/ Check(o) \/ Commit(o) PROVE result'[p] = "timeout"
    BY <1>1, <2>3 DEF Stat, Read, Check, Commit
  <2>4. ASSUME NEW o \in Ops, Fail(o) \/ Timeout(o) PROVE result'[p] = "timeout"
    BY <1>1, <2>4 DEF Fail, Timeout, End, Settle, RTyped
  <2>5. ASSUME NEW b \in Agents, Record(b) PROVE result'[p] = "timeout"
    BY <1>1, <2>5 DEF Record
  <2>6. CASE Ended
    BY <1>1, <2>6 DEF Ended, vars
  <2> QED BY <2>1, <2>2, <2>3, <2>4, <2>5, <2>6 DEF Next
<1>2. OpsOf(a) \subseteq Ops /\ OpsOf(a)' = OpsOf(a)
  BY Owner DEF OpsOf
<1> QED BY <1>1, <1>2 DEF Prompt

\* A call that is ready is its agent's.
LEMMA ReadyOwns ==
  ASSUME Planned, RTyped, NEW o, NEW b \in Agents, Ready(o, b)
  PROVE  o \in OpsOf(b)
<1>1. batch[b] \in Nat /\ batch[b] >= 1 /\ Plan[b] \in Seq(Seq(Ops)) /\ Len(Plan[b]) \in Nat
  BY DEF RTyped, Planned
<1>2. o \in ToSet(Current(b))
  BY DEF Ready
<1>3. CASE batch[b] <= Len(Plan[b])
  <2>1. batch[b] \in 1..Len(Plan[b]) /\ Current(b) = Plan[b][batch[b]]
    BY <1>1, <1>3 DEF Current
  <2> QED BY <1>2, <2>1 DEF OpsOf
<1>4. CASE ~(batch[b] <= Len(Plan[b]))
  <2>1. Current(b) = <<>>
    BY <1>4 DEF Current
  <2> QED BY <1>2, <2>1, EmptyQueue
<1> QED BY <1>3, <1>4

\* Unless it writes, a call leaves the history alone, and one of another agent
\* this agent's state too.
LEMMA OthersCallsKeep ==
  ASSUME Planned, RTyped, NEW a \in Agents, Kept(a), NEW o \in Ops, o \notin OpsOf(a), UNCHANGED kind,
         batch'[a] = batch[a], journal'[a] = journal[a], Changes(a)' = Changes(a),
         \A p \in Ops : p # o => /\ pc'[p] = pc[p] /\ local'[p] = local[p]
                                 /\ target'[p] = target[p] /\ result'[p] = result[p]
  PROVE  Kept(a)'
<1>1. OpsOf(a) \subseteq Ops
  BY Owner
<1>2. \A p \in OpsOf(a) : p # o
  OBVIOUS
<1> QED BY <1>1, <1>2, BystandersKeep

-----------------------------------------------------------------------------

\* A step of call o in which it leaves the history and the journals alone.
LEMMA CallKeeps ==
  ASSUME Planned, RTyped, RTyped', NEW a \in Agents, Kept(a), NEW o \in Ops,
         OneByOne(a) /\ Prompt(a)' /\ o \in OpsOf(a) =>
           /\ Prompt(a) /\ Turn(a, o)
           /\ pc[o] # "finish" /\ pc[o] # "over" /\ pc'[o] # "finish" /\ result'[o] # "ok",
         UNCHANGED <<kind, batch, history, journal>>,
         \A p \in Ops : p # o => /\ pc'[p] = pc[p] /\ local'[p] = local[p]
                                 /\ target'[p] = target[p] /\ result'[p] = result[p],
         o \in OpsOf(a) => (pc'[o] = "over" <=> result'[o] # "none") \/ ~Prompt(a)',
         OneByOne(a) /\ Prompt(a) /\ o \in OpsOf(a) /\ pc'[o] \in {"read", "write"} /\ ~Locked(o) =>
           /\ journal[a] # <<>>
           /\ target'[o] = IF kind[o] = "undo" THEN Last(journal[a]).old ELSE Head(journal[a]).old
  PROVE  Kept(a)'
<1>1. Changes(a)' = Changes(a)
  BY DEF Changes, OpsOf, Contents
<1>2. CASE o \notin OpsOf(a)
  BY <1>1, <1>2, OthersCallsKeep
<1>3. CASE o \in OpsOf(a)
  <2> SUFFICES ASSUME OneByOne(a), Prompt(a)' PROVE Sound(a)'
    BY DEF Kept, OneByOne
  <2>1. Sound(a) /\ Turn(a, o)
    BY <1>3 DEF Kept
  <2>2. Mirrors(journal[a], Changes(a))
    BY <1>3, <2>1, NothingPending
  <2>3. ~Pending(a, o)'
    BY <1>3 DEF Pending
  <2>4. Mirrors(journal[a], Changes(a))'
    BY <1>1, <2>2, MirrorsSame
  <2> QED BY <1>3, <2>1, <2>3, <2>4, TurnKeeps
<1> QED BY <1>2, <1>3

\* A call begins.
LEMMA BeginKeeps ==
  ASSUME Planned, RTyped, RTyped', NEW a \in Agents, Kept(a), Prompt(a)' => Prompt(a),
         NEW b \in Agents, NEW o \in Ops, Refuse(o, b) \/ Start(o, b) \/ StartRollback(o, b)
  PROVE  Kept(a)'
<1>1. pc[o] = "todo" /\ o \in OpsOf(b) /\ o \in ToSet(Current(b)) /\ Ready(o, b)
  BY ReadyOwns DEF Refuse, Start, StartRollback, Ready
<1>2. o \in OpsOf(a) => a = b
  BY <1>1, Owner
<1>3. OneByOne(a) /\ Prompt(a) /\ o \in OpsOf(a) => Turn(a, o) /\ result[o] = "none"
  BY <1>1, <1>2, TurnFacts DEF Kept, Sound, InTurnOnly
<1>4. UNCHANGED <<kind, batch, history, journal, local>>
  BY DEF Refuse, Start, StartRollback, toolVars
<1>5. /\ pc'[o] \in {"stat", "read", "over"}
      /\ \A p \in Ops : p # o => pc'[p] = pc[p] /\ target'[p] = target[p] /\ result'[p] = result[p]
  BY DEF Refuse, Start, StartRollback, FirstStep, Settle, RTyped
<1>6. result[o] = "none" => result'[o] # "ok" /\ (pc'[o] = "over" <=> result'[o] # "none")
  BY DEF Refuse, Start, StartRollback, FirstStep, Settle, RTyped
<1>7. ~Locked(o) /\ pc'[o] \in {"read", "write"} /\ a = b =>
        /\ journal[a] # <<>>
        /\ target'[o] = IF kind[o] = "undo" THEN Last(journal[a]).old ELSE Head(journal[a]).old
  <2>1. CASE Refuse(o, b)
    BY <2>1 DEF Refuse, RTyped
  <2>2. CASE Start(o, b)
    BY <2>2 DEF Start
  <2>3. CASE StartRollback(o, b)
    BY <2>3 DEF StartRollback, RTyped
  <2> QED BY <2>1, <2>2, <2>3
<1>8. CASE o \notin OpsOf(a)
  <2>1. Changes(a)' = Changes(a)
    BY <1>4 DEF Changes, OpsOf, Contents
  <2> QED BY <1>4, <1>5, <1>8, <2>1, OthersCallsKeep
<1>9. CASE ~OneByOne(a) \/ ~Prompt(a)
  BY <1>9 DEF Kept, OneByOne
<1>10. CASE o \in OpsOf(a) /\ OneByOne(a) /\ Prompt(a)
  BY <1>1, <1>2, <1>3, <1>4, <1>5, <1>6, <1>7, <1>10, CallKeeps
<1> QED BY <1>8, <1>9, <1>10

\* A call that is under way has its turn.
LEMMA UnderWay ==
  ASSUME Planned, RTyped, NEW a \in Agents, Kept(a), OneByOne(a), Prompt(a), NEW o \in OpsOf(a), Busy(o)
  PROVE  Turn(a, o) /\ result[o] = "none" /\ Sound(a) /\ o \in Ops
<1>1. Sound(a)
  BY DEF Kept
<1> QED BY <1>1, Owner DEF Sound, InTurnOnly, Busy

\* A call reads and checks.
LEMMA WorkKeeps ==
  ASSUME Planned, RTyped, RTyped', OnlyEditsCheck, NEW a \in Agents, Kept(a), Prompt(a)' => Prompt(a),
         NEW o \in Ops, Stat(o) \/ Read(o) \/ Check(o)
  PROVE  Kept(a)'
<1>1. pc[o] \in {"stat", "read", "check"} /\ Busy(o)
  BY DEF Stat, Read, Check, Proceeds, Busy
<1>2. UNCHANGED <<kind, batch, history, journal, target, result>>
  BY DEF Stat, Read, Check, toolVars
<1>3. /\ pc'[o] \in {"read", "check", "write"}
      /\ \A p \in Ops : p # o => pc'[p] = pc[p] /\ local'[p] = local[p]
  BY DEF Stat, Read, Check, RTyped
<1>4. ~Locked(o) => pc[o] = "read"
  BY <1>1 DEF OnlyEditsCheck, Locked
<1>5. CASE o \notin OpsOf(a)
  <2>1. Changes(a)' = Changes(a)
    BY <1>2 DEF Changes, OpsOf, Contents
  <2> QED BY <1>2, <1>3, <1>5, <2>1, OthersCallsKeep
<1>6. CASE ~OneByOne(a) \/ ~Prompt(a)
  BY <1>6 DEF Kept, OneByOne
<1>7. CASE o \in OpsOf(a) /\ OneByOne(a) /\ Prompt(a)
  <2>1. Turn(a, o) /\ result[o] = "none" /\ Sound(a)
    BY <1>1, <1>7, UnderWay
  <2>2. ~Locked(o) =>
          /\ journal[a] # <<>>
          /\ target'[o] = IF kind[o] = "undo" THEN Last(journal[a]).old ELSE Head(journal[a]).old
    BY <1>2, <1>4, <1>7, <2>1 DEF Sound, Aimed
  <2> QED BY <1>1, <1>2, <1>3, <1>7, <2>1, <2>2, CallKeeps
<1> QED BY <1>5, <1>6, <1>7

\* A call fails, or outlasts its timeout.
LEMMA FailKeeps ==
  ASSUME Planned, RTyped, RTyped', NEW a \in Agents, Kept(a), Prompt(a)' => Prompt(a),
         NEW o \in Ops, Fail(o) \/ Timeout(o)
  PROVE  Kept(a)'
<1>1. UNCHANGED <<kind, batch, history, journal, local, target>>
  BY DEF Fail, Timeout, toolVars
<1>2. Busy(o) /\ \A p \in Ops : p # o => pc'[p] = pc[p] /\ result'[p] = result[p]
  BY DEF Fail, Timeout, Proceeds, Busy, End, Settle, RTyped
<1>3. CASE o \notin OpsOf(a)
  <2>1. Changes(a)' = Changes(a)
    BY <1>1 DEF Changes, OpsOf, Contents
  <2> QED BY <1>1, <1>2, <1>3, <2>1, OthersCallsKeep
<1>4. CASE ~OneByOne(a) \/ ~Prompt(a)'
  BY <1>4 DEF Kept, OneByOne
<1>5. CASE o \in OpsOf(a) /\ OneByOne(a) /\ Prompt(a)'
  <2>1. Turn(a, o) /\ result[o] = "none" /\ Sound(a) /\ Prompt(a)
    BY <1>2, <1>5, UnderWay
  <2>2. ~Timeout(o)
    <3>1. result'[o] # "timeout"
      BY <1>5 DEF Prompt, OpsOf
    <3> QED BY <3>1 DEF Timeout, RTyped
  <2>3. /\ pc[o] # "finish" /\ pc[o] # "over" /\ pc'[o] = "over" /\ result'[o] = "error"
    BY <2>1, <2>2 DEF Fail, Proceeds, End, Settle, RTyped
  <2> QED BY <1>1, <1>2, <1>5, <2>1, <2>3, CallKeeps
<1> QED BY <1>3, <1>4, <1>5

\* The change that is made is the one that the call's entry will tell of.
LEMMA CommitKeeps ==
  ASSUME Planned, RTyped, RTyped', NEW a \in Agents, Kept(a), Prompt(a)' => Prompt(a),
         NEW o \in Ops, Commit(o)
  PROVE  Kept(a)'
<1>1. /\ UNCHANGED <<kind, batch, journal, local, target, result>>
      /\ pc[o] = "write" /\ Busy(o) /\ pc'[o] = "finish" /\ \A p \in Ops : p # o => pc'[p] = pc[p]
  BY DEF Commit, Proceeds, Busy, toolVars, RTyped
<1>2. PICK h \in Changed : h.op = o /\ h.seen = local[o] /\ history' = Append(history, h)
  <2>1. [op |-> o, old |-> file, seen |-> local[o], new |-> file'] \in Changed
    BY DEF RTyped, Changed, Contents
  <2> QED BY <2>1 DEF Commit
<1>3. Changes(a)' = IF o \in OpsOf(a) THEN Append(Changes(a), h) ELSE Changes(a)
  BY <1>2, ChangesGrow DEF RTyped
<1>4. CASE o \notin OpsOf(a)
  BY <1>1, <1>3, <1>4, OthersCallsKeep
<1>5. CASE ~OneByOne(a) \/ ~Prompt(a)
  BY <1>5 DEF Kept, OneByOne
<1>6. CASE o \in OpsOf(a) /\ OneByOne(a) /\ Prompt(a)
  <2>1. Turn(a, o) /\ result[o] = "none" /\ Sound(a)
    BY <1>1, <1>6, UnderWay
  <2>2. Mirrors(journal[a], Changes(a))
    BY <1>1, <1>6, <2>1, NothingPending
  <2>3. Entry(o) \in Entries /\ Entry(o).old = Replaced(h) /\ Entry(o)' = Entry(o)
    BY <1>1, <1>2, EntryKnown DEF Replaced
  <2>4. Mirrors(Append(journal[a], Entry(o)), Append(Changes(a), h))
    <3>1. journal[a] \in Seq(Entries) /\ Changes(a) \in Seq(Changed)
      BY ChangesTyped DEF RTyped
    <3> QED BY <2>2, <2>3, <3>1, MirrorsGrow
  <2>5. Mirrors(Append(journal[a], Entry(o)), Changes(a))'
    <3>1. Append(journal[a], Entry(o))' = Append(journal[a], Entry(o)) /\ Changes(a)' = Append(Changes(a), h)
      BY <1>1, <1>3, <1>6, <2>3
    <3> QED BY <1>1, <2>4, <3>1, MirrorsSame
  <2>6. Pending(a, o)'
    BY <1>1, <2>1 DEF Pending, Turn
  <2>7. Sound(a)'
    BY <1>1, <1>6, <2>1, <2>5, <2>6, TurnKeeps
  <2> QED BY <2>7 DEF Kept
<1> QED BY <1>4, <1>5, <1>6

\* A call succeeds: a rollback enters the journal.
LEMMA FinishKeeps ==
  ASSUME Planned, RTyped, RTyped', NEW a \in Agents, Kept(a), Prompt(a)' => Prompt(a),
         NEW b \in Agents, NEW o \in Ops, Finish(o, b)
  PROVE  Kept(a)'
<1>1. /\ UNCHANGED <<kind, batch, history, local, target>>
      /\ pc[o] = "finish" /\ Busy(o) /\ pc'[o] = "over"
      /\ \A p \in Ops : p # o => pc'[p] = pc[p] /\ result'[p] = result[p]
  BY DEF Finish, Proceeds, Busy, End, Settle, toolVars, RTyped
<1>2. o \in OpsOf(b) /\ (o \in OpsOf(a) => a = b)
  <2>1. o \in OpsOf(b)
    BY DEF Finish, OpsOf
  <2> QED BY <2>1, Owner
<1>3. Changes(a)' = Changes(a) /\ Entry(o)' = Entry(o) /\ Entry(o) \in Entries
  <2>1. Changes(a)' = Changes(a)
    BY <1>1 DEF Changes, OpsOf, Contents
  <2> QED BY <1>1, <2>1, EntryKnown
<1>4. CASE o \notin OpsOf(a)
  <2>1. journal'[a] = journal[a]
    BY <1>2, <1>4 DEF Finish, RTyped
  <2> QED BY <1>1, <1>3, <1>4, <2>1, OthersCallsKeep
<1>5. CASE ~OneByOne(a) \/ ~Prompt(a)
  BY <1>5 DEF Kept, OneByOne
<1>6. CASE o \in OpsOf(a) /\ OneByOne(a) /\ Prompt(a)
  <2>1. Turn(a, o) /\ result[o] = "none" /\ Sound(a) /\ a = b
    BY <1>1, <1>2, <1>6, UnderWay
  <2>2. Mirrors(Append(journal[a], Entry(o)), Changes(a))
    BY <1>1, <2>1 DEF Sound, UpToDate, Pending
  <2>3. result'[o] = "ok"
    BY <2>1 DEF Finish, End, Settle, RTyped
  <2>4. CASE Locked(o)
    <3>1. journal' = journal
      BY <2>4 DEF Finish
    <3>2. Pending(a, o)'
      BY <1>1, <2>1, <2>3, <2>4 DEF Pending, Turn, Locked
    <3>3. Mirrors(Append(journal[a], Entry(o)), Changes(a))'
      BY <1>1, <1>3, <2>2, <3>1, MirrorsSame
    <3>4. Sound(a)'
      BY <1>1, <1>6, <2>1, <2>3, <3>2, <3>3, TurnKeeps
    <3> QED BY <3>4 DEF Kept
  <2>5. CASE ~Locked(o)
    <3>1. journal'[a] = Append(journal[a], Entry(o))
      BY <2>1, <2>5 DEF Finish, RTyped
    <3>2. ~Pending(a, o)'
      BY <1>1, <2>5 DEF Pending, Locked
    <3>3. Mirrors(journal[a], Changes(a))'
      BY <1>1, <1>3, <2>2, <3>1, MirrorsSame
    <3>4. Sound(a)'
      BY <1>1, <1>6, <2>1, <2>3, <3>2, <3>3, TurnKeeps
    <3> QED BY <3>4 DEF Kept
  <2> QED BY <2>4, <2>5
<1> QED BY <1>4, <1>5, <1>6

\* The batch is over: its change is recorded, and nothing is pending.
LEMMA RecordKeeps ==
  ASSUME Planned, RTyped, RTyped', NEW a \in Agents, Kept(a), NEW b \in Agents, Record(b)
  PROVE  Kept(a)'
<1>1. UNCHANGED <<kind, pc, local, target, result, file, history>>
  BY DEF Record
<1>2. Changes(a)' = Changes(a)
  BY <1>1 DEF Changes, OpsOf, Contents
<1>3. CASE a # b
  <2>1. batch'[a] = batch[a] /\ journal'[a] = journal[a]
    BY <1>3 DEF Record, RTyped
  <2> QED BY <1>1, <1>2, <2>1, BystandersKeep
<1>4. CASE a = b
  <2> SUFFICES ASSUME OneByOne(a), Prompt(a)' PROVE Sound(a)'
    BY DEF Kept, OneByOne
  <2>1. Sound(a)
    BY <1>1 DEF Kept, Prompt, OpsOf
  <2>2. batch[a] \in 1..Len(Plan[a]) /\ batch'[a] = batch[a] + 1 /\ batch[a] \in Nat
    <3>1. Plan[a] \in Seq(Seq(Ops)) /\ Len(Plan[a]) \in Nat
      BY DEF Planned
    <3> QED BY <1>4, <3>1 DEF Record, RTyped
  <2>3. PICK o \in Ops : Turn(a, o)
    BY <2>2, TurnFacts
  <2>4. /\ Current(a) = <<o>> /\ ToSet(Current(a)) = {o} /\ o \in OpsOf(a)
        /\ \A p \in Ops : Turn(a, p) => p = o
    BY <2>3, TurnFacts
  <2>5. result[o] # "none" /\ pc[o] = "over"
    BY <1>4, <2>1, <2>4 DEF Record, Sound, InTurnOnly
  <2>6. OpsOf(a)' = OpsOf(a) /\ OpsOf(a) \subseteq Ops
    BY Owner DEF OpsOf
  <2>7. \A p \in OpsOf(a) : ~Busy(p)
    BY <2>1, <2>4, <2>5, <2>6 DEF Sound, InTurnOnly, Busy
  <2>8. InTurnOnly(a)'
    <3>1. \A p \in OpsOf(a) : ~Busy(p)'
      BY <1>1, <2>7 DEF Busy
    <3>2. \A m \in 1..Len(Plan[a]) : m > batch'[a] => pc'[Plan[a][m][1]] = "todo"
      <4>1. \A m \in 1..Len(Plan[a]) : m > batch'[a] => m > batch[a]
        BY <2>2
      <4> QED BY <1>1, <2>1, <4>1 DEF Sound, InTurnOnly
    <3>3. \A p \in OpsOf(a) : pc'[p] = "over" <=> result'[p] # "none"
      BY <1>1, <2>1 DEF Sound, InTurnOnly
    <3> QED BY <2>6, <3>1, <3>2, <3>3 DEF InTurnOnly
  <2>9. Aimed(a)'
    BY <1>1, <2>6, <2>7 DEF Aimed, Busy
  <2>10. PICK mutations, added :
           /\ mutations = IF Locked(o) /\ result[o] = "ok" THEN <<o>> ELSE <<>>
           /\ added = [i \in 1..Len(mutations) |-> Entry(mutations[i])]
           /\ journal'[a] = journal[a] \o added
    <3>1. Only(InOrder(a), {p \in Ops : Locked(p) /\ result[p] = "ok"})
            = IF Locked(o) /\ result[o] = "ok" THEN <<o>> ELSE <<>>
      <4>1. InOrder(a) = <<o>>
        BY <2>4, SortedOne DEF InOrder
      <4> QED BY <4>1, OnlyOne
    <3> QED BY <1>4, <3>1 DEF Record, RTyped
  <2>11. journal[a] \in Seq(Entries)
    BY DEF RTyped
  <2>12. Mirrors(journal[a], Changes(a))'
    <3>1. CASE Locked(o) /\ result[o] = "ok"
      <4>1. Mirrors(Append(journal[a], Entry(o)), Changes(a))
        BY <2>1, <2>3, <3>1 DEF Pending, Sound, UpToDate
      <4>2. added = <<Entry(o)>>
        <5>1. mutations = <<o>> /\ Len(<<o>>) = 1 /\ <<o>>[1] = o
          BY <2>10, <3>1
        <5>2. <<Entry(o)>> = [i \in 1..1 |-> Entry(o)]
          OBVIOUS
        <5>3. \A i \in 1..1 : mutations[i] = o
          BY <5>1
        <5> QED BY <2>10, <5>1, <5>2, <5>3
      <4>3. journal'[a] = Append(journal[a], Entry(o))
        <5>1. Append(journal[a], Entry(o)) = journal[a] \o <<Entry(o)>>
          <6>1. Entry(o) \in Entries
            BY EntryKnown
          <6> QED BY <2>11, <6>1, AppendIsConcat
        <5> QED BY <2>10, <4>2, <5>1
      <4> QED BY <1>1, <1>2, <4>1, <4>3, MirrorsSame
    <3>2. CASE ~(Locked(o) /\ result[o] = "ok")
      <4>1. Mirrors(journal[a], Changes(a))
        <5>1. \A p \in Ops : ~Pending(a, p)
          BY <2>4, <2>5, <3>2 DEF Pending
        <5> QED BY <2>1, <5>1 DEF Sound, UpToDate
      <4>2. added = <<>>
        <5>1. mutations = <<>> /\ Len(<<>>) = 0 /\ 1..0 = {}
          BY <2>10, <3>2
        <5> QED BY <2>10, <5>1
      <4>3. journal'[a] = journal[a]
        <5>1. journal[a] \o <<>> = journal[a]
          BY <2>11, ConcatEmptySeq
        <5> QED BY <2>10, <4>2, <5>1
      <4> QED BY <1>1, <1>2, <4>1, <4>3, MirrorsSame
    <3> QED BY <3>1, <3>2
  <2>13. ASSUME NEW p \in Ops, Pending(a, p)' PROVE FALSE
    <3>1. batch'[a] \in 1..Len(Plan[a]) /\ Plan[a][batch'[a]] = <<p>>
      BY <2>13 DEF Pending, Turn
    <3>2. p \in OpsOf(a) /\ Plan[a][batch'[a]][1] = p
      BY <3>1, LaterCall
    <3>3. pc[p] = "todo"
      BY <2>1, <2>2, <3>1, <3>2 DEF Sound, InTurnOnly
    <3>4. result[p] = "none"
      BY <2>1, <3>2, <3>3 DEF Sound, InTurnOnly
    <3> QED BY <1>1, <2>13, <3>3, <3>4 DEF Pending
  <2>14. UpToDate(a)'
    BY <2>12, <2>13 DEF UpToDate
  <2> QED BY <2>8, <2>9, <2>14 DEF Sound
<1> QED BY <1>3, <1>4

-----------------------------------------------------------------------------

LEMMA RollbacksBegin == Planned /\ Init => RInv
<1> SUFFICES ASSUME Planned, Init PROVE RInv
  OBVIOUS
<1>1. RTyped /\ OnlyEditsCheck
  <2>1. kind \in [Ops -> {"edit", "write", "append", "undo", "restore"}]
    <3>1. kind \in [Ops -> UNION {Kinds[o] : o \in Ops}] /\ \A o \in Ops : kind[o] \in Kinds[o]
      BY DEF Init
    <3>2. \A o \in Ops : Kinds[o] \subseteq {"edit", "write", "append", "undo", "restore"}
      BY KindsAssumption
    <3>3. \A o \in Ops : kind[o] \in {"edit", "write", "append", "undo", "restore"}
      BY <3>1, <3>2
    <3> QED BY <3>1, <3>3
  <2>2. /\ pc \in [Ops -> {"todo", "stat", "read", "check", "write", "finish", "over"}]
        /\ local \in [Ops -> Contents] /\ target \in [Ops -> Contents] /\ file \in Contents
        /\ \A o \in Ops : pc[o] = "todo"
    BY DEF Init, Absent, Contents
  <2>3. result \in [Ops -> {"none", "ok", "error", "timeout"}]
    BY DEF Init
  <2>4. history \in Seq(Changed) /\ journal \in [Agents -> Seq(Entries)]
    BY EmptyQueue DEF Init
  <2>5. batch \in [Agents -> Nat] /\ \A a \in Agents : batch[a] >= 1
    BY DEF Init
  <2> QED BY <2>1, <2>2, <2>3, <2>4, <2>5 DEF RTyped, OnlyEditsCheck
<1>2. ASSUME NEW a \in Agents PROVE Kept(a)
  <2> SUFFICES ASSUME OneByOne(a) PROVE Sound(a)
    BY DEF Kept
  <2>1. \A o \in Ops : pc[o] = "todo" /\ result[o] = "none"
    BY DEF Init
  <2>2. OpsOf(a) \subseteq Ops /\ \A m \in 1..Len(Plan[a]) : Plan[a][m][1] \in OpsOf(a)
    BY <1>1, LaterCall, Owner
  <2>3. InTurnOnly(a) /\ Aimed(a)
    BY <2>1, <2>2 DEF InTurnOnly, Aimed, Busy
  <2>4. Changes(a) = <<>>
    <3>1. history = <<>> /\ <<>> \in Seq(Changed) /\ Len(<<>>) = 0
      BY DEF Init
    <3>2. PICK c \in Seq(Changed) : c = Changes(a) /\ \E S : Part(c, <<>>, S, 0)
      BY <3>1, OnlyIsPart DEF Changes
    <3>3. Len(c) \in Nat /\ (Len(c) # 0 => 1 \in 1..Len(c)) /\ \A i \in 1..Len(c) : FALSE
      BY <3>2 DEF Part
    <3> QED BY <3>2, <3>3
  <2>5. UpToDate(a)
    <3>1. \A o \in Ops : ~Pending(a, o)
      BY <2>1 DEF Pending
    <3>2. journal[a] = <<>> /\ Len(<<>>) = 0
      BY DEF Init
    <3>3. Mirrors(<<>>, <<>>)
      BY <3>2 DEF Mirrors
    <3> QED BY <2>4, <3>1, <3>2, <3>3 DEF UpToDate
  <2> QED BY <2>3, <2>5 DEF Sound
<1> QED BY <1>1, <1>2 DEF RInv

LEMMA RollbacksStep == Planned /\ RInv /\ [Next]_vars => RInv'
<1> SUFFICES ASSUME Planned, RInv, [Next]_vars PROVE RInv'
  OBVIOUS
<1>1. RTyped /\ OnlyEditsCheck /\ RTyped' /\ OnlyEditsCheck' /\ UNCHANGED kind
  BY RTypedKept, KindStays DEF RInv
<1>2. SUFFICES ASSUME NEW a \in Agents, Kept(a) PROVE Kept(a)'
  BY <1>1 DEF RInv
<1>3. CASE UNCHANGED vars \/ Ended
  <2>1. UNCHANGED <<kind, pc, local, target, result, batch, journal, history>>
    BY <1>3 DEF vars, Ended
  <2>2. Changes(a)' = Changes(a)
    BY <2>1 DEF Changes, OpsOf, Contents
  <2> QED BY <1>1, <1>2, <2>1, <2>2, BystandersKeep
<1>4. CASE Next
  <2>1. Prompt(a)' => Prompt(a)
    BY <1>1, <1>4, PromptBefore
  <2>2. ASSUME NEW b \in Agents, NEW o \in Ops, Refuse(o, b) \/ Start(o, b) \/ StartRollback(o, b)
        PROVE  Kept(a)'
    BY <1>1, <1>2, <2>1, <2>2, BeginKeeps
  <2>3. ASSUME NEW b \in Agents, NEW o \in Ops, Finish(o, b) PROVE Kept(a)'
    BY <1>1, <1>2, <2>1, <2>3, FinishKeeps
  <2>4. ASSUME NEW o \in Ops, Stat(o) \/ Read(o) \/ Check(o) PROVE Kept(a)'
    BY <1>1, <1>2, <2>1, <2>4, WorkKeeps
  <2>5. ASSUME NEW o \in Ops, Commit(o) PROVE Kept(a)'
    BY <1>1, <1>2, <2>1, <2>5, CommitKeeps
  <2>6. ASSUME NEW o \in Ops, Fail(o) \/ Timeout(o) PROVE Kept(a)'
    BY <1>1, <1>2, <2>1, <2>6, FailKeeps
  <2>7. ASSUME NEW b \in Agents, Record(b) PROVE Kept(a)'
    BY <1>1, <1>2, <2>7, RecordKeeps
  <2> QED BY <1>3, <1>4, <2>2, <2>3, <2>4, <2>5, <2>6, <2>7 DEF Next
<1> QED BY <1>3, <1>4

\* Only a commit takes a call from its write to its end.
LEMMA OnlyCommits ==
  ASSUME RTyped, Next, NEW o \in Ops, pc[o] = "write", pc'[o] = "finish"
  PROVE  Commit(o)
<1>1. pc \in [Ops -> {"todo", "stat", "read", "check", "write", "finish", "over"}]
  BY DEF RTyped
<1>2. ASSUME NEW p \in Ops, NEW a \in Agents, Refuse(p, a) \/ Start(p, a) \/ StartRollback(p, a) \/ Finish(p, a)
      PROVE  FALSE
  BY <1>1, <1>2 DEF Refuse, Start, StartRollback, Finish, Ready, FirstStep, End
<1>3. ASSUME NEW p \in Ops, Stat(p) \/ Read(p) \/ Check(p) \/ Fail(p) \/ Timeout(p)
      PROVE  FALSE
  BY <1>1, <1>3 DEF Stat, Read, Check, Fail, Timeout, End
<1>4. ASSUME NEW p \in Ops, Commit(p), p # o
      PROVE  FALSE
  BY <1>1, <1>4 DEF Commit
<1>5. ASSUME Ended \/ \E a \in Agents : Record(a)
      PROVE  FALSE
  BY <1>5 DEF Ended, Record, vars
<1> QED BY <1>2, <1>3, <1>4, <1>5 DEF Next

LEMMA WhatIsPutBack ==
  ASSUME Planned, RInv, Next, NEW a \in Agents, NEW o \in OpsOf(a), OneByOne(a), Prompt(a),
         pc[o] = "write", pc'[o] = "finish"
  PROVE  /\ kind[o] = "undo" => PutsBack(o, Replaced(Last(Changes(a))))
         /\ kind[o] = "restore" => PutsBack(o, Replaced(Head(Changes(a))))
<1> SUFFICES ASSUME kind[o] \in {"undo", "restore"}
             PROVE  PutsBack(o, IF kind[o] = "undo" THEN Replaced(Last(Changes(a))) ELSE Replaced(Head(Changes(a))))
  OBVIOUS
<1>1. RTyped /\ Kept(a) /\ Sound(a) /\ o \in Ops
  BY Owner DEF RInv, Kept
<1>2. Commit(o) /\ Turn(a, o) /\ ~Locked(o) /\ NewContent(o) = target[o]
  BY <1>1, OnlyCommits, UnderWay DEF Busy, Locked, NewContent
<1>3. /\ journal[a] # <<>>
      /\ target[o] = IF kind[o] = "undo" THEN Last(journal[a]).old ELSE Head(journal[a]).old
  BY <1>1, <1>2 DEF Sound, Aimed
<1>4. Mirrors(journal[a], Changes(a)) /\ journal[a] \in Seq(Entries) /\ Changes(a) \in Seq(Changed)
  BY <1>1, <1>2, NothingPending, ChangesTyped DEF RTyped
<1>5. target[o] = IF kind[o] = "undo" THEN Replaced(Last(Changes(a))) ELSE Replaced(Head(Changes(a)))
  BY <1>3, <1>4, MirrorsEnds
<1>6. PutsBack(o, target[o])
  BY <1>2 DEF Commit, PutsBack
<1> QED BY <1>5, <1>6

\* A rollback puts back what was there before its agent's last change, or its
\* first, for any number of changes, appends, undos of undos and restores, if
\* that agent makes one call at a time and none outlasts its timeout; nothing
\* is asked of the other agents, who may do whatever they like in the meantime.
\* Of an append it knows nothing and removes the file (FileRestoreTool/index.ts:4-12,
\* FileWriteTool/index.ts:32-37).
THEOREM RollbacksAreTrue == Planned /\ Spec => RollbackTrue
<1>1. ASSUME Planned PROVE Spec => RollbackTrue
  <2>1. Init => RInv
    BY <1>1, RollbacksBegin
  <2>2. RInv /\ [Next]_vars => RInv'
    BY <1>1, RollbacksStep
  <2>3. RInv /\ [Next]_vars =>
          [\A a \in Agents : \A o \in OpsOf(a) :
             OneByOne(a) /\ Prompt(a) /\ pc[o] = "write" /\ pc'[o] = "finish" =>
               /\ kind[o] = "undo" => PutsBack(o, Replaced(Last(Changes(a))))
               /\ kind[o] = "restore" => PutsBack(o, Replaced(Head(Changes(a))))]_vars
    BY <1>1, WhatIsPutBack
  <2> QED BY <2>1, <2>2, <2>3, PTL DEF Spec, RollbackTrue
<1> QED BY <1>1

=============================================================================
