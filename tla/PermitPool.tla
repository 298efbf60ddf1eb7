----------------------------- MODULE PermitPool -----------------------------
(***************************************************************************)
(* What every user of the program's counting semaphore relies on: a pool   *)
(* of MaxPermits permits and a line of clients in front of it.  A client   *)
(* joins the line only while every permit is out, and a permit that comes  *)
(* back goes to the client that has waited longest.  The semaphore, the    *)
(* orchestrator, the file lock and both pools of the tool executor are     *)
(* shown to implement this specification.                                  *)
(***************************************************************************)
EXTENDS Integers, FiniteSets, SequencesExt

CONSTANTS
  Clients,      \* the parties that ask for a permit
  MaxPermits    \* how many may hold one at a time

VARIABLES
  holders,      \* the clients that hold a permit
  line          \* the clients that wait for one, longest waiting first

poolVars == <<holders, line>>

\* The front of the line that k returned permits can serve, and the rest.
Heirs(k) == {line[i] : i \in (1..k) \cap (1..Len(line))}
Rest(k)  == SubSeq(line, k + 1, Len(line))

Init == holders = {} /\ line = <<>>

Take(c) ==
  /\ c \notin holders \cup ToSet(line)
  /\ Cardinality(holders) < MaxPermits
  /\ holders' = holders \cup {c}
  /\ UNCHANGED line

Join(c) ==
  /\ c \notin holders \cup ToSet(line)
  /\ Cardinality(holders) >= MaxPermits
  /\ line' = Append(line, c)
  /\ UNCHANGED holders

GiveUp(i) ==
  /\ i \in 1..Len(line)
  /\ line' = RemoveAt(line, i)
  /\ UNCHANGED holders

Return(R) ==
  /\ R # {} /\ R \subseteq holders
  /\ holders' = (holders \ R) \cup Heirs(Cardinality(R))
  /\ line' = Rest(Cardinality(R))

Next ==
  \/ \E c \in Clients : Take(c) \/ Join(c)
  \/ \E i \in 1..Len(line) : GiveUp(i)
  \/ \E R \in SUBSET holders : Return(R)

Spec == Init /\ [][Next]_poolVars
=============================================================================
