----------------------------- MODULE AtomicFile -----------------------------
(***************************************************************************)
(* What the file-changing tools promise to the agents that share a         *)
(* workspace: each operation changes the file in one step and at most      *)
(* once, and an edit or an append keeps everything the file contains, but  *)
(* for an append that cannot read it, which takes the file to be absent.   *)
(* FileTools.tla is shown to implement this while its tools take the lock. *)
(***************************************************************************)
CONSTANTS
  Ops,          \* the operations, each of which leaves its own mark
  Unreadable    \* those that may fail to read a file that is there

VARIABLES
  file,         \* the marks in the file; {} when there is no file
  done,         \* the operations that took effect
  kind          \* "edit", "write" or "append" for each

fileVars == <<file, done, kind>>

Init == done = {}

Edit(o) ==
  /\ kind[o] = "edit"
  /\ file # {}
  /\ file' = file \cup {o}

Append(o) ==
  /\ kind[o] = "append"
  /\ file' = file \cup {o} \/ (o \in Unreadable /\ file' = {o})

Write(o) ==
  /\ kind[o] = "write"
  /\ file' = {o}

Next ==
  \E o \in Ops \ done :
    /\ Edit(o) \/ Append(o) \/ Write(o)
    /\ done' = done \cup {o}
    /\ UNCHANGED kind

Spec == Init /\ [][Next]_fileVars
=============================================================================
