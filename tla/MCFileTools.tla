---------------------------- MODULE MCFileTools -----------------------------
(***************************************************************************)
(* Plans for FileTools.tla: who calls which tools, in which batches.       *)
(***************************************************************************)
EXTENDS FileTools, TLC

CONSTANTS a1, a2, o1, o2, o3, o4, o5, original

\* Agent a1 makes two calls side by side, agent a2 three calls one by one, the
\* last of which may be rollbacks.
Sharing == (a1 :> << <<o1, o2>> >>) @@ (a2 :> << <<o3>>, <<o4>>, <<o5>> >>)
Mixed ==
  (o1 :> {"append"}) @@ (o2 :> {"edit", "write"}) @@
  (o3 :> {"write", "append"}) @@ (o4 :> {"edit", "undo"}) @@
  (o5 :> {"append", "undo", "restore"})

\* One agent appends to the file and undoes that.
Undone == a1 :> << <<o1>>, <<o2>> >>
AppendUndo == (o1 :> {"append"}) @@ (o2 :> {"undo"})
=============================================================================
