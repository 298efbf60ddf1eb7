----------------------------- MODULE MCFileLock -----------------------------
(* FileLock.tla on small instances. *)
EXTENDS FileLock, TLC


=============================================================================
