--------------------------- MODULE MCSessionStore ---------------------------
(* SessionStore.tla on small instances. *)
EXTENDS SessionStore
=============================================================================
