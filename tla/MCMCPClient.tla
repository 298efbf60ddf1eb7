----------------------------- MODULE MCMCPClient ----------------------------
(* MCPClient.tla on small instances. *)
EXTENDS MCPClient
=============================================================================
