--------------------------- MODULE MCQueryEngine ---------------------------
(* QueryEngine.tla on small instances: the limits of the code, scaled down *)
(* in the order they have there (see the configurations).                  *)
EXTENDS QueryEngine
=============================================================================
