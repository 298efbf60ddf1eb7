--------------------------- MODULE MCToolExecutor ---------------------------
(* ToolExecutor.tla on small instances: the main executor, whose user is asked, *)
(* and a sub-agent's, without one.                                              *)
EXTENDS ToolExecutor, TLC

CONSTANTS e1, e2, fetch1, fetch2, edit, shell, tool

Batches == (fetch1 :> e1) @@ (fetch2 :> e1) @@ (edit :> e1) @@ (shell :> e2) @@ (tool :> e2)
Names == (fetch1 :> "WebFetch") @@ (fetch2 :> "WebFetch") @@ (edit :> "FileEdit")
           @@ (shell :> "Bash") @@ (tool :> "mcp")
Order == (fetch1 :> 1) @@ (fetch2 :> 2) @@ (edit :> 3) @@ (shell :> 1) @@ (tool :> 2)

Plain(toolSays) == [denyRule |-> FALSE, tool |-> toolSays, critical |-> "none",
                    allowRule |-> FALSE, askRule |-> FALSE]
\* fetch2 has no check of its own, so that the mode decides about it.
Found == (fetch1 :> Plain("ask")) @@ (fetch2 :> Plain("pass")) @@ (edit :> Plain("ask"))
           @@ (shell :> Plain("allow")) @@ (tool :> Plain("ask"))
=============================================================================
