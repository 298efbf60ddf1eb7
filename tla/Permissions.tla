---------------------------- MODULE Permissions -----------------------------
(***************************************************************************)
(* What hasPermissionsToUseTool() of src/src/permissions/engine.ts decides *)
(* about a call, from what the rules, the tool's own check and the scan    *)
(* for protected places say of it: a cascade whose first step that applies *)
(* has the word, so that the tool's own "ask" comes before the scan.  The  *)
(* executor passes no plugin rules, and the input as it was before a hook. *)
(***************************************************************************)

\* denyRule, allowRule, askRule: a configured rule matches the call.  tool: the
\* verdict of the tool's own checkPermissions(), "pass" where it has none.
\* critical: what checkSecurityCritical() finds.
CallFacts ==
  [denyRule : BOOLEAN, tool : {"allow", "ask", "deny", "pass"},
   critical : {"none", "ask", "deny"}, allowRule : BOOLEAN, askRule : BOOLEAN]

PermissionModes == {"default", "acceptEdits", "plan", "dontAsk", "auto", "bypassPermissions"}

\* "classify": the mode leaves the decision to the classifier.
Decide(f, mode, armed) ==
  LET bypass == mode = "bypassPermissions" IN
  IF bypass /\ ~armed                     THEN "deny"
  ELSE IF f.denyRule \/ f.tool = "deny"   THEN "deny"
  ELSE IF f.tool = "ask" /\ ~bypass       THEN "ask"
  ELSE IF f.critical # "none"             THEN f.critical
  ELSE IF f.tool # "pass" \/ bypass       THEN "allow"
  ELSE IF f.allowRule                     THEN "allow"
  ELSE IF f.askRule                       THEN "ask"
  ELSE IF mode \in {"dontAsk", "plan"}    THEN "deny"
  ELSE IF mode = "auto"                   THEN "classify"
  ELSE "ask"
=============================================================================
