------------------------ MODULE MCAgentOrchestrator -------------------------
(* AgentOrchestrator.tla on small instances. *)
EXTENDS AgentOrchestrator, TLC

CONSTANTS plain, gated, other

\* One follow-up for the gated agent, which is the default of a policy, or two,
\* which is the most it can ask for.
OneFollowUp == [a \in Agents |-> IF a \in Gated THEN 1 ELSE 0]
TwoFollowUps == [a \in Agents |-> IF a \in Gated THEN 2 ELSE 0]

\* The agents without a gate are alike.
Alike == Permutations(Agents \ Gated)
=============================================================================
