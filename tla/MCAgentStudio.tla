--------------------------- MODULE MCAgentStudio ---------------------------
(* Model-checking instance of AgentStudio: an owner of the scope, a member *)
(* who may only propose, and two requests at a time of either.             *)
EXTENDS AgentStudio, TLC

CONSTANTS s1, s2, o, m

McLines == {[kind |-> "profile", scope |-> "workspace"], [kind |-> "skill", scope |-> "org"]}
SessionsAlike == Permutations({s1, s2})
=============================================================================
