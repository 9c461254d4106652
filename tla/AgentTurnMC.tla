---------------------------- MODULE AgentTurnMC ----------------------------
(* AgentTurn for TLC.  Two calls of one tool: b is the call whose arguments *)
(* are the placeholder itself, which a model that reads its pruned history  *)
(* may well make, so pruning turns a into b and leaves b as it is.          *)
EXTENDS AgentTurn, TLC

CONSTANTS a, b

StubMC == (a :> b) @@ (b :> b)

=============================================================================
