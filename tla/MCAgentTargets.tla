--------------------------- MODULE MCAgentTargets ---------------------------
EXTENDS AgentTargets, TLC

CONSTANTS alpha, beta, bad, composition, c1, c2

SharedPaths == {<<composition, "main.tf">>}

(* The two agents are alike, and so are the contents. *)
Symmetry == Permutations({alpha, beta}) \cup Permutations(Content)
=============================================================================
