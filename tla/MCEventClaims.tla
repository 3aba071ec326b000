--------------------------- MODULE MCEventClaims ---------------------------
(***************************************************************************)
(* EventClaims for TLC: invocations that race for one or two events.       *)
(***************************************************************************)
EXTENDS EventClaims, TLC

Symmetry == Permutations(Invocation)
=============================================================================
