---------------------------- MODULE MCGatewayAdmin ----------------------------
(***************************************************************************)
(* Model checking of GatewayAdmin.                                         *)
(***************************************************************************)
EXTENDS GatewayAdmin, TLC

\* The handlers are alike; wanted starts with every assignment.
Symmetry == Permutations(Requests)
=============================================================================
