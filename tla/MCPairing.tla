----------------------------- MODULE MCPairing -----------------------------
(***************************************************************************)
(* The instance of PairingRun that is checked. Nothing tells two callers   *)
(* apart, so they are symmetric.                                           *)
(***************************************************************************)
EXTENDS PairingRun, TLC

Symmetry == Permutations(Callers)
=============================================================================
