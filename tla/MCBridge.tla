------------------------------ MODULE MCBridge ------------------------------
(* Instances of Bridge for TLC.                                             *)
EXTENDS BridgeProps, TLC
Symmetry == Permutations(Hosts)
=============================================================================
