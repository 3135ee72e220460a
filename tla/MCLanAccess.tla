---------------------------- MODULE MCLanAccess ----------------------------
(* Instances of LanAccess.                                                 *)
EXTENDS LanAccess, TLC

Symmetry == Permutations(Requests)
=============================================================================
