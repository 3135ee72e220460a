-------------------------- MODULE MCConfiguration --------------------------
(* Instances of Configuration.                                             *)
EXTENDS Configuration, TLC

Symmetry == Permutations(Clients) \cup Permutations(Sources) \cup Permutations(Digests)
Everything == AllKinds
AnyFault   == FaultKinds
=============================================================================
