---------------------------- MODULE MCProvision ----------------------------
(* Provision on small instances. *)
EXTENDS Provision, TLC

NodeSymmetry == Permutations(Nodes) \union Permutations(Versions)
=============================================================================
