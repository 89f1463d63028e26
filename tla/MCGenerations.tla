---------------------------- MODULE MCGenerations ----------------------------
(***************************************************************************)
(* Generations on small instances. Two sound packs, so that one overtakes  *)
(* the other; one broken and one hollow pack, so that a rollout fails      *)
(* after and before the disk is touched.                                   *)
(***************************************************************************)
EXTENDS Generations, TLC

Symmetry == Permutations(Sound)
=============================================================================
