------------------------------ MODULE MCResume ------------------------------
(***************************************************************************)
(* Resume on small instances: two workers, so that a response call, a      *)
(* release and a sweep race for the same token.                            *)
(***************************************************************************)
EXTENDS Resume, TLC

Symmetry ==
    Permutations(Calls) \cup Permutations(Tokens) \cup Permutations(Workers)
=============================================================================
