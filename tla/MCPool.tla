------------------------------- MODULE MCPool -------------------------------
(***************************************************************************)
(* Pool on small instances. Deadline values are in ticks: with Reserve and *)
(* MinBudget of 1, a deadline of 1 expires at the entry of Submit, 2 gives *)
(* a task that expires at the first tick, 3 one that survives a tick.      *)
(***************************************************************************)
EXTENDS Pool, TLC

Symmetry ==
    Permutations(Tasks) \cup Permutations(Submitters) \cup Permutations(Workers)
=============================================================================
