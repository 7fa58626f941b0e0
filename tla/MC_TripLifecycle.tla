-------------------------- MODULE MC_TripLifecycle --------------------------
(***************************************************************************)
(* Instances of TripLifecycle for TLC.                                     *)
(***************************************************************************)
EXTENDS TripLifecycle, TLC

\* Approvals, trips and workers are interchangeable as values.
Symmetry ==
    Permutations(Approvals) \cup Permutations(Trips) \cup Permutations(Workers)
=============================================================================
