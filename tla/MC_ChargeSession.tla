--------------------------- MODULE MC_ChargeSession ---------------------------
(***************************************************************************)
(* Instances of ChargeSession for TLC.  Sessions are not interchangeable   *)
(* under a liveness property, so the symmetry is for safety only.          *)
(***************************************************************************)
EXTENDS ChargeSession, TLC

Symmetry == Permutations(Sessions) \cup Permutations(Workers \ Reviewers)
=============================================================================
