--------------------------- MODULE MC_ApprovalFlow ---------------------------
(***************************************************************************)
(* Instances of ApprovalFlow for TLC.                                      *)
(***************************************************************************)
EXTENDS ApprovalFlow, TLC

\* In turnarounds: two windows that touch (no turnaround between them), and a
\* third one that overlaps the second and leaves exactly the turnaround after
\* the first.
MCWindows == {[start |-> 0, end |-> 4], [start |-> 4, end |-> 6], [start |-> 5, end |-> 8]}

MCTwoWindows == {[start |-> 0, end |-> 4], [start |-> 4, end |-> 6]}

Symmetry == Permutations(Approvals) \cup Permutations(Vehicles) \cup Permutations(Workers)
=============================================================================
