---------------------------- MODULE MC_BookingDesk ----------------------------
(***************************************************************************)
(* Instances of BookingDesk for TLC.                                       *)
(***************************************************************************)
EXTENDS BookingDesk, TLC

\* In turnarounds: two windows that touch, with no turnaround between them.
MCTouching == {[start |-> 0, end |-> 4], [start |-> 4, end |-> 6]}

Symmetry ==
    Permutations(Vehicles) \cup Permutations(Bookings) \cup Permutations(Approvals)
        \cup Permutations(Trips) \cup Permutations(Workers)
=============================================================================
