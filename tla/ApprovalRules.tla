---------------------------- MODULE ApprovalRules ----------------------------
(***************************************************************************)
(* The decision logic of approval/rules.go that the other modules share:   *)
(* the status machine of a request and when two reservations of a vehicle  *)
(* are too close to each other.                                            *)
(***************************************************************************)
EXTENDS Integers

Pending == {"pending_l1", "pending_l2"}

\* The requests that hold their vehicle (the status list of the conflict query).
Holding == Pending \cup {"approved", "in_use"}

Final == {"rejected", "cancelled", "completed", "expired"}

RequestStates == Holding \cup Final

Events == {"approve", "reject", "cancel", "trip_start", "trip_end", "trip_cancel", "expire"}

\* Faulty variant: off by one.
FaultyMoreLevels(level, step) == level > 2 /\ step < level

MoreLevels(level, step) == level >= 2 /\ step < level

\* The status after the event, as a set: empty when the event is refused.
NextStatus(status, event, level, step) ==
    CASE event = "approve" /\ status \in Pending ->
             IF status = "pending_l1" /\ MoreLevels(level, step) THEN {"pending_l2"} ELSE {"approved"}
      [] event = "reject" /\ status \in Pending -> {"rejected"}
      [] event = "cancel" /\ status \in Pending \cup {"approved"} -> {"cancelled"}
      [] event = "trip_start" /\ status = "approved" -> {"in_use"}
      [] event = "trip_end" /\ status = "in_use" -> {"completed"}
      [] event = "trip_cancel" /\ status = "in_use" -> {"approved"}
      [] event = "expire" /\ status \in Pending \cup {"approved"} -> {"expired"}
      [] OTHER -> {}

\* Faulty variant: the turnaround is not kept.
FaultyTooClose(w, x) == w.start < x.end /\ w.end > x.start

\* Two windows on one vehicle are too close when less than the turnaround
\* lies between them.  Time is counted in turnarounds of 15 minutes.
Turnaround == 1

TooClose(w, x) == w.start < x.end + Turnaround /\ w.end > x.start - Turnaround

\* What that is for: one window begins a turnaround after the other one ends.
Apart(w, x) == w.end + Turnaround <= x.start \/ x.end + Turnaround <= w.start
=============================================================================
