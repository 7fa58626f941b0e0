--------------------------- MODULE ApprovalContract ---------------------------
(***************************************************************************)
(* What the rest of the system may rely on: the status of a request moves  *)
(* only along the status machine of approval/rules.go, one event at a      *)
(* time.  Trips, lazy expiry and the workflow write the column with SQL    *)
(* of their own, most of it without asking NextStatus.                     *)
(***************************************************************************)
EXTENDS ApprovalRules

CONSTANT Requests

VARIABLE status     \* "absent" before the request is created

Init == status \in [Requests -> {"absent", "pending_l1"}]

Submit(r) ==
    /\ status[r] = "absent"
    /\ status' = [status EXCEPT ![r] = "pending_l1"]

\* How many levels a request needs is not part of the contract.
Event(r, event) ==
    \E level, step \in 1..2 : \E s \in NextStatus(status[r], event, level, step) :
        status' = [status EXCEPT ![r] = s]

Next == \E r \in Requests : Submit(r) \/ \E event \in Events : Event(r, event)

Spec == Init /\ [][Next]_status
=============================================================================
