---------------------------- MODULE ChargeContract ----------------------------
(***************************************************************************)
(* What charging promises: a session charges once; when it ends it is due  *)
(* or comes up for review, and it leaves those by being settled, after it  *)
(* was paid for, or by being rejected in a review.  It is paid for once.   *)
(*                                                                         *)
(* A reviewer may reject a session that was paid for: a rejection does not *)
(* look at the ledger.  If what is due may be forgotten, it is not found   *)
(* again: neither paid for nor reviewed.                                   *)
(*                                                                         *)
(* No worker and no call: that handlers which write one statement at a     *)
(* time, fail between them and are cut short come to the same, and that    *)
(* none of them forgets the session it ended, is the refinement.           *)
(***************************************************************************)
EXTENDS Naturals

CONSTANTS Sessions,
          MayForget  \* whether a session that is due may be lost sight of

VARIABLES phase,     \* where each session stands
          debits     \* how often it was paid for

Init ==
    /\ phase = [s \in Sessions |-> "absent"]
    /\ debits = [s \in Sessions |-> 0]

Open == {"due", "review"}

Goes(s, to) == phase' = [phase EXCEPT ![s] = to]

Start(s) == phase[s] = "absent" /\ Goes(s, "charging") /\ UNCHANGED debits

End(s) == phase[s] = "charging" /\ (\E p \in Open : Goes(s, p)) /\ UNCHANGED debits

Pay(s) ==
    /\ phase[s] \in Open
    /\ debits[s] = 0
    /\ debits' = [debits EXCEPT ![s] = 1]
    /\ UNCHANGED phase

Settle(s) == phase[s] \in Open /\ debits[s] = 1 /\ Goes(s, "settled") /\ UNCHANGED debits

Queue(s) == phase[s] = "due" /\ Goes(s, "review") /\ UNCHANGED debits

Reject(s) == phase[s] = "review" /\ Goes(s, "rejected") /\ UNCHANGED debits

Forget(s) == MayForget /\ phase[s] = "due" /\ Goes(s, "forgotten") /\ UNCHANGED debits

Next == \E s \in Sessions : Start(s) \/ End(s) \/ Pay(s) \/ Settle(s) \/ Queue(s) \/ Reject(s) \/ Forget(s)

Spec == Init /\ [][Next]_<<phase, debits>>
=============================================================================
