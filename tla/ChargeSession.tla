---------------------------- MODULE ChargeSession ----------------------------
(***************************************************************************)
(* Charging sessions: a pile starts and stops them, closing one bills it   *)
(* or queues it for review, a reviewer approves (and bills) or rejects.    *)
(*                                                                         *)
(* Piles of a reconnecting connection and reviewers are served by workers. *)
(* A handler commits several statements, none of which looks at what the   *)
(* session has become but the one that closes it; the stage of a call      *)
(* names the statement it does next.                                       *)
(*                                                                         *)
(* Energy, price and account are left out: a debit is an entry of the      *)
(* ledger that names the session (BillingLedger has its transaction), and  *)
(* a deviation of the meter from the vehicle's battery may always ask for  *)
(* a review.  The vehicle's charging flag is telemetry like any other and  *)
(* takes any value in VehicleStatus.                                       *)
(***************************************************************************)
EXTENDS Naturals

CONSTANTS Sessions, Connectors, Workers, NoSession, NoConnector,
          Reviewers,          \* the workers that serve reviewers, the others serve piles
          FailAt,             \* the stages whose statement may fail
          Mortal              \* the workers whose handlers may die or leave early

ASSUME NoSessionAssumption == NoSession \notin Sessions
ASSUME NoConnectorAssumption == NoConnector \notin Connectors
ASSUME ReviewersAssumption == Reviewers \subseteq Workers
ASSUME FailAtAssumption == FailAt \subseteq {"close", "lookup", "debit", "settle", "queue"}
ASSUME MortalAssumption == Mortal \subseteq Workers

VARIABLES sessions,   \* rows of charge_transactions; "absent" rows are not inserted yet
          debits,     \* how many entries of the ledger name the session
          calls       \* the handler each worker is executing

vars == <<sessions, debits, calls>>

SessionRow == [status    : {"absent", "charging", "ended", "settled"},
               review    : {"none", "pending", "approved", "rejected"},
               connector : Connectors \cup {NoConnector},
               bound     : BOOLEAN,     \* a vehicle is known
               billed    : BOOLEAN]     \* cost and ledger entry are stamped

\* connector is set while a StartTransaction is under way, again once its
\* insert has failed; verdict is the review status a settlement will write.
CallRow == [stage     : {"rest", "insert", "close", "lookup", "debit", "settle", "queue", "reject", "attribute"},
            session   : Sessions \cup {NoSession},
            connector : Connectors \cup {NoConnector},
            again     : BOOLEAN,
            verdict   : {"none", "approved"}]

Call(stage, s, c, again, verdict) ==
    [stage |-> stage, session |-> s, connector |-> c, again |-> again, verdict |-> verdict]

AtRest == Call("rest", NoSession, NoConnector, FALSE, "none")

TypeOK ==
    /\ sessions \in [Sessions -> SessionRow]
    /\ debits \in [Sessions -> Nat]
    /\ calls \in [Workers -> CallRow]
    /\ \A s \in Sessions : sessions[s].status = "absent" <=> sessions[s].connector = NoConnector
    /\ \A w \in Workers :
           /\ calls[w].stage = "rest" <=> calls[w] = AtRest
           /\ calls[w].stage = "insert" => calls[w].connector # NoConnector
           /\ calls[w].stage \notin {"rest", "insert"} => calls[w].session # NoSession

Init ==
    /\ sessions = [s \in Sessions |-> [status |-> "absent", review |-> "none", connector |-> NoConnector,
                                       bound |-> FALSE, billed |-> FALSE]]
    /\ debits = [s \in Sessions |-> 0]
    /\ calls = [w \in Workers |-> AtRest]

Charging(s) == sessions[s].status = "charging"

ActiveOn(c) == {s \in Sessions : Charging(s) /\ sessions[s].connector = c}

Goto(w, stage) == calls' = [calls EXCEPT ![w].stage = stage]

\* Faulty variant: a stop goes on to insert, as a start does.
FaultyReturn(w) == calls' = [calls EXCEPT ![w].stage = "insert", ![w].session = NoSession]

\* What follows a closed session: the insert of the start that closed it.
Return(w) ==
    calls' = [calls EXCEPT ![w] = IF @.connector = NoConnector THEN AtRest
                                  ELSE Call("insert", NoSession, @.connector, @.again, @.verdict)]

----------------------------------------------------------------------------
(***************************************************************************)
(* Start and stop.                                                         *)
(***************************************************************************)
\* A start closes the session it finds on the connector.
StartRead(w, c) ==
    /\ calls[w].stage = "rest"
    /\ \/ /\ ActiveOn(c) = {}
          /\ calls' = [calls EXCEPT ![w] = Call("insert", NoSession, c, FALSE, "none")]
       \/ \E old \in ActiveOn(c) :
              calls' = [calls EXCEPT ![w] = Call("close", old, c, FALSE, "none")]
    /\ UNCHANGED <<sessions, debits>>

\* Faulty variant: the index is missing.
FaultyConnectorFree(c) == TRUE

\* The partial unique index on (pile_id, connector_id) of charging sessions.
ConnectorFree(c) == ActiveOn(c) = {}

\* Without a vehicle the session is queued for review from the start.
Insert(w, s, bound) ==
    /\ calls[w].stage = "insert"
    /\ sessions[s].status = "absent"
    /\ ConnectorFree(calls[w].connector)
    /\ sessions' = [sessions EXCEPT ![s] = [status |-> "charging", review |-> IF bound THEN "none" ELSE "pending",
                                            connector |-> calls[w].connector, bound |-> bound, billed |-> FALSE]]
    /\ calls' = [calls EXCEPT ![w] = AtRest]
    /\ UNCHANGED debits

\* A lost race: close the winner's session, if it still charges, and insert
\* once more; a second failure is an error.
InsertRefused(w) ==
    /\ calls[w].stage = "insert"
    /\ ~ConnectorFree(calls[w].connector)
    /\ \/ /\ ~calls[w].again
          /\ \E old \in ActiveOn(calls[w].connector) :
                 calls' = [calls EXCEPT ![w] = Call("close", old, @.connector, TRUE, "none")]
       \/ calls[w].again /\ calls' = [calls EXCEPT ![w] = AtRest]
    /\ UNCHANGED <<sessions, debits>>

StopRead(w, s) ==
    /\ calls[w].stage = "rest"
    /\ Charging(s)
    /\ calls' = [calls EXCEPT ![w] = Call("close", s, NoConnector, FALSE, "none")]
    /\ UNCHANGED <<sessions, debits>>

----------------------------------------------------------------------------
(***************************************************************************)
(* finish and bill.                                                        *)
(***************************************************************************)
\* Faulty variant: the update lacks AND status = 'charging'.
FaultyClosable(s) == sessions[s].status # "absent"

Closable(s) == Charging(s)

\* The verdict is written with the end of the session: a deviation, or no
\* vehicle, sends it to the review queue; all others are billed at once.
Close(w, deviates) ==
    LET s == calls[w].session
        needsReview == deviates \/ ~sessions[s].bound IN
    /\ calls[w].stage = "close"
    /\ Closable(s)
    /\ sessions' = [sessions EXCEPT ![s].status = "ended", ![s].review = IF needsReview THEN "pending" ELSE "none"]
    /\ IF needsReview THEN Return(w) ELSE Goto(w, "lookup")
    /\ UNCHANGED debits

CloseRefused(w) ==
    /\ calls[w].stage = "close"
    /\ ~Closable(calls[w].session)
    /\ Return(w)
    /\ UNCHANGED <<sessions, debits>>

\* Faulty variant: no look at the ledger.
FaultyAlreadyDebited(s) == FALSE

AlreadyDebited(s) == debits[s] > 0

\* PriceAndCharge looks for an entry that names the session ...
Lookup(w) ==
    /\ calls[w].stage = "lookup"
    /\ Goto(w, IF AlreadyDebited(calls[w].session) THEN "settle" ELSE "debit")
    /\ UNCHANGED <<sessions, debits>>

\* ... and posts one in a later transaction.
Debit(w) ==
    /\ calls[w].stage = "debit"
    /\ debits' = [debits EXCEPT ![calls[w].session] = @ + 1]
    /\ Goto(w, "settle")
    /\ UNCHANGED sessions

Settle(w) ==
    /\ calls[w].stage = "settle"
    /\ sessions' = [sessions EXCEPT ![calls[w].session] =
                       [@ EXCEPT !.status = "settled", !.review = calls[w].verdict, !.billed = TRUE]]
    /\ Return(w)
    /\ UNCHANGED debits

\* Pricing, debit or settlement fails: the session is to be queued for review.
Fail(w) ==
    /\ calls[w].stage \in FailAt \cap {"lookup", "debit", "settle"}
    /\ Goto(w, "queue")
    /\ UNCHANGED <<sessions, debits>>

Queued(row) == IF row.status \in {"ended", "charging"} THEN [row EXCEPT !.review = "pending"] ELSE row

Queue(w) ==
    /\ calls[w].stage = "queue"
    /\ sessions' = [sessions EXCEPT ![calls[w].session] = Queued(@)]
    /\ Return(w)
    /\ UNCHANGED debits

\* Nobody looks whether the close or the queueing itself failed, for which the
\* same outage or the same 30 seconds that failed the bill are enough.
FailUnnoticed(w) ==
    /\ calls[w].stage \in FailAt \cap {"close", "queue"}
    /\ Return(w)
    /\ UNCHANGED <<sessions, debits>>

----------------------------------------------------------------------------
(***************************************************************************)
(* Review.                                                                 *)
(***************************************************************************)
\* Faulty variant: any session that has ended may be reviewed.
FaultyReviewable(s) == sessions[s].status \in {"ended", "settled"}

Reviewable(s) == sessions[s].review = "pending" /\ ~Charging(s)

ReviewRead(w, s, stage) ==
    /\ calls[w].stage = "rest"
    /\ Reviewable(s)
    /\ calls' = [calls EXCEPT ![w] = Call(stage, s, NoConnector, FALSE, "approved")]
    /\ UNCHANGED <<sessions, debits>>

\* The reviewer may name the vehicle.
Attribute(w, bound) ==
    /\ calls[w].stage = "attribute"
    /\ sessions' = [sessions EXCEPT ![calls[w].session].bound = bound \/ @]
    /\ Goto(w, "lookup")
    /\ UNCHANGED debits

Reject(w) ==
    /\ calls[w].stage = "reject"
    /\ sessions' = [sessions EXCEPT ![calls[w].session] =
                       [@ EXCEPT !.status = "ended", !.review = "rejected", !.billed = FALSE]]
    /\ Return(w)
    /\ UNCHANGED debits

\* The process dies, or the client leaves and the request's context with it.
Crash(w) ==
    /\ w \in Mortal
    /\ calls[w].stage # "rest"
    /\ calls' = [calls EXCEPT ![w] = AtRest]
    /\ UNCHANGED <<sessions, debits>>

----------------------------------------------------------------------------
Begin(w) ==
    \/ w \notin Reviewers /\ \E c \in Connectors : StartRead(w, c)
    \/ w \notin Reviewers /\ \E s \in Sessions : StopRead(w, s)
    \/ w \in Reviewers /\ \E s \in Sessions, stage \in {"attribute", "reject"} : ReviewRead(w, s, stage)

Proceed(w) ==
    \/ \E s \in Sessions, bound \in BOOLEAN : Insert(w, s, bound)
    \/ InsertRefused(w)
    \/ \E deviates \in BOOLEAN : Close(w, deviates)
    \/ CloseRefused(w)
    \/ Lookup(w)
    \/ Debit(w)
    \/ Settle(w)
    \/ Fail(w)
    \/ FailUnnoticed(w)
    \/ Queue(w)
    \/ \E bound \in BOOLEAN : Attribute(w, bound)
    \/ Reject(w)

Next == \E w \in Workers : Begin(w) \/ Proceed(w) \/ Crash(w)

Spec == Init /\ [][Next]_vars

\* The server carries on every handler it has begun.
FairSpec == Spec /\ \A w \in Workers : WF_vars(Proceed(w))

----------------------------------------------------------------------------
\* A connector runs one session at a time, though starts race each other and
\* the stop of the session before.
OneSessionPerConnector ==
    \A s, u \in Sessions :
        Charging(s) /\ Charging(u) /\ sessions[s].connector = sessions[u].connector => s = u

\* billing/hooks.go: PriceAndCharge is "Idempotent on (charge_transaction, tx
\* id)": whatever fails or dies between debit and settlement, however often
\* the session is billed again, it is paid for once.
DebitedOnce == \A s \in Sessions : debits[s] <= 1

\* A settled session has been paid for and stays settled: no late close,
\* queueing or review takes the billing back.
SettledForGood ==
    [][\A s \in Sessions : sessions[s].status = "settled" =>
           debits[s] > 0 /\ sessions'[s].status = "settled" /\ sessions'[s].billed]_vars

\* Energy taken is energy accounted for: a session that has ended is settled,
\* or comes up for review, or was rejected there.  charging/service.go logs of a
\* bill that fails "queued for review", which it is if its mark does not fail too.
EndedIsAccountedFor ==
    \A s \in Sessions :
        sessions[s].status = "ended" ~> (sessions[s].status = "settled" \/ sessions[s].review \in {"pending", "rejected"})

----------------------------------------------------------------------------
(***************************************************************************)
(* The contract.  A session that has ended with no review is due as long   *)
(* as a call is billing it.                                                *)
(***************************************************************************)
BeingBilled(s) == \E w \in Workers : calls[w].session = s /\ calls[w].stage \in {"lookup", "debit", "settle", "queue"}

Phase(s) ==
    LET row == sessions[s] IN
    IF row.status # "ended" THEN row.status
    ELSE IF row.review = "pending" THEN "review"
    ELSE IF row.review = "rejected" THEN "rejected"
    ELSE IF BeingBilled(s) THEN "due" ELSE "forgotten"

\* The ways a session that has ended may be lost: the mark for review fails as
\* well, or the handler of the pile dies before it.
MayForget == "queue" \in FailAt \/ ~(Mortal \subseteq Reviewers)

Contract == INSTANCE ChargeContract WITH phase <- [s \in Sessions |-> Phase(s)]

\* Statement by statement, failing and cut short between any two, the handlers
\* keep the contract: a session is paid for once and before it is settled,
\* stays settled or rejected, and none that ended is forgotten, unless its mark
\* for review fails or the handler of its pile dies.
FollowsContract == Contract!Spec
=============================================================================
