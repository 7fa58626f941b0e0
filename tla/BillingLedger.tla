---------------------------- MODULE BillingLedger ----------------------------
(***************************************************************************)
(* Accounts of the enterprise, its departments and its employees, the      *)
(* movements posted to them, and the billing of completed trips.           *)
(*                                                                         *)
(* Every movement is a transaction that locks the rows it needs one after  *)
(* the other (SELECT ... FOR UPDATE), computes the new balance from the    *)
(* one it read under the lock and commits.  The stage of a call names the  *)
(* lock it takes next; what it writes becomes visible when it commits.     *)
(*                                                                         *)
(* Accounts are created on first use with balance 0, which no decision     *)
(* tells apart from an account nothing was posted to.  Amounts are counted *)
(* in cents.  What a trip costs is the price engine's: any of Amounts.     *)
(***************************************************************************)
EXTENDS Integers, Sequences

CONSTANTS Accounts, Level,    \* 1 enterprise, 2 department, 3 employee
          Trips, Workers, NoAccount, NoTrip,
          Amounts,            \* what is charged, recharged or moved
          Credits,            \* the credit limits finance may set
          MaxEntries          \* bound: postings per account

ASSUME LevelAssumption == Level \in [Accounts -> 1..3]
ASSUME NoAccountAssumption == NoAccount \notin Accounts
ASSUME NoTripAssumption == NoTrip \notin Trips
ASSUME AmountsAssumption == Amounts \subseteq Nat
ASSUME CreditsAssumption == Credits \subseteq Nat /\ 0 \in Credits
ASSUME MaxEntriesAssumption == MaxEntries \in Nat

VARIABLES balance,    \* accounts.balance
          credit,     \* accounts.credit_limit
          book,       \* account_transactions of each account, in id order
          billing,    \* trips.billing_status of the completed trips
          calls       \* the transaction each worker is executing

vars == <<balance, credit, book, billing, calls>>

Entry == [amount : Int, after : Int, trip : Trips \cup {NoTrip}]

\* "trip": about to lock the trip; "account" and "target": the (first and
\* second) account; "post": everything is locked; "mark": rolled back, about
\* to mark the trip failed.  seen holds the balances read under the locks.
CallRow == [stage   : {"rest", "trip", "account", "target", "post", "mark"},
            trip    : Trips \cup {NoTrip},
            account : Accounts \cup {NoAccount},
            target  : Accounts \cup {NoAccount},
            amount  : Int,
            seen    : [account : Int, target : Int]]

Call(stage, t, a, to, amount) ==
    [stage |-> stage, trip |-> t, account |-> a, target |-> to, amount |-> amount,
     seen |-> [account |-> 0, target |-> 0]]

AtRest == Call("rest", NoTrip, NoAccount, NoAccount, 0)

TypeOK ==
    /\ balance \in [Accounts -> Int]
    /\ credit \in [Accounts -> Credits]
    /\ book \in [Accounts -> Seq(Entry)]
    /\ billing \in [Trips -> {"pending", "charged", "failed"}]
    /\ calls \in [Workers -> CallRow]
    /\ \A w \in Workers :
           /\ calls[w].stage # "rest" => calls[w].account \in Accounts
           /\ calls[w].stage \in {"trip", "mark"} => calls[w].trip # NoTrip
           /\ calls[w].stage = "target" => calls[w].target # NoAccount

Init ==
    /\ balance = [a \in Accounts |-> 0]
    /\ credit = [a \in Accounts |-> 0]
    /\ book = [a \in Accounts |-> << >>]
    /\ billing = [t \in Trips |-> "pending"]
    /\ calls = [w \in Workers |-> AtRest]

tables == <<balance, credit, book, billing>>

----------------------------------------------------------------------------
(***************************************************************************)
(* Row locks, held until the transaction ends.                             *)
(***************************************************************************)
HoldsTrip(w, t) == calls[w].trip = t /\ calls[w].stage \in {"account", "post"}

\* Faulty variant: the account is read without FOR UPDATE.
FaultyHoldsAccount(w, a) == FALSE

HoldsAccount(w, a) ==
    \/ calls[w].account = a /\ calls[w].stage \in {"target", "post"}
    \/ calls[w].target = a /\ calls[w].stage = "post"

TripFree(t) == \A w \in Workers : ~HoldsTrip(w, t)

AccountFree(a) == \A w \in Workers : ~HoldsAccount(w, a)

Begin(w) ==
    /\ calls[w].stage = "rest"
    /\ \A a \in Accounts : Len(book[a]) < MaxEntries
    /\ UNCHANGED tables

Finish(w) == calls' = [calls EXCEPT ![w] = AtRest]

----------------------------------------------------------------------------
\* Recharge, Adjust and the debit of a charging session post one movement.
BeginPosting(w, a, amount) ==
    Begin(w) /\ calls' = [calls EXCEPT ![w] = Call("account", NoTrip, a, NoAccount, amount)]

\* Faulty variant: budget may be handed back.
FaultyCanAllocate(from, to) == Level[from] - Level[to] \in {-1, 1}

\* Budget moves one level down.
CanAllocate(from, to) == Level[to] = Level[from] + 1

BeginAllocate(w, from, to, amount) ==
    /\ CanAllocate(from, to)
    /\ Begin(w)
    /\ calls' = [calls EXCEPT ![w] = Call("account", NoTrip, from, to, -amount)]

\* BillTrip reads the trip, prices it and chooses the account outside of the
\* transaction.
BillRead(w, t, a, amount) ==
    /\ billing[t] # "charged"
    /\ Begin(w)
    /\ calls' = [calls EXCEPT ![w] = Call("trip", t, a, NoAccount, -amount)]

\* Faulty variant: the status read before the transaction is trusted.
FaultyStillDue(t) == TRUE

StillDue(t) == billing[t] # "charged"

BillRecheck(w) ==
    /\ calls[w].stage = "trip"
    /\ TripFree(calls[w].trip)
    /\ \/ StillDue(calls[w].trip) /\ calls' = [calls EXCEPT ![w].stage = "account"]
       \/ ~StillDue(calls[w].trip) /\ Finish(w)
    /\ UNCHANGED tables

\* Faulty variant: the credit limit is added twice.
FaultySufficient(a, amount) == balance[a] + 2 * credit[a] >= amount

Sufficient(a, amount) == balance[a] + credit[a] >= amount

LockAccount(w) ==
    LET c == calls[w] IN
    /\ c.stage = "account"
    /\ AccountFree(c.account)
    /\ c.target # NoAccount => Sufficient(c.account, -c.amount)
    /\ calls' = [calls EXCEPT ![w].seen.account = balance[c.account],
                              ![w].stage = IF c.target = NoAccount THEN "post" ELSE "target"]
    /\ UNCHANGED tables

LockTarget(w) ==
    LET c == calls[w] IN
    /\ c.stage = "target"
    /\ AccountFree(c.target)
    /\ calls' = [calls EXCEPT ![w].seen.target = balance[c.target], ![w].stage = "post"]
    /\ UNCHANGED tables

\* The entry a call posts to account a, from the balance it read.
Movement(c, a) ==
    IF a = c.account
    THEN [amount |-> c.amount, after |-> c.seen.account + c.amount, trip |-> c.trip]
    ELSE [amount |-> -c.amount, after |-> c.seen.target - c.amount, trip |-> c.trip]

\* A debit of 0 posts nothing; the trip is charged all the same.
Touched(c) == IF c.amount = 0 THEN {} ELSE {c.account, c.target}

Commit(w) ==
    LET c == calls[w] IN
    /\ c.stage = "post"
    /\ balance' = [a \in Accounts |-> IF a \in Touched(c) THEN Movement(c, a).after ELSE balance[a]]
    /\ book' = [a \in Accounts |-> IF a \in Touched(c) THEN Append(book[a], Movement(c, a)) ELSE book[a]]
    /\ billing' = [t \in Trips |-> IF t = c.trip THEN "charged" ELSE billing[t]]
    /\ Finish(w)
    /\ UNCHANGED credit

\* Faulty variant: every posting that fails marks a trip.
FaultyBillsTrip(w) == TRUE

BillsTrip(w) == calls[w].trip # NoTrip

\* An error (a refusal, a dead connection) rolls the transaction back; only
\* BillTrip has something left to do, unless the process died.
Rollback(w) ==
    /\ calls[w].stage \in {"trip", "account", "target", "post"}
    /\ \/ Finish(w)
       \/ BillsTrip(w) /\ calls' = [calls EXCEPT ![w].stage = "mark"]
    /\ UNCHANGED tables

\* Faulty variant: the update lacks AND billing_status <> 'charged'.
FaultyFailedStatus(status) == "failed"

FailedStatus(status) == IF status = "charged" THEN "charged" ELSE "failed"

MarkFailed(w) ==
    /\ calls[w].stage = "mark"
    /\ TripFree(calls[w].trip)
    /\ billing' = [billing EXCEPT ![calls[w].trip] = FailedStatus(@)]
    /\ Finish(w)
    /\ UNCHANGED <<balance, credit, book>>

\* UpdateAccount writes the row, so it waits for its lock.
SetCredit(a, limit) ==
    /\ AccountFree(a)
    /\ credit' = [credit EXCEPT ![a] = limit]
    /\ UNCHANGED <<balance, book, billing, calls>>

CallStep(w) ==
    \/ \E a \in Accounts, amount \in Amounts, sign \in {-1, 1} : BeginPosting(w, a, sign * amount)
    \/ \E from, to \in Accounts, amount \in Amounts \ {0} : BeginAllocate(w, from, to, amount)
    \/ \E t \in Trips, a \in Accounts, amount \in Amounts : BillRead(w, t, a, amount)
    \/ BillRecheck(w)
    \/ LockAccount(w)
    \/ LockTarget(w)
    \/ Commit(w)
    \/ Rollback(w)
    \/ MarkFailed(w)

Next ==
    \/ \E a \in Accounts, limit \in Credits : SetCredit(a, limit)
    \/ \E w \in Workers : CallStep(w)

Spec == Init /\ [][Next]_vars

----------------------------------------------------------------------------
\* The balance of an account is what its book says: every entry continues
\* from the one before it, and none is lost (billing/service.go post writes a
\* balance computed from a value read earlier in the transaction).
BalanceMatchesBook ==
    \A a \in Accounts :
        /\ \A i \in DOMAIN book[a] :
               book[a][i].after = (IF i = 1 THEN 0 ELSE book[a][i - 1].after) + book[a][i].amount
        /\ balance[a] = IF book[a] = << >> THEN 0 ELSE book[a][Len(book[a])].after

\* No trip is paid for twice, on whatever account, and a trip somebody paid
\* for counts as charged: the hook of the trip, the settlement and a retry may
\* bill it at the same time, or after an attempt that failed.
TripBilledOnce ==
    \A t \in Trips : \A a, b \in Accounts : \A i \in DOMAIN book[a], j \in DOMAIN book[b] :
        book[a][i].trip = t /\ book[b][j].trip = t => a = b /\ i = j /\ billing[t] = "charged"

\* An allocation never takes an account below its credit limit, although the
\* balance it checked was read before the second account was locked.
AllocationWithinCredit ==
    [][\A w \in Workers : Commit(w) /\ calls[w].target # NoAccount =>
           balance'[calls[w].account] >= -credit[calls[w].account]]_vars

\* Some transaction under way can always go on: no ring of transactions
\* waits for each other's rows.
Waits(w) ==
    \/ calls[w].stage \in {"trip", "mark"} /\ ~TripFree(calls[w].trip)
    \/ calls[w].stage = "account" /\ ~AccountFree(calls[w].account)
    \/ calls[w].stage = "target" /\ ~AccountFree(calls[w].target)

NoLockCycle ==
    (\E w \in Workers : calls[w].stage # "rest") => \E w \in Workers : calls[w].stage # "rest" /\ ~Waits(w)

\* Every movement is one piece, as if no other transaction were under way: the
\* reads and locks spread over the stages of a call, the stored balance and the
\* failed marks come to a step of the contract, or to none at all
\* (billing/service.go post and withTx, the re-checks under lock).
Contract == INSTANCE LedgerContract WITH paid <- {x \in Trips : billing[x] = "charged"}

FollowsContract == Contract!Spec
=============================================================================
