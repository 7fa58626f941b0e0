------------------------- MODULE BillingLedger_proofs -------------------------
(***************************************************************************)
(* Proofs about BillingLedger, for any accounts, trips, amounts and number *)
(* of concurrent transactions; among them that these come to a ledger      *)
(* without concurrency (LedgerContract).                                   *)
(***************************************************************************)
EXTENDS BillingLedger, TLAPS

-----------------------------------------------------------------------------
(***************************************************************************)
(* Type correctness is inductive by itself.                                *)
(***************************************************************************)
TablesOK ==
    /\ balance \in [Accounts -> Int]
    /\ credit \in [Accounts -> Credits]
    /\ book \in [Accounts -> Seq(Entry)]
    /\ billing \in [Trips -> {"pending", "charged", "failed"}]

CallOK(c) ==
    /\ c \in CallRow
    /\ c.stage # "rest" => c.account \in Accounts
    /\ c.stage \in {"trip", "mark"} => c.trip # NoTrip
    /\ c.stage = "target" => c.target # NoAccount

\* The type invariant speaks of the tables and of each call separately.
LEMMA TypeParts == TypeOK <=> TablesOK /\ calls \in [Workers -> CallRow] /\ \A w \in Workers : CallOK(calls[w])
  BY DEF TypeOK, TablesOK, CallOK

LEMMA RestIsCall == CallOK(AtRest)
  BY DEF AtRest, Call, CallOK, CallRow

\* A step that replaces one call by a well-typed one keeps the calls well typed.
LEMMA CallWritten ==
    ASSUME TypeOK, NEW w \in Workers, NEW c, CallOK(c), calls' = [calls EXCEPT ![w] = c]
    PROVE  calls' \in [Workers -> CallRow] /\ \A x \in Workers : CallOK(calls'[x])
<1>1. \A x \in Workers : CallOK(calls[x]) /\ calls'[x] = IF x = w THEN c ELSE calls[x]
  BY TypeParts DEF TypeOK
<1>2. calls' \in [Workers -> CallRow]
  BY DEF CallOK, TypeOK
<1>. QED  BY <1>1, <1>2

LEMMA FinishTypes ==
    ASSUME TypeOK, NEW w \in Workers, Finish(w)
    PROVE  calls' \in [Workers -> CallRow] /\ \A x \in Workers : CallOK(calls'[x])
  BY CallWritten, RestIsCall DEF Finish

\* A call that begins is well typed.
LEMMA Beginnings ==
    ASSUME NEW a \in Accounts, NEW amount \in Int
    PROVE  /\ CallOK(Call("account", NoTrip, a, NoAccount, amount))
           /\ \A to \in Accounts : CallOK(Call("account", NoTrip, a, to, amount))
           /\ \A t \in Trips : CallOK(Call("trip", t, a, NoAccount, amount))
<1>. USE DEF Call, CallOK, CallRow
<1>1. CallOK(Call("account", NoTrip, a, NoAccount, amount))
  OBVIOUS
<1>2. ASSUME NEW to \in Accounts PROVE CallOK(Call("account", NoTrip, a, to, amount))
  OBVIOUS
<1>3. ASSUME NEW t \in Trips PROVE CallOK(Call("trip", t, a, NoAccount, amount))
  BY NoTripAssumption
<1>. QED  BY <1>1, <1>2, <1>3

\* Every step of a transaction but the commit and the failed mark only writes
\* the worker's own record; this is what it writes.
LEMMA BeginShape ==
    ASSUME NEW w \in Workers,
           NEW a \in Accounts, NEW amount \in Amounts,
           \/ \E sign \in {-1, 1} : BeginPosting(w, a, sign * amount)
           \/ \E to \in Accounts : BeginAllocate(w, a, to, amount)
           \/ \E t \in Trips : BillRead(w, t, a, amount)
    PROVE  /\ UNCHANGED tables
           /\ calls[w].stage = "rest"
           /\ \E m \in Int :
                  \/ calls' = [calls EXCEPT ![w] = Call("account", NoTrip, a, NoAccount, m)]
                  \/ \E to \in Accounts :
                         CanAllocate(a, to) /\ calls' = [calls EXCEPT ![w] = Call("account", NoTrip, a, to, m)]
                  \/ \E t \in Trips : calls' = [calls EXCEPT ![w] = Call("trip", t, a, NoAccount, m)]
<1>1. -amount \in Int /\ \A sign \in {-1, 1} : sign * amount \in Int
  BY AmountsAssumption
<1>. QED  BY <1>1 DEF BeginPosting, BeginAllocate, BillRead, Begin

At(w, stage) == [calls[w] EXCEPT !.stage = stage]

AccountSeen(w) ==
    [calls[w] EXCEPT !.seen = [calls[w].seen EXCEPT !.account = balance[calls[w].account]],
                     !.stage = IF calls[w].target = NoAccount THEN "post" ELSE "target"]

TargetSeen(w) ==
    [calls[w] EXCEPT !.seen = [calls[w].seen EXCEPT !.target = balance[calls[w].target]],
                     !.stage = "post"]

LEMMA StepShape ==
    ASSUME TypeOK, NEW w \in Workers
    PROVE  /\ BillRecheck(w) =>
                  /\ UNCHANGED tables
                  /\ \/ CallOK(At(w, "account")) /\ calls' = [calls EXCEPT ![w] = At(w, "account")]
                     \/ CallOK(AtRest) /\ calls' = [calls EXCEPT ![w] = AtRest]
           /\ LockAccount(w) =>
                  UNCHANGED tables /\ CallOK(AccountSeen(w)) /\ calls' = [calls EXCEPT ![w] = AccountSeen(w)]
           /\ LockTarget(w) =>
                  UNCHANGED tables /\ CallOK(TargetSeen(w)) /\ calls' = [calls EXCEPT ![w] = TargetSeen(w)]
           /\ Rollback(w) =>
                  /\ UNCHANGED tables
                  /\ \/ CallOK(At(w, "mark")) /\ calls' = [calls EXCEPT ![w] = At(w, "mark")]
                     \/ CallOK(AtRest) /\ calls' = [calls EXCEPT ![w] = AtRest]
<1>c. CallOK(calls[w]) /\ TablesOK /\ calls \in [Workers -> CallRow]
  BY TypeParts
<1>f. Finish(w) => calls' = [calls EXCEPT ![w] = AtRest]
  BY DEF Finish
<1>1. ASSUME BillRecheck(w)
      PROVE  /\ UNCHANGED tables
             /\ \/ CallOK(At(w, "account")) /\ calls' = [calls EXCEPT ![w] = At(w, "account")]
                \/ CallOK(AtRest) /\ calls' = [calls EXCEPT ![w] = AtRest]
  <2>1. CallOK(At(w, "account"))
    BY <1>c, <1>1 DEF CallOK, CallRow, BillRecheck, At
  <2>. QED  BY <1>1, <1>f, <2>1, RestIsCall DEF BillRecheck, At
<1>2. ASSUME LockAccount(w)
      PROVE  UNCHANGED tables /\ CallOK(AccountSeen(w)) /\ calls' = [calls EXCEPT ![w] = AccountSeen(w)]
  <2>1. calls[w].account \in Accounts /\ balance[calls[w].account] \in Int
    BY <1>c, <1>2 DEF CallOK, LockAccount, TablesOK
  <2>2. CallOK(AccountSeen(w))
    BY <1>c, <2>1 DEF CallOK, CallRow, AccountSeen
  <2>3. calls' = [calls EXCEPT ![w] = AccountSeen(w)]
    BY <1>2, <1>c DEF LockAccount, AccountSeen
  <2>. QED  BY <1>2, <2>2, <2>3 DEF LockAccount
<1>3. ASSUME LockTarget(w)
      PROVE  UNCHANGED tables /\ CallOK(TargetSeen(w)) /\ calls' = [calls EXCEPT ![w] = TargetSeen(w)]
  <2>1. calls[w].target \in Accounts /\ balance[calls[w].target] \in Int
    BY <1>c, <1>3 DEF CallOK, CallRow, LockTarget, TablesOK
  <2>2. CallOK(TargetSeen(w))
    BY <1>c, <1>3, <2>1 DEF CallOK, CallRow, LockTarget, TargetSeen
  <2>3. calls' = [calls EXCEPT ![w] = TargetSeen(w)]
    BY <1>3, <1>c DEF LockTarget, TargetSeen
  <2>. QED  BY <1>3, <2>2, <2>3 DEF LockTarget
<1>4. ASSUME Rollback(w)
      PROVE  /\ UNCHANGED tables
             /\ \/ CallOK(At(w, "mark")) /\ calls' = [calls EXCEPT ![w] = At(w, "mark")]
                \/ CallOK(AtRest) /\ calls' = [calls EXCEPT ![w] = AtRest]
  <2>1. CASE Finish(w)
    BY <1>4, <2>1, <1>f, RestIsCall DEF Rollback
  <2>2. CASE BillsTrip(w) /\ calls' = [calls EXCEPT ![w].stage = "mark"]
    <3>1. CallOK(At(w, "mark"))
      BY <1>c, <1>4, <2>2 DEF CallOK, CallRow, BillsTrip, Rollback, At
    <3>. QED  BY <1>4, <2>2, <3>1 DEF Rollback, At
  <2>. QED  BY <1>4, <2>1, <2>2 DEF Rollback
<1>. QED  BY <1>1, <1>2, <1>3, <1>4

\* The entries of a well-typed call are entries.
LEMMA MovementTypes ==
    ASSUME NEW c, CallOK(c), NEW a
    PROVE  Movement(c, a) \in Entry /\ Movement(c, a).after \in Int
  BY DEF CallOK, CallRow, Movement, Entry

LEMMA CommitTypes ==
    ASSUME TypeOK, NEW w \in Workers, Commit(w)
    PROVE  TypeOK'
<1>c. CallOK(calls[w]) /\ TablesOK
  BY TypeParts
<1>1. balance' \in [Accounts -> Int]
  BY <1>c, MovementTypes DEF Commit, TablesOK
<1>2. book' \in [Accounts -> Seq(Entry)]
  <2>1. ASSUME NEW a \in Accounts PROVE Append(book[a], Movement(calls[w], a)) \in Seq(Entry)
    BY <1>c, MovementTypes DEF TablesOK
  <2>. QED  BY <1>c, <2>1 DEF Commit, TablesOK
<1>3. billing' \in [Trips -> {"pending", "charged", "failed"}] /\ credit' = credit
  BY <1>c DEF Commit, TablesOK
<1>4. calls' \in [Workers -> CallRow] /\ \A x \in Workers : CallOK(calls'[x])
  BY FinishTypes DEF Commit
<1>. QED  BY <1>c, <1>1, <1>2, <1>3, <1>4 DEF TypeOK, TablesOK, CallOK

LEMMA TypeStep == TypeOK /\ [Next]_vars => TypeOK'
<1>. SUFFICES ASSUME TypeOK, [Next]_vars PROVE TypeOK'
  OBVIOUS
<1>t. TablesOK
  BY TypeParts
\* Whoever leaves the tables alone and writes a well-typed call keeps the type.
<1>k. ASSUME NEW w \in Workers, NEW c, CallOK(c), UNCHANGED tables, calls' = [calls EXCEPT ![w] = c] PROVE TypeOK'
  BY <1>k, <1>t, CallWritten DEF TypeOK, TablesOK, CallOK, tables
<1>1. ASSUME NEW a \in Accounts, NEW limit \in Credits, SetCredit(a, limit) PROVE TypeOK'
  BY <1>1 DEF SetCredit, TypeOK
<1>2. ASSUME NEW w \in Workers, CallStep(w) PROVE TypeOK'
  <2>1. ASSUME NEW a \in Accounts, NEW amount \in Amounts,
               \/ \E sign \in {-1, 1} : BeginPosting(w, a, sign * amount)
               \/ \E to \in Accounts : BeginAllocate(w, a, to, amount)
               \/ \E t \in Trips : BillRead(w, t, a, amount)
        PROVE  TypeOK'
    <3>1. amount \in Int
      BY AmountsAssumption
    <3>. QED  BY <2>1, <3>1, BeginShape, Beginnings, <1>k
  <2>2. CASE BillRecheck(w) \/ LockAccount(w) \/ LockTarget(w) \/ Rollback(w)
    BY <2>2, StepShape, <1>k
  <2>3. CASE Commit(w)
    BY <2>3, CommitTypes
  <2>4. CASE MarkFailed(w)
    <3>1. billing' \in [Trips -> {"pending", "charged", "failed"}]
      BY <2>4, <1>t DEF MarkFailed, FailedStatus, TablesOK
    <3>. QED  BY <2>4, <1>t, <3>1, FinishTypes DEF MarkFailed, TypeOK, TablesOK, CallOK
  <2>. QED  BY <1>2, <2>1, <2>2, <2>3, <2>4 DEF CallStep
<1>3. CASE UNCHANGED vars
  BY <1>3 DEF vars, TypeOK
<1>. QED  BY <1>1, <1>2, <1>3 DEF Next

LEMMA TypeInit == Init => TypeOK
<1>. SUFFICES ASSUME Init PROVE TypeOK
  OBVIOUS
<1>1. TablesOK
  BY CreditsAssumption DEF Init, TablesOK
<1>2. calls \in [Workers -> CallRow] /\ \A w \in Workers : CallOK(calls[w])
  BY RestIsCall DEF Init, CallOK
<1>. QED  BY <1>1, <1>2, TypeParts

\* Every reachable state is well typed; in particular a transaction names the
\* accounts it is about to lock.
THEOREM TypeCorrect == Spec => []TypeOK
  BY TypeInit, TypeStep, PTL DEF Spec

-----------------------------------------------------------------------------
(***************************************************************************)
(* The inductive invariant.  BalanceMatchesBook holds because a balance    *)
(* read under a lock is still the balance when the transaction posts, and  *)
(* TripBilledOnce because the trip checked under its lock is still due.    *)
(* Both therefore rest on the locks being exclusive, and on what each      *)
(* transaction may rely on, by the locks it holds.                         *)
(***************************************************************************)
LocksExclusive ==
    /\ \A t \in Trips : \A w, x \in Workers : HoldsTrip(w, t) /\ HoldsTrip(x, t) => w = x
    /\ \A a \in Accounts : \A w, x \in Workers : HoldsAccount(w, a) /\ HoldsAccount(x, a) => w = x

\* An allocation bills no trip and moves down one level.
AllocationShape(c) ==
    c.stage # "rest" /\ c.target # NoAccount =>
        c.trip = NoTrip /\ c.target \in Accounts /\ Level[c.target] = Level[c.account] + 1

\* What a transaction has read under the locks it holds is still so.
Fresh(c) ==
    /\ c.stage \in {"target", "post"} => c.seen.account = balance[c.account]
    /\ c.stage = "post" /\ c.target # NoAccount => c.seen.target = balance[c.target]
    /\ c.stage \in {"target", "post"} /\ c.target # NoAccount => Sufficient(c.account, -c.amount)
    /\ c.stage \in {"account", "post"} /\ c.trip # NoTrip => billing[c.trip] # "charged"

LedgerInv ==
    /\ TypeOK
    /\ BalanceMatchesBook
    /\ TripBilledOnce
    /\ LocksExclusive
    /\ \A w \in Workers : AllocationShape(calls[w]) /\ Fresh(calls[w])

LEMMA InvInit == Init => LedgerInv
<1>. SUFFICES ASSUME Init PROVE LedgerInv
  OBVIOUS
<1>1. BalanceMatchesBook /\ TripBilledOnce
  BY DEF Init, BalanceMatchesBook, TripBilledOnce
<1>2. \A w \in Workers : calls[w] = AtRest /\ calls[w].stage = "rest"
  BY DEF Init, AtRest, Call
<1>3. LocksExclusive
  BY <1>2 DEF LocksExclusive, HoldsTrip, HoldsAccount
<1>4. \A w \in Workers : AllocationShape(calls[w]) /\ Fresh(calls[w])
  BY <1>2 DEF AllocationShape, Fresh
<1>. QED  BY <1>1, <1>3, <1>4, TypeInit DEF LedgerInv

\* While the tables stand still, a step that replaces one call keeps the
\* invariant if the new call is right and locks only what nobody else does.
LEMMA OneCall ==
    ASSUME LedgerInv, NEW w \in Workers, NEW c, CallOK(c), UNCHANGED tables,
           calls' = [calls EXCEPT ![w] = c],
           AllocationShape(c), Fresh(c),
           \A t \in Trips : HoldsTrip(w, t)' => HoldsTrip(w, t) \/ TripFree(t),
           \A a \in Accounts : HoldsAccount(w, a)' => HoldsAccount(w, a) \/ AccountFree(a)
    PROVE  LedgerInv'
<1>1. TypeOK'
  BY CallWritten, TypeParts DEF LedgerInv, TypeOK, TablesOK, CallOK, tables
<1>2. BalanceMatchesBook' /\ TripBilledOnce'
  BY DEF LedgerInv, BalanceMatchesBook, TripBilledOnce, tables
<1>3. \A x \in Workers : calls'[x] = IF x = w THEN c ELSE calls[x]
  BY DEF LedgerInv, TypeOK
<1>4. ASSUME NEW x \in Workers PROVE (AllocationShape(calls[x]) /\ Fresh(calls[x]))'
  BY <1>3 DEF LedgerInv, AllocationShape, Fresh, Sufficient, tables
<1>5. \A x \in Workers \ {w} : /\ \A t \in Trips : HoldsTrip(x, t)' = HoldsTrip(x, t)
                               /\ \A a \in Accounts : HoldsAccount(x, a)' = HoldsAccount(x, a)
  BY <1>3 DEF HoldsTrip, HoldsAccount
<1>6. LocksExclusive'
  <2>1. ASSUME NEW t \in Trips, NEW x \in Workers, NEW y \in Workers, HoldsTrip(x, t)', HoldsTrip(y, t)' PROVE x = y
    BY <1>5, <2>1 DEF LedgerInv, LocksExclusive, TripFree
  <2>2. ASSUME NEW a \in Accounts, NEW x \in Workers, NEW y \in Workers, HoldsAccount(x, a)', HoldsAccount(y, a)' PROVE x = y
    BY <1>5, <2>2 DEF LedgerInv, LocksExclusive, AccountFree
  <2>. QED  BY <2>1, <2>2 DEF LocksExclusive
<1>. QED  BY <1>1, <1>2, <1>4, <1>6 DEF LedgerInv

LEMMA BeginInv ==
    ASSUME LedgerInv, NEW w \in Workers, NEW a \in Accounts, NEW amount \in Amounts,
           \/ \E sign \in {-1, 1} : BeginPosting(w, a, sign * amount)
           \/ \E to \in Accounts : BeginAllocate(w, a, to, amount)
           \/ \E t \in Trips : BillRead(w, t, a, amount)
    PROVE  LedgerInv'
<1>t. TypeOK /\ calls \in [Workers -> CallRow]
  BY DEF LedgerInv, TypeOK
<1>1. UNCHANGED tables
  BY BeginShape
\* Whatever begins holds no lock yet.
<1>2. ASSUME NEW stage \in {"account", "trip"}, NEW t, NEW to, NEW m, t = NoTrip \/ stage = "trip",
             CallOK(Call(stage, t, a, to, m)), AllocationShape(Call(stage, t, a, to, m)),
             calls' = [calls EXCEPT ![w] = Call(stage, t, a, to, m)]
      PROVE  LedgerInv'
  <2>. DEFINE c == Call(stage, t, a, to, m)
  <2>1. Fresh(c)
    BY <1>2 DEF Fresh, Call
  <2>2. calls'[w] = c /\ c.stage = stage /\ c.trip = t
    BY <1>2, <1>t DEF Call
  <2>3. \A u \in Trips : ~HoldsTrip(w, u)'
    BY <1>2, <2>2, NoTripAssumption DEF HoldsTrip
  <2>4. \A b \in Accounts : ~HoldsAccount(w, b)'
    BY <1>2, <2>2 DEF HoldsAccount
  <2>. QED  BY <1>1, <1>2, <2>1, <2>3, <2>4, OneCall
<1>3. \A m \in Int : AllocationShape(Call("account", NoTrip, a, NoAccount, m))
  BY DEF AllocationShape, Call
<1>4. \A m \in Int : \A to \in Accounts : CanAllocate(a, to) => AllocationShape(Call("account", NoTrip, a, to, m))
  BY DEF AllocationShape, Call, CanAllocate
<1>5. \A m \in Int : \A t \in Trips : AllocationShape(Call("trip", t, a, NoAccount, m))
  BY DEF AllocationShape, Call
<1>. QED  BY BeginShape, Beginnings, <1>2, <1>3, <1>4, <1>5

LEMMA StepInv ==
    ASSUME LedgerInv, NEW w \in Workers,
           BillRecheck(w) \/ LockAccount(w) \/ LockTarget(w) \/ Rollback(w)
    PROVE  LedgerInv'
<1>t. /\ TypeOK /\ TablesOK /\ calls \in [Workers -> CallRow]
      /\ CallOK(calls[w]) /\ AllocationShape(calls[w]) /\ Fresh(calls[w])
  BY TypeParts DEF LedgerInv
<1>r. ASSUME UNCHANGED tables, calls' = [calls EXCEPT ![w] = AtRest] PROVE LedgerInv'
  <2>1. calls'[w].stage = "rest"
    BY <1>r, <1>t DEF AtRest, Call
  <2>2. AllocationShape(AtRest) /\ Fresh(AtRest)
    BY DEF AllocationShape, Fresh, AtRest, Call
  <2>3. /\ \A t \in Trips : ~HoldsTrip(w, t)'
        /\ \A a \in Accounts : ~HoldsAccount(w, a)'
    BY <2>1 DEF HoldsTrip, HoldsAccount
  <2>. QED  BY <1>r, <2>2, <2>3, RestIsCall, OneCall
<1>1. CASE BillRecheck(w)
  <2>. DEFINE c == At(w, "account")
  <2>1. CASE CallOK(c) /\ calls' = [calls EXCEPT ![w] = c] /\ ~Finish(w)
    <3>1. /\ calls[w].stage = "trip" /\ TripFree(calls[w].trip) /\ StillDue(calls[w].trip) /\ UNCHANGED tables
      BY <1>1, <2>1 DEF BillRecheck
    <3>2. calls'[w] = c
      BY <2>1, <1>t
    <3>3. c.stage = "account" /\ c.trip = calls[w].trip /\ c.target = calls[w].target /\ c.account = calls[w].account
      BY <1>t DEF At, CallRow
    <3>4. AllocationShape(c) /\ Fresh(c)
      BY <1>t, <3>1, <3>3 DEF AllocationShape, Fresh, StillDue
    <3>5. \A t \in Trips : HoldsTrip(w, t)' => TripFree(t)
      BY <3>1, <3>2, <3>3 DEF HoldsTrip
    <3>6. \A a \in Accounts : ~HoldsAccount(w, a)'
      BY <3>2, <3>3 DEF HoldsAccount
    <3>. QED  BY <2>1, <3>1, <3>4, <3>5, <3>6, OneCall
  <2>. QED  BY <1>1, <1>t, <1>r, <2>1, StepShape DEF Finish
<1>2. CASE LockAccount(w)
  <2>. DEFINE c == AccountSeen(w)
  <2>1. UNCHANGED tables /\ CallOK(c) /\ calls' = [calls EXCEPT ![w] = c]
    BY <1>2, <1>t, StepShape
  <2>2. /\ calls[w].stage = "account" /\ AccountFree(calls[w].account)
        /\ calls[w].target # NoAccount => Sufficient(calls[w].account, -calls[w].amount)
    BY <1>2 DEF LockAccount
  <2>3. /\ c.stage = IF calls[w].target = NoAccount THEN "post" ELSE "target"
        /\ c.trip = calls[w].trip /\ c.target = calls[w].target /\ c.account = calls[w].account
        /\ c.amount = calls[w].amount /\ c.seen.account = balance[calls[w].account]
    BY <1>t DEF AccountSeen, CallRow
  <2>4. calls'[w] = c
    BY <2>1, <1>t
  <2>5. AllocationShape(c) /\ Fresh(c)
    BY <1>t, <2>2, <2>3 DEF AllocationShape, Fresh
  <2>6. \A t \in Trips : HoldsTrip(w, t)' => HoldsTrip(w, t)
    BY <2>2, <2>3, <2>4 DEF HoldsTrip
  <2>7. \A a \in Accounts : HoldsAccount(w, a)' => AccountFree(a)
    BY <2>2, <2>3, <2>4, NoAccountAssumption DEF HoldsAccount
  <2>. QED  BY <2>1, <2>5, <2>6, <2>7, OneCall
<1>3. CASE LockTarget(w)
  <2>. DEFINE c == TargetSeen(w)
  <2>1. UNCHANGED tables /\ CallOK(c) /\ calls' = [calls EXCEPT ![w] = c]
    BY <1>3, <1>t, StepShape
  <2>2. calls[w].stage = "target" /\ AccountFree(calls[w].target)
    BY <1>3 DEF LockTarget
  <2>3. /\ c.stage = "post" /\ c.amount = calls[w].amount
        /\ c.trip = calls[w].trip /\ c.target = calls[w].target /\ c.account = calls[w].account
        /\ c.seen.account = calls[w].seen.account /\ c.seen.target = balance[calls[w].target]
    BY <1>t DEF TargetSeen, CallRow
  <2>4. calls'[w] = c
    BY <2>1, <1>t
  <2>5. calls[w].target # NoAccount
    BY <1>t, <2>2 DEF CallOK
  <2>6. AllocationShape(c) /\ Fresh(c)
    BY <1>t, <2>2, <2>3, <2>5 DEF AllocationShape, Fresh
  <2>7. \A t \in Trips : ~HoldsTrip(w, t)'
    BY <1>t, <2>2, <2>3, <2>4, <2>5, NoTripAssumption DEF HoldsTrip, AllocationShape
  <2>8. \A a \in Accounts : HoldsAccount(w, a)' => HoldsAccount(w, a) \/ AccountFree(a)
    BY <2>2, <2>3, <2>4 DEF HoldsAccount
  <2>. QED  BY <2>1, <2>6, <2>7, <2>8, OneCall
<1>4. CASE Rollback(w)
  <2>. DEFINE c == At(w, "mark")
  <2>1. CASE CallOK(c) /\ calls' = [calls EXCEPT ![w] = c]
    <3>1. UNCHANGED tables /\ calls[w].stage # "rest"
      BY <1>4 DEF Rollback
    <3>2. calls'[w] = c
      BY <2>1, <1>t
    <3>3. c.stage = "mark" /\ c.trip = calls[w].trip /\ c.target = calls[w].target /\ c.account = calls[w].account
      BY <1>t DEF At, CallRow
    <3>4. AllocationShape(c) /\ Fresh(c)
      BY <1>t, <3>1, <3>3 DEF AllocationShape, Fresh
    <3>5. /\ \A t \in Trips : ~HoldsTrip(w, t)'
          /\ \A a \in Accounts : ~HoldsAccount(w, a)'
      BY <3>2, <3>3 DEF HoldsTrip, HoldsAccount
    <3>. QED  BY <2>1, <3>1, <3>4, <3>5, OneCall
  <2>. QED  BY <1>4, <1>t, <1>r, <2>1, StepShape
<1>. QED  BY <1>1, <1>2, <1>3, <1>4

\* Changing a credit limit or a billing status from outside leaves the calls
\* of the others alone.
LEMMA SetCreditInv ==
    ASSUME LedgerInv, NEW a \in Accounts, NEW limit \in Credits, SetCredit(a, limit)
    PROVE  LedgerInv'
<1>t. TypeOK /\ TablesOK /\ calls \in [Workers -> CallRow] /\ \A w \in Workers : CallOK(calls[w])
  BY TypeParts DEF LedgerInv
<1>1. TypeOK'
  BY <1>t DEF SetCredit, TypeOK
<1>2. BalanceMatchesBook' /\ TripBilledOnce' /\ LocksExclusive'
  BY DEF LedgerInv, SetCredit, BalanceMatchesBook, TripBilledOnce, LocksExclusive, HoldsTrip, HoldsAccount
<1>3. ASSUME NEW w \in Workers PROVE (AllocationShape(calls[w]) /\ Fresh(calls[w]))'
  <2>1. calls[w].stage \in {"target", "post"} => HoldsAccount(w, calls[w].account) /\ calls[w].account \in Accounts
    BY <1>t DEF HoldsAccount, CallOK
  <2>2. calls[w].stage \in {"target", "post"} => credit'[calls[w].account] = credit[calls[w].account]
    BY <2>1, <1>t DEF SetCredit, AccountFree, TablesOK
  <2>. QED  BY <2>2 DEF LedgerInv, SetCredit, AllocationShape, Fresh, Sufficient
<1>. QED  BY <1>1, <1>2, <1>3 DEF LedgerInv

\* A transaction that ends gives its locks back and leaves the other calls alone.
LEMMA FinishLocks ==
    ASSUME LedgerInv, NEW w \in Workers, Finish(w)
    PROVE  /\ LocksExclusive'
           /\ AllocationShape(AtRest) /\ Fresh(AtRest)'
           /\ calls'[w] = AtRest /\ \A x \in Workers \ {w} : calls'[x] = calls[x]
<1>1. calls'[w] = AtRest /\ \A x \in Workers \ {w} : calls'[x] = calls[x]
  BY DEF LedgerInv, TypeOK, Finish
<1>2. AtRest.stage = "rest"
  BY DEF AtRest, Call
<1>3. \A x \in Workers : /\ \A t \in Trips : HoldsTrip(x, t)' => HoldsTrip(x, t)
                         /\ \A a \in Accounts : HoldsAccount(x, a)' => HoldsAccount(x, a)
  BY <1>1, <1>2 DEF HoldsTrip, HoldsAccount
<1>4. LocksExclusive'
  BY <1>3 DEF LedgerInv, LocksExclusive
<1>5. AllocationShape(AtRest) /\ Fresh(AtRest)'
  BY <1>2 DEF AllocationShape, Fresh, AtRest, Call
<1>. QED  BY <1>1, <1>4, <1>5

LEMMA MarkFailedInv ==
    ASSUME LedgerInv, NEW w \in Workers, MarkFailed(w)
    PROVE  LedgerInv'
<1>t. TypeOK /\ TablesOK /\ CallOK(calls[w])
  BY TypeParts DEF LedgerInv
<1>f. Finish(w)
  BY DEF MarkFailed
<1>1. \A t \in Trips : billing'[t] \in {"pending", "charged", "failed"} /\ (billing'[t] = "charged" <=> billing[t] = "charged")
  BY <1>t DEF MarkFailed, FailedStatus, TablesOK
<1>2. TypeOK'
  <2>1. billing' \in [Trips -> {"pending", "charged", "failed"}]
    BY <1>t, <1>1 DEF MarkFailed, TablesOK
  <2>. QED  BY <1>t, <2>1, <1>f, FinishTypes DEF MarkFailed, TypeOK, TablesOK, CallOK
<1>3. BalanceMatchesBook' /\ TripBilledOnce'
  BY <1>1 DEF LedgerInv, MarkFailed, BalanceMatchesBook, TripBilledOnce
<1>4. ASSUME NEW x \in Workers PROVE (AllocationShape(calls[x]) /\ Fresh(calls[x]))'
  <2>1. CASE x = w
    BY <1>f, <2>1, FinishLocks DEF AllocationShape
  <2>2. CASE x # w
    <3>1. calls'[x] = calls[x] /\ calls[x] \in CallRow
      BY <1>f, <2>2, FinishLocks DEF LedgerInv, TypeOK
    <3>2. calls[x].trip # NoTrip => calls[x].trip \in Trips
      BY <3>1 DEF CallRow
    <3>. QED  BY <1>1, <3>1, <3>2 DEF LedgerInv, MarkFailed, AllocationShape, Fresh, Sufficient
  <2>. QED  BY <2>1, <2>2
<1>. QED  BY <1>f, <1>2, <1>3, <1>4, FinishLocks DEF LedgerInv

\* What a commit does to the books: at most one entry is appended to each.
LEMMA Appended ==
    ASSUME TypeOK, NEW w \in Workers, Commit(w), NEW a \in Accounts
    PROVE  /\ a \notin Touched(calls[w]) => book'[a] = book[a] /\ balance'[a] = balance[a]
           /\ a \in Touched(calls[w]) =>
                  /\ Len(book'[a]) = Len(book[a]) + 1
                  /\ \A i \in 1..Len(book[a]) : book'[a][i] = book[a][i]
                  /\ book'[a][Len(book[a]) + 1] = Movement(calls[w], a)
                  /\ balance'[a] = Movement(calls[w], a).after
<1>1. book[a] \in Seq(Entry) /\ Movement(calls[w], a) \in Entry
  BY TypeParts, MovementTypes DEF TablesOK
<1>. QED  BY <1>1 DEF Commit, TypeOK

\* The new entry continues from the balance the book ended with.
LEMMA CommitBalances ==
    ASSUME LedgerInv, NEW w \in Workers, Commit(w)
    PROVE  BalanceMatchesBook'
<1>. DEFINE c == calls[w]
<1>t. /\ TypeOK /\ TablesOK /\ CallOK(c) /\ AllocationShape(c) /\ Fresh(c) /\ c.stage = "post"
      /\ TypeOK'
  BY TypeParts, CommitTypes DEF LedgerInv, Commit
<1>. SUFFICES ASSUME NEW a \in Accounts
              PROVE  (/\ \A i \in DOMAIN book[a] :
                             book[a][i].after = (IF i = 1 THEN 0 ELSE book[a][i - 1].after) + book[a][i].amount
                      /\ balance[a] = IF book[a] = << >> THEN 0 ELSE book[a][Len(book[a])].after)'
  BY DEF BalanceMatchesBook
<1>o. /\ \A i \in DOMAIN book[a] :
             book[a][i].after = (IF i = 1 THEN 0 ELSE book[a][i - 1].after) + book[a][i].amount
      /\ balance[a] = IF book[a] = << >> THEN 0 ELSE book[a][Len(book[a])].after
  BY DEF LedgerInv, BalanceMatchesBook
<1>1. CASE a \notin Touched(c)
  BY <1>t, <1>1, <1>o, Appended
<1>2. CASE a \in Touched(c)
  <2>. DEFINE n == Len(book[a])
              m == Movement(c, a)
  <2>1. /\ Len(book'[a]) = n + 1 /\ book'[a][n + 1] = m /\ balance'[a] = m.after
        /\ \A i \in 1..n : book'[a][i] = book[a][i]
    BY <1>t, <1>2, Appended
  <2>2. book[a] \in Seq(Entry) /\ book'[a] \in Seq(Entry) /\ n \in Nat
    BY <1>t DEF TypeOK, TablesOK
  <2>3. DOMAIN book[a] = 1..n /\ DOMAIN book'[a] = 1..(n + 1) /\ book'[a] # << >>
    BY <2>1, <2>2
  <2>4. m.after = balance[a] + m.amount
    <3>1. c.amount \in Int /\ c.seen.account \in Int /\ c.seen.target \in Int
      BY <1>t DEF CallOK, CallRow
    <3>2. CASE a = c.account
      BY <1>t, <3>1, <3>2 DEF Movement, Fresh
    <3>3. CASE a # c.account
      <4>1. a = c.target /\ c.target # NoAccount
        BY <1>2, <3>3, NoAccountAssumption DEF Touched
      <4>2. c.seen.target = balance[a]
        BY <1>t, <4>1 DEF Fresh
      <4>. QED  BY <3>1, <3>3, <4>2 DEF Movement
    <3>. QED  BY <3>2, <3>3
  <2>5. book[a] = << >> <=> n = 0
    BY <2>2
  <2>6. ASSUME NEW i \in 1..n
        PROVE  book'[a][i].after = (IF i = 1 THEN 0 ELSE book'[a][i - 1].after) + book'[a][i].amount
    <3>1. i # 1 => i - 1 \in 1..n
      BY <2>2
    <3>. QED  BY <1>o, <2>1, <2>3, <3>1
  <2>7. book'[a][n + 1].after = (IF n + 1 = 1 THEN 0 ELSE book'[a][n + 1 - 1].after) + book'[a][n + 1].amount
    <3>1. CASE n = 0
      BY <1>o, <2>1, <2>4, <2>5, <3>1
    <3>2. CASE n # 0
      <4>1. n + 1 # 1 /\ n + 1 - 1 = n /\ n \in 1..n
        BY <2>2, <3>2
      <4>2. balance[a] = book[a][n].after
        BY <1>o, <2>5, <3>2
      <4>. QED  BY <2>1, <2>4, <4>1, <4>2
    <3>. QED  BY <3>1, <3>2
  <2>8. \A i \in 1..(n + 1) : i \in 1..n \/ i = n + 1
    BY <2>2
  <2>. QED  BY <2>1, <2>3, <2>6, <2>7, <2>8
<1>. QED  BY <1>1, <1>2

\* The trip was due under its lock, so no book names it yet.
LEMMA CommitTrips ==
    ASSUME LedgerInv, NEW w \in Workers, Commit(w)
    PROVE  TripBilledOnce'
<1>. DEFINE c == calls[w]
<1>t. /\ TypeOK /\ TablesOK /\ CallOK(c) /\ AllocationShape(c) /\ Fresh(c) /\ c.stage = "post" /\ TypeOK'
  BY TypeParts, CommitTypes DEF LedgerInv, Commit
<1>m. \A a : Movement(c, a).trip = c.trip
  BY DEF Movement
<1>b. \A t \in Trips : billing'[t] = IF t = c.trip THEN "charged" ELSE billing[t]
  BY DEF Commit
\* An entry of a book is an old one, or the new one of this call.
<1>e. ASSUME NEW a \in Accounts, NEW i \in DOMAIN book'[a]
      PROVE  \/ i \in DOMAIN book[a] /\ book'[a][i] = book[a][i]
             \/ a \in Touched(c) /\ i = Len(book[a]) + 1 /\ book'[a][i].trip = c.trip
  <2>1. CASE a \notin Touched(c)
    BY <1>t, <2>1, Appended
  <2>2. CASE a \in Touched(c)
    <3>1. /\ Len(book'[a]) = Len(book[a]) + 1
          /\ \A j \in 1..Len(book[a]) : book'[a][j] = book[a][j]
          /\ book'[a][Len(book[a]) + 1].trip = c.trip
      BY <1>t, <1>m, <2>2, Appended
    <3>2. book[a] \in Seq(Entry) /\ book'[a] \in Seq(Entry)
      BY <1>t DEF TypeOK
    <3>3. DOMAIN book[a] = 1..Len(book[a]) /\ DOMAIN book'[a] = 1..(Len(book[a]) + 1) /\ Len(book[a]) \in Nat
      BY <3>1, <3>2
    <3>. QED  BY <2>2, <3>1, <3>3
  <2>. QED  BY <2>1, <2>2
<1>. SUFFICES ASSUME NEW t \in Trips, NEW a \in Accounts, NEW b \in Accounts,
                     NEW i \in DOMAIN book'[a], NEW j \in DOMAIN book'[b],
                     book'[a][i].trip = t, book'[b][j].trip = t
              PROVE  a = b /\ i = j /\ billing'[t] = "charged"
  BY DEF TripBilledOnce
<1>1. CASE t # c.trip
  <2>1. i \in DOMAIN book[a] /\ book[a][i].trip = t /\ j \in DOMAIN book[b] /\ book[b][j].trip = t
    BY <1>e, <1>1
  <2>. QED  BY <1>1, <1>b, <2>1 DEF LedgerInv, TripBilledOnce
<1>2. CASE t = c.trip
  <2>1. c.trip # NoTrip
    BY <1>2, NoTripAssumption
  <2>2. billing[t] # "charged" /\ c.target = NoAccount
    BY <1>t, <1>2, <2>1 DEF Fresh, AllocationShape
  <2>3. \A d \in Accounts : \A k \in DOMAIN book[d] : book[d][k].trip # t
    BY <2>2 DEF LedgerInv, TripBilledOnce
  <2>4. a \in Touched(c) /\ i = Len(book[a]) + 1 /\ b \in Touched(c) /\ j = Len(book[b]) + 1
    BY <1>e, <2>3
  <2>5. a = c.account /\ b = c.account
    BY <2>2, <2>4, NoAccountAssumption DEF Touched
  <2>. QED  BY <1>2, <1>b, <2>4, <2>5
<1>. QED  BY <1>1, <1>2

LEMMA CommitInv ==
    ASSUME LedgerInv, NEW w \in Workers, Commit(w)
    PROVE  LedgerInv'
<1>. DEFINE c == calls[w]
<1>t. /\ TypeOK /\ TablesOK /\ CallOK(c) /\ AllocationShape(c) /\ Fresh(c) /\ c.stage = "post" /\ Finish(w)
  BY TypeParts DEF LedgerInv, Commit
<1>4. ASSUME NEW x \in Workers PROVE (AllocationShape(calls[x]) /\ Fresh(calls[x]))'
  <2>1. CASE x = w
    BY <1>t, <2>1, FinishLocks DEF AllocationShape
  <2>2. CASE x # w
    <3>. DEFINE d == calls[x]
    <3>1. calls'[x] = d /\ CallOK(d) /\ AllocationShape(d) /\ Fresh(d)
      BY <1>t, <2>2, FinishLocks, TypeParts DEF LedgerInv
    <3>2. \A a \in Accounts : a \in Touched(c) => HoldsAccount(w, a)
      BY <1>t DEF HoldsAccount, Touched
    <3>3. \A a \in Accounts : HoldsAccount(x, a) => balance'[a] = balance[a]
      BY <1>t, <2>2, <3>2, Appended DEF LedgerInv, LocksExclusive
    <3>4. credit' = credit
      BY DEF Commit
    <3>5. d.stage \in {"target", "post"} => balance'[d.account] = balance[d.account]
      BY <3>1, <3>3 DEF HoldsAccount, CallOK
    <3>6. d.stage = "post" /\ d.target # NoAccount => balance'[d.target] = balance[d.target]
      BY <3>1, <3>3 DEF HoldsAccount, AllocationShape
    <3>7. d.stage \in {"account", "post"} /\ d.trip # NoTrip => billing'[d.trip] = billing[d.trip]
      <4>. SUFFICES ASSUME d.stage \in {"account", "post"}, d.trip # NoTrip PROVE billing'[d.trip] = billing[d.trip]
        OBVIOUS
      <4>1. d.trip \in Trips /\ HoldsTrip(x, d.trip)
        BY <3>1 DEF CallOK, CallRow, HoldsTrip
      <4>2. d.trip # c.trip
        BY <1>t, <2>2, <4>1 DEF HoldsTrip, LedgerInv, LocksExclusive
      <4>. QED  BY <4>1, <4>2 DEF Commit
    <3>8. Fresh(calls[x])'
      BY <3>1, <3>4, <3>5, <3>6, <3>7 DEF Fresh, Sufficient
    <3>. QED  BY <3>1, <3>8 DEF AllocationShape
  <2>. QED  BY <2>1, <2>2
<1>. QED  BY <1>t, <1>4, FinishLocks, CommitTypes, CommitBalances, CommitTrips DEF LedgerInv

LEMMA InvStep == LedgerInv /\ [Next]_vars => LedgerInv'
<1>. SUFFICES ASSUME LedgerInv, [Next]_vars PROVE LedgerInv'
  OBVIOUS
<1>1. ASSUME NEW a \in Accounts, NEW limit \in Credits, SetCredit(a, limit) PROVE LedgerInv'
  BY <1>1, SetCreditInv
<1>2. ASSUME NEW w \in Workers, CallStep(w) PROVE LedgerInv'
  <2>1. ASSUME NEW a \in Accounts, NEW amount \in Amounts,
               \/ \E sign \in {-1, 1} : BeginPosting(w, a, sign * amount)
               \/ \E to \in Accounts : BeginAllocate(w, a, to, amount)
               \/ \E t \in Trips : BillRead(w, t, a, amount)
        PROVE  LedgerInv'
    BY <2>1, BeginInv
  <2>2. CASE BillRecheck(w) \/ LockAccount(w) \/ LockTarget(w) \/ Rollback(w)
    BY <2>2, StepInv
  <2>3. CASE Commit(w)
    BY <2>3, CommitInv
  <2>4. CASE MarkFailed(w)
    BY <2>4, MarkFailedInv
  <2>. QED  BY <1>2, <2>1, <2>2, <2>3, <2>4 DEF CallStep
<1>3. CASE UNCHANGED vars
  <2>1. TypeOK'
    BY <1>3, TypeStep DEF LedgerInv
  <2>. QED  BY <1>3, <2>1 DEF vars, LedgerInv, BalanceMatchesBook, TripBilledOnce, LocksExclusive, HoldsTrip,
              HoldsAccount, AllocationShape, Fresh, Sufficient
<1>. QED  BY <1>1, <1>2, <1>3 DEF Next

-----------------------------------------------------------------------------
(***************************************************************************)
(* What follows.                                                           *)
(***************************************************************************)
\* Locks, books, trips and transactions agree in every reachable state.
THEOREM LedgerInvariance == Spec => []LedgerInv
  BY InvInit, InvStep, PTL DEF Spec

\* No posting is lost: whatever transactions run at once, the balance of an
\* account is what its book adds up to, entry by entry.
THEOREM BooksBalance == Spec => []BalanceMatchesBook
<1>. LedgerInv => BalanceMatchesBook
  BY DEF LedgerInv
<1>. QED  BY LedgerInvariance, PTL

\* However many hooks, settlements and retries bill a trip, it is paid for at
\* most once, and a trip that was paid for counts as charged.
THEOREM TripsBilledOnce == Spec => []TripBilledOnce
<1>. LedgerInv => TripBilledOnce
  BY DEF LedgerInv
<1>. QED  BY LedgerInvariance, PTL

\* The credit an allocation was checked against is still there when it posts.
THEOREM AllocationsWithinCredit == Spec => AllocationWithinCredit
<1>1. LedgerInv /\ [Next]_vars =>
          [\A w \in Workers : Commit(w) /\ calls[w].target # NoAccount =>
               balance'[calls[w].account] >= -credit[calls[w].account]]_vars
  <2>. SUFFICES ASSUME LedgerInv, NEW w \in Workers, Commit(w), calls[w].target # NoAccount
                PROVE  balance'[calls[w].account] >= -credit[calls[w].account]
    OBVIOUS
  <2>. DEFINE c == calls[w]
              a == calls[w].account
  <2>1. TypeOK /\ TablesOK /\ CallOK(c) /\ Fresh(c) /\ c.stage = "post"
    BY TypeParts DEF LedgerInv, Commit
  <2>2. a \in Accounts /\ c.amount \in Int /\ balance[a] \in Int /\ credit[a] \in Int
    <3>1. a \in Accounts /\ c.amount \in Int
      BY <2>1 DEF CallOK, CallRow
    <3>2. balance[a] \in Int /\ credit[a] \in Credits
      BY <2>1, <3>1 DEF TablesOK
    <3>3. credit[a] \in Nat
      BY <3>2, CreditsAssumption, Zenon
    <3>. QED  BY <3>1, <3>2, <3>3
  <2>3. balance[a] + credit[a] >= -c.amount
    BY <2>1 DEF Fresh, Sufficient
  <2>4. balance'[a] = balance[a] + c.amount
    <3>1. CASE a \notin Touched(c)
      <4>1. c.amount = 0
        BY <3>1 DEF Touched
      <4>. QED  BY <2>1, <2>2, <3>1, <4>1, Appended
    <3>2. CASE a \in Touched(c)
      <4>1. balance'[a] = c.seen.account + c.amount
        BY <2>1, <2>2, <3>2, Appended DEF Movement
      <4>. QED  BY <2>1, <4>1 DEF Fresh
    <3>. QED  BY <3>1, <3>2
  <2>. QED  BY <2>2, <2>3, <2>4
<1>. QED  BY <1>1, LedgerInvariance, PTL DEF Spec, AllocationWithinCredit

\* No ring of locks: a trip is locked before an account, and a second account
\* lies below the first, so of all transactions that wait the one that waits
\* for the lowest account waits for a transaction that can commit.
THEOREM NoRingOfLocks == Spec => []NoLockCycle
<1>1. LedgerInv => NoLockCycle
  <2>. SUFFICES ASSUME LedgerInv, NEW w \in Workers, calls[w].stage # "rest",
                       \A x \in Workers : calls[x].stage # "rest" => Waits(x)
                PROVE  FALSE
    BY DEF NoLockCycle
  <2>t. \A x \in Workers : CallOK(calls[x]) /\ AllocationShape(calls[x])
    BY TypeParts DEF LedgerInv
  <2>l. \A a \in Accounts : Level[a] = 1 \/ Level[a] = 2 \/ Level[a] = 3
    BY LevelAssumption
  \* Who holds a wanted account waits for one that lies a level below.
  <2>1. ASSUME NEW a \in Accounts, ~AccountFree(a)
        PROVE  \E b \in Accounts : Level[b] = Level[a] + 1 /\ ~AccountFree(b)
    <3>1. PICK x \in Workers : HoldsAccount(x, a)
      BY <2>1 DEF AccountFree
    <3>2. calls[x].stage = "target" /\ calls[x].account = a /\ ~AccountFree(calls[x].target)
      BY <3>1 DEF HoldsAccount, Waits
    <3>. QED  BY <2>t, <3>2 DEF AllocationShape, CallOK
  <2>2. \A a \in Accounts : AccountFree(a)
    <3>1. \A a \in Accounts : Level[a] = 3 => AccountFree(a)
      BY <2>1, <2>l
    <3>2. \A a \in Accounts : Level[a] = 2 => AccountFree(a)
      BY <2>1, <3>1
    <3>3. \A a \in Accounts : Level[a] = 1 => AccountFree(a)
      BY <2>1, <3>2
    <3>. QED  BY <2>l, <3>1, <3>2, <3>3
  <2>3. ASSUME NEW x \in Workers PROVE calls[x].stage \notin {"account", "target", "post"}
    <3>1. CASE calls[x].stage = "account"
      <4>1. calls[x].account \in Accounts /\ ~AccountFree(calls[x].account)
        BY <2>t, <3>1 DEF Waits, CallOK
      <4>. QED  BY <2>2, <4>1
    <3>2. CASE calls[x].stage = "target"
      <4>1. calls[x].target \in Accounts /\ ~AccountFree(calls[x].target)
        BY <2>t, <3>2 DEF Waits, CallOK, CallRow
      <4>. QED  BY <2>2, <4>1
    <3>3. CASE calls[x].stage = "post"
      BY <3>3 DEF Waits
    <3>. QED  BY <3>1, <3>2, <3>3
  <2>4. \A t : TripFree(t)
    BY <2>3 DEF TripFree, HoldsTrip
  <2>. QED  BY <2>4, <2>3 DEF Waits
<1>. QED  BY <1>1, LedgerInvariance, PTL
-----------------------------------------------------------------------------
(***************************************************************************)
(* The ledger implements its contract: a commit is the movement, made on   *)
(* the books as they are at that moment, and no other step moves anything. *)
(***************************************************************************)
\* What a call is about to move is an amount somebody asked for.
Priced(c) ==
    c.stage # "rest" =>
        /\ c.amount \in Amounts \/ -c.amount \in Amounts
        /\ c.trip # NoTrip \/ c.target # NoAccount => -c.amount \in Amounts

AllPriced == \A w \in Workers : Priced(calls[w])

LEMMA PricedBeginnings ==
    ASSUME NEW w \in Workers, NEW a \in Accounts, NEW amount \in Amounts,
           calls \in [Workers -> CallRow], AllPriced,
           \/ \E sign \in {-1, 1} : BeginPosting(w, a, sign * amount)
           \/ \E to \in Accounts : BeginAllocate(w, a, to, amount)
           \/ \E t \in Trips : BillRead(w, t, a, amount)
    PROVE  AllPriced'
<1>1. amount \in Int /\ -(-amount) = amount /\ (-1) * amount = -amount /\ 1 * amount = amount
  BY AmountsAssumption
<1>2. ASSUME NEW c, Priced(c), calls' = [calls EXCEPT ![w] = c] PROVE AllPriced'
  BY <1>2 DEF AllPriced
<1>3. ASSUME NEW sign \in {-1, 1}, BeginPosting(w, a, sign * amount) PROVE AllPriced'
  <2>1. Priced(Call("account", NoTrip, a, NoAccount, sign * amount))
    <3>1. CASE sign = 1
      BY <1>1, <3>1 DEF Priced, Call
    <3>2. CASE sign = -1
      BY <1>1, <3>2 DEF Priced, Call
    <3>. QED  BY <3>1, <3>2
  <2>. QED  BY <1>2, <1>3, <2>1 DEF BeginPosting, Begin
<1>4. ASSUME NEW to \in Accounts, BeginAllocate(w, a, to, amount) PROVE AllPriced'
  <2>1. Priced(Call("account", NoTrip, a, to, -amount))
    BY <1>1 DEF Priced, Call
  <2>. QED  BY <1>2, <1>4, <2>1 DEF BeginAllocate, Begin
<1>5. ASSUME NEW t \in Trips, BillRead(w, t, a, amount) PROVE AllPriced'
  <2>1. Priced(Call("trip", t, a, NoAccount, -amount))
    BY <1>1 DEF Priced, Call
  <2>. QED  BY <1>2, <1>5, <2>1 DEF BillRead, Begin
<1>. QED  BY <1>3, <1>4, <1>5

LEMMA PricedStep == TypeOK /\ AllPriced /\ [Next]_vars => AllPriced'
<1>. SUFFICES ASSUME TypeOK, AllPriced, [Next]_vars PROVE AllPriced'
  OBVIOUS
<1>t. calls \in [Workers -> CallRow]
  BY DEF TypeOK
<1>f. ASSUME NEW w \in Workers, Finish(w) PROVE AllPriced'
  BY <1>f, <1>t DEF AllPriced, Priced, Finish, AtRest, Call
<1>1. ASSUME NEW a \in Accounts, NEW limit \in Credits, SetCredit(a, limit) PROVE AllPriced'
  BY <1>1 DEF SetCredit, AllPriced
<1>2. ASSUME NEW w \in Workers, CallStep(w) PROVE AllPriced'
  <2>1. ASSUME NEW a \in Accounts, NEW amount \in Amounts,
               \/ \E sign \in {-1, 1} : BeginPosting(w, a, sign * amount)
               \/ \E to \in Accounts : BeginAllocate(w, a, to, amount)
               \/ \E t \in Trips : BillRead(w, t, a, amount)
        PROVE  AllPriced'
    BY <1>t, <2>1, PricedBeginnings
  <2>2. CASE BillRecheck(w) \/ Rollback(w)
    <3>1. ASSUME NEW stage, calls[w].stage # "rest", calls' = [calls EXCEPT ![w].stage = stage] PROVE AllPriced'
      BY <1>t, <3>1 DEF AllPriced, Priced, CallRow
    <3>. QED  BY <1>f, <2>2, <3>1 DEF BillRecheck, Rollback
  <2>3. CASE LockAccount(w) \/ LockTarget(w)
    <3>1. calls[w].stage # "rest"
      BY <2>3 DEF LockAccount, LockTarget
    <3>2. /\ \A x \in Workers \ {w} : calls'[x] = calls[x]
          /\ calls'[w].amount = calls[w].amount /\ calls'[w].trip = calls[w].trip /\ calls'[w].target = calls[w].target
      BY <1>t, <2>3 DEF LockAccount, LockTarget, CallRow
    <3>. QED  BY <3>1, <3>2 DEF AllPriced, Priced
  <2>4. CASE Commit(w) \/ MarkFailed(w)
    BY <1>f, <2>4 DEF Commit, MarkFailed
  <2>. QED  BY <1>2, <2>1, <2>2, <2>3, <2>4 DEF CallStep
<1>3. CASE UNCHANGED vars
  BY <1>3 DEF vars, AllPriced
<1>. QED  BY <1>1, <1>2, <1>3 DEF Next

\* A commit appends to its books what the contract posts there: the balance it
\* read is the one the book ends with.
LEMMA CommitPosts ==
    ASSUME LedgerInv, NEW w \in Workers, Commit(w), NEW a \in Accounts
    PROVE  book'[a] = IF a = calls[w].account THEN Contract!Posted(a, calls[w].amount, calls[w].trip)
                      ELSE IF a = calls[w].target THEN Contract!Posted(a, -calls[w].amount, calls[w].trip)
                      ELSE book[a]
<1>. DEFINE c == calls[w]
<1>t. TypeOK /\ TablesOK /\ CallOK(c) /\ Fresh(c) /\ c.stage = "post"
  BY TypeParts DEF LedgerInv, Commit
<1>1. c.amount \in Int /\ c.seen.account \in Int /\ c.seen.target \in Int
  BY <1>t DEF CallOK, CallRow
<1>2. Contract!Balance(a) = balance[a]
  BY DEF Contract!Balance, LedgerInv, BalanceMatchesBook
<1>3. book'[a] = IF a \in Touched(c) THEN Append(book[a], Movement(c, a)) ELSE book[a]
  BY DEF Commit
<1>4. CASE c.amount = 0
  <2>1. -c.amount = 0
    <3>1. -c.amount = 0 - c.amount
      BY <1>1
    <3>. QED  BY <1>4, <3>1
  <2>. QED  BY <1>3, <1>4, <2>1 DEF Touched, Contract!Posted
<1>5. CASE c.amount # 0 /\ a = c.account
  <2>1. c.seen.account = balance[a]
    BY <1>t, <1>5 DEF Fresh
  <2>. QED  BY <1>2, <1>3, <1>5, <2>1 DEF Touched, Movement, Contract!Posted
<1>6. CASE c.amount # 0 /\ a # c.account /\ a = c.target
  <2>1. c.seen.target = balance[a]
    BY <1>t, <1>6, NoAccountAssumption DEF Fresh
  <2>2. -c.amount # 0 /\ c.seen.target - c.amount = balance[a] + (-c.amount)
    BY <1>1, <1>6, <2>1
  <2>. QED  BY <1>2, <1>3, <1>6, <2>2 DEF Touched, Movement, Contract!Posted
<1>7. CASE c.amount # 0 /\ a # c.account /\ a # c.target
  BY <1>3, <1>7 DEF Touched
<1>. QED  BY <1>4, <1>5, <1>6, <1>7

Paid == {x \in Trips : billing[x] = "charged"}

LEMMA CommitFollows ==
    ASSUME LedgerInv, AllPriced, NEW w \in Workers, Commit(w)
    PROVE  Contract!Next
<1>. DEFINE c == calls[w]
            a == calls[w].account
            m == -calls[w].amount
<1>t. /\ TypeOK /\ TypeOK' /\ TablesOK /\ CallOK(c) /\ AllocationShape(c) /\ Fresh(c)
      /\ Priced(c) /\ c.stage = "post"
  BY TypeParts, CommitTypes DEF LedgerInv, Commit, AllPriced
<1>1. a \in Accounts /\ c.amount \in Int /\ -m = c.amount /\ credit' = credit
  BY <1>t DEF CallOK, CallRow, Commit
<1>2. \A t \in Trips : billing'[t] = IF t = c.trip THEN "charged" ELSE billing[t]
  BY DEF Commit
<1>d. DOMAIN book = Accounts /\ DOMAIN book' = Accounts /\ book' = [b \in Accounts |-> book'[b]]
  BY <1>t DEF TypeOK
<1>3. CASE c.trip # NoTrip
  <2>1. c.trip \in Trips /\ c.target = NoAccount /\ m \in Amounts /\ billing[c.trip] # "charged"
    BY <1>t, <1>3 DEF CallOK, CallRow, AllocationShape, Priced, Fresh
  <2>2. \A b \in Accounts : book'[b] = IF b = a THEN Contract!Posted(a, -m, c.trip) ELSE book[b]
    BY <1>1, <2>1, CommitPosts, NoAccountAssumption
  <2>3. book' = [book EXCEPT ![a] = Contract!Posted(a, -m, c.trip)]
    BY <1>d, <2>2
  <2>4. Paid' = Paid \cup {c.trip} /\ c.trip \notin Paid
    BY <1>2, <2>1 DEF Paid
  <2>5. PICK t \in Trips, b \in Accounts, n \in Amounts : t = c.trip /\ b = a /\ n = m
    BY <1>1, <2>1
  <2>6. Contract!Pay(t, b, n)
    BY <1>1, <2>3, <2>4, <2>5 DEF Contract!Pay, Paid
  <2>. QED  BY <2>6 DEF Contract!Next
<1>4. CASE c.trip = NoTrip /\ c.target # NoAccount
  <2>. DEFINE to == calls[w].target
  <2>1. to \in Accounts /\ Level[to] = Level[a] + 1 /\ m \in Amounts /\ Sufficient(a, m)
    BY <1>t, <1>4 DEF AllocationShape, Priced, Fresh
  <2>2. to # a
    BY <1>1, <2>1, LevelAssumption
  <2>3. \A b \in Accounts : book'[b] = IF b = a THEN Contract!Posted(a, -m, NoTrip)
                                       ELSE IF b = to THEN Contract!Posted(to, m, NoTrip) ELSE book[b]
    BY <1>1, <1>4, CommitPosts
  <2>4. book' = [book EXCEPT ![a] = Contract!Posted(a, -m, NoTrip), ![to] = Contract!Posted(to, m, NoTrip)]
    BY <1>d, <2>2, <2>3
  <2>5. Contract!Balance(a) + credit[a] >= m
    BY <1>1, <2>1 DEF Contract!Balance, LedgerInv, BalanceMatchesBook, Sufficient
  <2>6. Paid' = Paid
    BY <1>2, <1>4, NoTripAssumption DEF Paid
  <2>7. Contract!Allocate(a, to, m)
    BY <1>1, <2>1, <2>4, <2>5, <2>6 DEF Contract!Allocate, Paid
  <2>. QED  BY <1>1, <2>1, <2>7 DEF Contract!Next
<1>5. CASE c.trip = NoTrip /\ c.target = NoAccount
  <2>1. PICK amount \in Amounts, sign \in {-1, 1} : c.amount = sign * amount
    <3>1. CASE c.amount \in Amounts
      <4>1. c.amount = 1 * c.amount
        BY <1>1
      <4>. QED  BY <3>1, <4>1
    <3>2. CASE m \in Amounts
      <4>1. c.amount = (-1) * m
        BY <1>1
      <4>. QED  BY <3>2, <4>1
    <3>. QED  BY <1>t, <3>1, <3>2 DEF Priced
  <2>2. \A b \in Accounts : book'[b] = IF b = a THEN Contract!Posted(a, c.amount, NoTrip) ELSE book[b]
    BY <1>1, <1>5, CommitPosts, NoAccountAssumption
  <2>3. book' = [book EXCEPT ![a] = Contract!Posted(a, c.amount, NoTrip)]
    BY <1>d, <2>2
  <2>4. Paid' = Paid
    BY <1>2, <1>5, NoTripAssumption DEF Paid
  <2>5. Contract!Post(a, sign * amount)
    BY <1>1, <2>1, <2>3, <2>4 DEF Contract!Post, Paid
  <2>. QED  BY <1>1, <2>5 DEF Contract!Next
<1>. QED  BY <1>3, <1>4, <1>5

LEMMA StepFollows ==
    ASSUME LedgerInv, AllPriced, [Next]_vars
    PROVE  [Contract!Next]_<<book, credit, Paid>>
<1>1. ASSUME NEW a \in Accounts, NEW limit \in Credits, SetCredit(a, limit) PROVE Contract!Next
  <2>1. Contract!SetCredit(a, limit)
    BY <1>1 DEF SetCredit, Contract!SetCredit
  <2>. QED  BY <2>1 DEF Contract!Next
<1>2. ASSUME NEW w \in Workers, CallStep(w) PROVE [Contract!Next]_<<book, credit, Paid>>
  <2>1. CASE Commit(w)
    BY <2>1, CommitFollows
  <2>2. CASE MarkFailed(w)
    <3>1. \A t \in Trips : billing'[t] = "charged" <=> billing[t] = "charged"
      BY <2>2 DEF MarkFailed, FailedStatus, LedgerInv, TypeOK
    <3>2. Paid' = Paid
      BY <3>1 DEF Paid
    <3>. QED  BY <2>2, <3>2 DEF MarkFailed
  <2>3. CASE UNCHANGED tables
    BY <2>3 DEF tables, Paid
  <2>. QED  BY <1>2, <2>1, <2>2, <2>3 DEF CallStep, BeginPosting, BeginAllocate, BillRead, Begin, BillRecheck,
              LockAccount, LockTarget, Rollback
<1>3. CASE UNCHANGED vars
  BY <1>3 DEF vars, Paid
<1>. QED  BY <1>1, <1>2, <1>3 DEF Next

\* Transactions that read, lock and post row after row, however many of them
\* are under way, come to movements made in one piece, on the books as they
\* are: nothing an interleaving does is more than a ledger without concurrency
\* could do (billing/service.go post, lockAccount and withTx; the re-check of
\* billing/hooks.go BillTrip; the check of billing/accounts.go Allocate).
THEOREM LedgerFollowsContract == Spec => FollowsContract
<1>1. Init => Contract!Init
  <2>. SUFFICES ASSUME Init PROVE Contract!Init
    OBVIOUS
  <2>. QED  BY DEF Init, Contract!Init
<1>2. Init => AllPriced
  BY DEF Init, AllPriced, Priced, AtRest, Call
<1>3. LedgerInv => TypeOK
  BY DEF LedgerInv
<1>4. LedgerInv /\ AllPriced /\ [Next]_vars =>
          [Contract!Next]_<<book, credit, {x \in Trips : billing[x] = "charged"}>>
  BY StepFollows DEF Paid
<1>. QED  BY <1>1, <1>2, <1>3, <1>4, PricedStep, LedgerInvariance, PTL DEF Spec, FollowsContract, Contract!Spec
=============================================================================
