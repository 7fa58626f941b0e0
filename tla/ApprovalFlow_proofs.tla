------------------------- MODULE ApprovalFlow_proofs -------------------------
(***************************************************************************)
(* What the approval workflow keeps for any requests, vehicles, windows    *)
(* and number of concurrent handlers, and what it keeps only as long as    *)
(* one handler at a time reads and writes.                                 *)
(***************************************************************************)
EXTENDS ApprovalFlow, TLAPS

(***************************************************************************)
(* The status machine.                                                     *)
(***************************************************************************)
\* Which event leads where, one row of the machine after the other.
LEMMA Machine ==
    ASSUME NEW status, NEW level \in 1..2, NEW step \in 1..2, NEW next
    PROVE  /\ next \in NextStatus(status, "approve", level, step) <=>
                  \/ status = "pending_l1" /\ level = 2 /\ step = 1 /\ next = "pending_l2"
                  \/ status = "pending_l1" /\ ~(level = 2 /\ step = 1) /\ next = "approved"
                  \/ status = "pending_l2" /\ next = "approved"
           /\ next \in NextStatus(status, "reject", level, step) <=> status \in Pending /\ next = "rejected"
           /\ next \in NextStatus(status, "cancel", level, step) <=>
                  status \in Pending \cup {"approved"} /\ next = "cancelled"
           /\ next \in NextStatus(status, "trip_start", level, step) <=> status = "approved" /\ next = "in_use"
           /\ next \in NextStatus(status, "trip_end", level, step) <=> status = "in_use" /\ next = "completed"
           /\ next \in NextStatus(status, "trip_cancel", level, step) <=> status = "in_use" /\ next = "approved"
           /\ next \in NextStatus(status, "expire", level, step) <=>
                  status \in Pending \cup {"approved"} /\ next = "expired"
<1>1. MoreLevels(level, step) <=> level = 2 /\ step = 1
  BY DEF MoreLevels
<1>. USE DEF NextStatus, Pending
<1>2. next \in NextStatus(status, "approve", level, step) <=>
          \/ status = "pending_l1" /\ level = 2 /\ step = 1 /\ next = "pending_l2"
          \/ status = "pending_l1" /\ ~(level = 2 /\ step = 1) /\ next = "approved"
          \/ status = "pending_l2" /\ next = "approved"
  BY <1>1
<1>3. next \in NextStatus(status, "reject", level, step) <=> status \in Pending /\ next = "rejected"
  OBVIOUS
<1>4. next \in NextStatus(status, "cancel", level, step) <=>
          status \in Pending \cup {"approved"} /\ next = "cancelled"
  OBVIOUS
<1>5. next \in NextStatus(status, "trip_start", level, step) <=> status = "approved" /\ next = "in_use"
  OBVIOUS
<1>6. next \in NextStatus(status, "trip_end", level, step) <=> status = "in_use" /\ next = "completed"
  OBVIOUS
<1>7. next \in NextStatus(status, "trip_cancel", level, step) <=> status = "in_use" /\ next = "approved"
  OBVIOUS
<1>8. next \in NextStatus(status, "expire", level, step) <=>
          status \in Pending \cup {"approved"} /\ next = "expired"
  OBVIOUS
<1>. QED  BY <1>2, <1>3, <1>4, <1>5, <1>6, <1>7, <1>8

-----------------------------------------------------------------------------
(***************************************************************************)
(* The inductive invariant.  Approve writes a status it computed when it   *)
(* took the lock of the request, so the steps match the status only if     *)
(* that outcome is still the outcome when it commits.                      *)
(***************************************************************************)
\* StepsMatchStatus, of one row.
Matches(r, actions) ==
    /\ r.status = "pending_l1" => r.step = 1 /\ \A i \in 1..r.level : actions[i] = "pending"
    /\ r.status = "pending_l2" => r.level = 2 /\ r.step = 2 /\ actions[1] = "approved" /\ actions[2] = "pending"
    /\ r.status \in {"approved", "in_use", "completed"} =>
           r.vehicle \in Vehicles /\ \A i \in 1..r.level : actions[i] = "approved"
    /\ r.status = "rejected" => actions[r.step] = "rejected"
    /\ r.status \in {"rejected", "cancelled", "expired"} => \A i \in 1..2 : actions[i] # "pending"

\* What a call that holds a lock relies on.
AssignFacts(c) ==
    c.stage = "assign" =>
        /\ c.approval \in Approvals /\ c.vehicle \in Vehicles
        /\ c.next \in Outcome(c.approval, "approve")

LocksExclusive ==
    \A w, x \in Workers :
        calls[w].stage = "assign" /\ calls[x].stage = "assign" /\ calls[w].approval = calls[x].approval => w = x

ApprovalInv ==
    /\ TypeOK
    /\ \A a \in Approvals : Matches(approvals[a], steps[a])
    /\ \A w \in Workers : AssignFacts(calls[w])
    /\ LocksExclusive

LEMMA MatchesParts == StepsMatchStatus <=> \A a \in Approvals : Matches(approvals[a], steps[a])
  BY DEF StepsMatchStatus, Matches

LEMMA InvInit == Init => ApprovalInv
<1>. SUFFICES ASSUME Init PROVE ApprovalInv
  OBVIOUS
<1>1. TypeOK
  BY DEF Init, TypeOK, ApprovalRow, CallRow, AtRest, Call, AnyWindow, StepActions
<1>2. \A a \in Approvals : Matches(approvals[a], steps[a])
  BY DEF Init, Matches
<1>3. \A w \in Workers : calls[w].stage = "rest"
  BY DEF Init, AtRest, Call
<1>4. (\A w \in Workers : AssignFacts(calls[w])) /\ LocksExclusive
  BY <1>3 DEF AssignFacts, LocksExclusive
<1>. QED  BY <1>1, <1>2, <1>4 DEF ApprovalInv

\* A step that writes one request keeps the invariant if the request and its
\* steps match and no call that goes on holds its lock.
LEMMA RowWritten ==
    ASSUME ApprovalInv, NEW a \in Approvals,
           NEW r \in ApprovalRow, NEW actions \in [1..2 -> StepActions], Matches(r, actions),
           approvals' = [approvals EXCEPT ![a] = r], steps' = [steps EXCEPT ![a] = actions],
           calls' \in [Workers -> CallRow],
           \A x \in Workers : calls'[x] = calls[x] \/ calls'[x] = AtRest,
           \A x \in Workers : calls'[x].stage = "assign" => calls'[x].approval # a
    PROVE  ApprovalInv'
<1>1. TypeOK'
  BY DEF ApprovalInv, TypeOK
<1>2. \A b \in Approvals : Matches(approvals'[b], steps'[b])
  <2>. TAKE b \in Approvals
  <2>1. CASE b = a
    BY <2>1 DEF ApprovalInv, TypeOK
  <2>2. CASE b # a
    BY <2>2 DEF ApprovalInv, TypeOK
  <2>. QED  BY <2>1, <2>2
<1>3. (\A b \in Approvals : Matches(approvals[b], steps[b]))'
  BY <1>2 DEF Matches
<1>4. ASSUME NEW x \in Workers PROVE AssignFacts(calls[x])'
  <2>1. CASE calls'[x] = AtRest
    BY <2>1 DEF AssignFacts, AtRest, Call
  <2>2. CASE calls'[x] = calls[x] /\ calls'[x].stage = "assign"
    <3>1. calls[x].approval \in Approvals \ {a} /\ AssignFacts(calls[x])
      BY <2>2 DEF ApprovalInv, AssignFacts
    <3>2. approvals'[calls[x].approval] = approvals[calls[x].approval]
      BY <3>1 DEF ApprovalInv, TypeOK
    <3>. QED  BY <2>2, <3>1, <3>2 DEF AssignFacts, Outcome
  <2>. QED  BY <2>1, <2>2 DEF AssignFacts
<1>5. \A x \in Workers : calls'[x].stage = "assign" => calls'[x] = calls[x]
  BY DEF AtRest, Call
<1>6. LocksExclusive'
  BY <1>5 DEF ApprovalInv, LocksExclusive
<1>. QED  BY <1>1, <1>3, <1>4, <1>6 DEF ApprovalInv

\* A step that writes only one call keeps the invariant if what the call
\* relies on holds and nobody else has the lock it takes.
LEMMA CallWritten ==
    ASSUME ApprovalInv, NEW w \in Workers, NEW c \in CallRow, AssignFacts(c),
           UNCHANGED <<approvals, steps>>, calls' = [calls EXCEPT ![w] = c],
           c.stage = "assign" => ~Locked(c.approval)
    PROVE  ApprovalInv'
<1>1. \A x \in Workers : calls'[x] = IF x = w THEN c ELSE calls[x]
  BY DEF ApprovalInv, TypeOK
<1>2. TypeOK'
  BY DEF ApprovalInv, TypeOK
<1>3. (\A a \in Approvals : Matches(approvals[a], steps[a]))'
  BY DEF ApprovalInv, Matches
<1>4. ASSUME NEW x \in Workers PROVE AssignFacts(calls[x])'
  BY <1>1 DEF ApprovalInv, AssignFacts, Outcome
<1>5. LocksExclusive'
  <2>. SUFFICES ASSUME NEW x \in Workers, NEW y \in Workers,
                       calls'[x].stage = "assign", calls'[y].stage = "assign",
                       calls'[x].approval = calls'[y].approval
                PROVE  x = y
    BY DEF LocksExclusive
  <2>1. CASE x = w /\ y # w
    BY <1>1, <2>1 DEF Locked
  <2>2. CASE y = w /\ x # w
    BY <1>1, <2>2 DEF Locked
  <2>3. CASE x # w /\ y # w
    BY <1>1, <2>3 DEF ApprovalInv, LocksExclusive
  <2>. QED  BY <2>1, <2>2, <2>3
<1>. QED  BY <1>2, <1>3, <1>4, <1>5 DEF ApprovalInv

-----------------------------------------------------------------------------
(***************************************************************************)
(* Every action.                                                           *)
(***************************************************************************)
LEMMA RestFacts == AtRest \in CallRow /\ AssignFacts(AtRest) /\ AtRest.stage = "rest"
  BY DEF AtRest, Call, CallRow, AnyWindow, AssignFacts

\* What Approve writes to a request, at the outcome its row calls for.
Passed(a, next, v) ==
    [approvals[a] EXCEPT !.status = next, !.step = NextStep(next, approvals[a].step), !.vehicle = v]

PassedSteps(a) == [steps[a] EXCEPT ![approvals[a].step] = "approved"]

LEMMA PassMatches ==
    ASSUME ApprovalInv, NEW a \in Approvals, NEW v \in Vehicles,
           NEW next \in Outcome(a, "approve")
    PROVE  /\ Passed(a, next, v) \in ApprovalRow
           /\ PassedSteps(a) \in [1..2 -> StepActions]
           /\ Matches(Passed(a, next, v), PassedSteps(a))
           /\ Pass(a, next, v) => /\ approvals' = [approvals EXCEPT ![a] = Passed(a, next, v)]
                                  /\ steps' = [steps EXCEPT ![a] = PassedSteps(a)]
<1>. DEFINE r == approvals[a]
<1>1. r \in ApprovalRow /\ steps[a] \in [1..2 -> StepActions] /\ Matches(r, steps[a])
  BY DEF ApprovalInv, TypeOK
<1>2. r.level \in 1..2 /\ r.step \in 1..2
  BY <1>1 DEF ApprovalRow
<1>3. \/ r.status = "pending_l1" /\ r.level = 2 /\ r.step = 1 /\ next = "pending_l2"
      \/ r.status = "pending_l1" /\ r.level = 1 /\ r.step = 1 /\ next = "approved"
      \/ r.status = "pending_l2" /\ r.level = 2 /\ r.step = 2 /\ next = "approved"
  <2>1. next \in NextStatus(r.status, "approve", r.level, r.step)
    BY DEF Outcome
  <2>2. \/ r.status = "pending_l1" /\ r.level = 2 /\ r.step = 1 /\ next = "pending_l2"
        \/ r.status = "pending_l1" /\ ~(r.level = 2 /\ r.step = 1) /\ next = "approved"
        \/ r.status = "pending_l2" /\ next = "approved"
    BY <1>2, <2>1, Machine
  <2>. QED  BY <1>1, <1>2, <2>2 DEF Matches
<1>4. Passed(a, next, v) \in ApprovalRow
  <2>1. NextStep(next, r.step) \in 1..2 /\ next \in RequestStates
    BY <1>2, <1>3 DEF NextStep, RequestStates, Holding, Pending
  <2>. QED  BY <1>1, <2>1 DEF Passed, ApprovalRow
<1>5. PassedSteps(a) \in [1..2 -> StepActions]
  BY <1>1, <1>2 DEF PassedSteps, StepActions
<1>6. Matches(Passed(a, next, v), PassedSteps(a))
  <2>1. CASE next = "pending_l2"
    BY <1>1, <1>3, <2>1 DEF Passed, PassedSteps, NextStep, Matches, ApprovalRow
  <2>2. CASE next = "approved"
    BY <1>1, <1>3, <2>2 DEF Passed, PassedSteps, NextStep, Matches, ApprovalRow
  <2>. QED  BY <1>3, <2>1, <2>2
<1>7. ASSUME Pass(a, next, v)
      PROVE  /\ approvals' = [approvals EXCEPT ![a] = Passed(a, next, v)]
             /\ steps' = [steps EXCEPT ![a] = PassedSteps(a)]
  BY <1>7 DEF Pass, Passed, PassedSteps, ApprovalInv, TypeOK
<1>. QED  BY <1>4, <1>5, <1>6, <1>7

\* A request that leaves the workflow: what becomes of it and its steps.
Moved(a, next) == [approvals[a] EXCEPT !.status = next]

LEMMA MoveMatches ==
    ASSUME ApprovalInv, NEW a \in Approvals, approvals[a].status # "absent"
    PROVE  /\ \A next \in RequestStates : Moved(a, next) \in ApprovalRow
           /\ \A actions \in [1..2 -> StepActions] :
                  /\ Skipped(actions) \in [1..2 -> StepActions]
                  /\ \A next \in {"cancelled", "expired"} : Matches(Moved(a, next), Skipped(actions))
           /\ Skipped([steps[a] EXCEPT ![approvals[a].step] = "rejected"]) \in [1..2 -> StepActions]
           /\ Matches(Moved(a, "rejected"), Skipped([steps[a] EXCEPT ![approvals[a].step] = "rejected"]))
           /\ approvals[a].status \in {"approved", "in_use"} =>
                  \A next \in {"approved", "in_use", "completed"} : Matches(Moved(a, next), steps[a])
<1>1. approvals[a] \in ApprovalRow /\ steps[a] \in [1..2 -> StepActions] /\ Matches(approvals[a], steps[a])
  BY DEF ApprovalInv, TypeOK
<1>2. approvals[a].step \in 1..2
  BY <1>1 DEF ApprovalRow
<1>3. \A next \in RequestStates : Moved(a, next) \in ApprovalRow
  BY <1>1 DEF Moved, ApprovalRow
<1>4. \A next : /\ Moved(a, next).status = next /\ Moved(a, next).step = approvals[a].step
               /\ Moved(a, next).level = approvals[a].level /\ Moved(a, next).vehicle = approvals[a].vehicle
  BY <1>1 DEF Moved, ApprovalRow
<1>5. ASSUME NEW actions \in [1..2 -> StepActions]
      PROVE  /\ Skipped(actions) \in [1..2 -> StepActions]
             /\ \A i \in 1..2 : Skipped(actions)[i] # "pending"
             /\ \A i \in 1..2 : actions[i] = "rejected" => Skipped(actions)[i] = "rejected"
  BY DEF Skipped, StepActions
<1>6. ASSUME NEW actions \in [1..2 -> StepActions], NEW next \in {"cancelled", "expired"}
      PROVE  Matches(Moved(a, next), Skipped(actions))
  BY <1>4, <1>5 DEF Matches
<1>. DEFINE refused == [steps[a] EXCEPT ![approvals[a].step] = "rejected"]
<1>7. refused \in [1..2 -> StepActions] /\ refused[approvals[a].step] = "rejected"
  BY <1>1, <1>2 DEF StepActions
<1>8. Matches(Moved(a, "rejected"), Skipped(refused))
  <2>. HIDE DEF refused
  <2>. QED  BY <1>2, <1>4, <1>5, <1>7 DEF Matches
<1>9. approvals[a].status \in {"approved", "in_use"} =>
          \A next \in {"approved", "in_use", "completed"} : Matches(Moved(a, next), steps[a])
  BY <1>1, <1>4 DEF Matches
<1>. QED  BY <1>3, <1>5, <1>6, <1>7, <1>8, <1>9

\* A step of one request: it writes its row, and no call holds its lock.
LEMMA RequestStepShape ==
    ASSUME ApprovalInv, NEW a \in Approvals,
           \/ ApproveKeep(a)
           \/ Reject(a)
           \/ Cancel(a)
           \/ ExpireStale(a)
           \/ \E event \in {"trip_start", "trip_end", "trip_cancel"} : TripMark(a, event)
    PROVE  /\ UNCHANGED calls
           /\ ~Locked(a)
           /\ \E r \in ApprovalRow, actions \in [1..2 -> StepActions] :
                  /\ Matches(r, actions)
                  /\ approvals' = [approvals EXCEPT ![a] = r]
                  /\ steps' = [steps EXCEPT ![a] = actions]
<1>t. /\ approvals[a] \in ApprovalRow /\ steps[a] \in [1..2 -> StepActions]
      /\ approvals[a].level \in 1..2 /\ approvals[a].step \in 1..2
      /\ approvals \in [Approvals -> ApprovalRow] /\ steps \in [Approvals -> [1..2 -> StepActions]]
  BY DEF ApprovalInv, TypeOK, ApprovalRow
<1>m. \A next : [approvals EXCEPT ![a].status = next] = [approvals EXCEPT ![a] = Moved(a, next)]
  BY <1>t DEF Moved
<1>. USE DEF RequestStates, Holding, Pending, Final
<1>1. CASE ApproveKeep(a)
  <2>1. PICK next \in Outcome(a, "approve") : Pass(a, next, approvals[a].vehicle)
    BY <1>1 DEF ApproveKeep
  <2>2. approvals[a].vehicle \in Vehicles
    BY <1>1, <1>t DEF ApproveKeep, ApprovalRow
  <2>. QED  BY <1>1, <2>1, <2>2, PassMatches DEF ApproveKeep
<1>2. CASE Reject(a)
  <2>0. PICK next \in Outcome(a, "reject") : approvals' = [approvals EXCEPT ![a].status = next]
    BY <1>2 DEF Reject
  <2>n. next = "rejected" /\ approvals[a].status \in Pending
    BY <1>t, <2>0, Machine DEF Outcome
  <2>1. approvals[a].status # "absent" /\ approvals' = [approvals EXCEPT ![a] = Moved(a, "rejected")]
    BY <1>m, <2>0, <2>n
  <2>2. steps' = [steps EXCEPT ![a] = Skipped([steps[a] EXCEPT ![approvals[a].step] = "rejected"])]
    BY <1>2, <1>t DEF Reject
  <2>3. UNCHANGED calls /\ ~Locked(a)
    BY <1>2 DEF Reject
  <2>. QED  BY <2>1, <2>2, <2>3, MoveMatches
<1>3. CASE Cancel(a)
  <2>0. PICK next \in Outcome(a, "cancel") : approvals' = [approvals EXCEPT ![a].status = next]
    BY <1>3 DEF Cancel
  <2>n. next = "cancelled" /\ approvals[a].status \in Pending \cup {"approved"}
    BY <1>t, <2>0, Machine DEF Outcome
  <2>1. approvals[a].status # "absent" /\ approvals' = [approvals EXCEPT ![a] = Moved(a, "cancelled")]
    BY <1>m, <2>0, <2>n
  <2>2. steps' = [steps EXCEPT ![a] = Skipped(steps[a])]
    BY <1>3, <1>t DEF Cancel
  <2>3. UNCHANGED calls /\ ~Locked(a)
    BY <1>3 DEF Cancel
  <2>. QED  BY <1>t, <2>1, <2>2, <2>3, MoveMatches
<1>4. CASE ExpireStale(a)
  <2>1. approvals[a].status # "absent" /\ approvals' = [approvals EXCEPT ![a] = Moved(a, "expired")]
    BY <1>4, <1>m DEF ExpireStale
  <2>2. steps' = [steps EXCEPT ![a] = Skipped(steps[a])]
    BY <1>4, <1>t DEF ExpireStale
  <2>3. UNCHANGED calls /\ ~Locked(a)
    BY <1>4 DEF ExpireStale
  <2>. QED  BY <1>t, <2>1, <2>2, <2>3, MoveMatches
<1>5. ASSUME NEW event \in {"trip_start", "trip_end", "trip_cancel"}, TripMark(a, event)
      PROVE  /\ UNCHANGED calls
             /\ ~Locked(a)
             /\ \E r \in ApprovalRow, actions \in [1..2 -> StepActions] :
                    /\ Matches(r, actions)
                    /\ approvals' = [approvals EXCEPT ![a] = r]
                    /\ steps' = [steps EXCEPT ![a] = actions]
  <2>1. PICK next \in Outcome(a, event) : approvals' = [approvals EXCEPT ![a].status = next]
    BY <1>5 DEF TripMark
  <2>2. approvals[a].status \in {"approved", "in_use"} /\ next \in {"approved", "in_use", "completed"}
    BY <1>5, <1>t, <2>1, Machine DEF Outcome
  <2>3. steps' = [steps EXCEPT ![a] = steps[a]]
    BY <1>5, <1>t DEF TripMark
  <2>. QED  BY <1>5, <1>m, <1>t, <2>1, <2>2, <2>3, MoveMatches DEF TripMark
<1>. QED  BY <1>1, <1>2, <1>3, <1>4, <1>5

LEMMA RequestInv == ApprovalInv /\ RequestStep => ApprovalInv'
<1>. SUFFICES ASSUME ApprovalInv, NEW a \in Approvals,
                     \/ ApproveKeep(a)
                     \/ Reject(a)
                     \/ Cancel(a)
                     \/ ExpireStale(a)
                     \/ \E event \in {"trip_start", "trip_end", "trip_cancel"} : TripMark(a, event)
              PROVE  ApprovalInv'
  BY DEF RequestStep
<1>1. PICK r \in ApprovalRow, actions \in [1..2 -> StepActions] :
          /\ Matches(r, actions)
          /\ approvals' = [approvals EXCEPT ![a] = r]
          /\ steps' = [steps EXCEPT ![a] = actions]
  BY RequestStepShape
<1>2. UNCHANGED calls /\ ~Locked(a)
  BY RequestStepShape
<1>3. calls' \in [Workers -> CallRow] /\ \A x \in Workers : calls'[x].stage = "assign" => calls'[x].approval # a
  BY <1>2 DEF ApprovalInv, TypeOK, Locked
<1>. QED  BY <1>1, <1>2, <1>3, RowWritten

LEMMA CallInv ==
    ASSUME ApprovalInv, NEW w \in Workers, CallStep(w)
    PROVE  ApprovalInv'
<1>t. calls \in [Workers -> CallRow] /\ calls[w] \in CallRow /\ AssignFacts(calls[w])
  BY DEF ApprovalInv, TypeOK
<1>1. ASSUME NEW window \in Windows, NEW v \in Vehicles \cup {NoVehicle}, NEW level \in 1..2,
             CreateRead(w, window, v, level)
      PROVE  ApprovalInv'
  <2>. DEFINE c == Call("insert", NoApproval, "approved", level, v, window)
  <2>1. c \in CallRow /\ c.stage = "insert" /\ AssignFacts(c)
    BY DEF Call, CallRow, AnyWindow, AssignFacts
  <2>2. calls' = [calls EXCEPT ![w] = c] /\ UNCHANGED <<approvals, steps>>
    BY <1>1 DEF CreateRead
  <2>. HIDE DEF c
  <2>. QED  BY <2>1, <2>2, CallWritten
<1>2. ASSUME NEW a \in Approvals, CreateInsert(w, a)
      PROVE  ApprovalInv'
  <2>. DEFINE c == calls[w]
              r == [status |-> "pending_l1", level |-> c.level, step |-> 1,
                    vehicle |-> c.vehicle, window |-> c.window]
              actions == [i \in 1..2 |-> IF i <= c.level THEN "pending" ELSE "none"]
  <2>1. r \in ApprovalRow /\ actions \in [1..2 -> StepActions]
    BY <1>t DEF ApprovalRow, CallRow, RequestStates, Holding, Pending, StepActions
  <2>2. Matches(r, actions)
    BY <1>t DEF Matches, CallRow
  <2>3. /\ approvals[a].status = "absent" /\ c.stage = "insert"
        /\ approvals' = [approvals EXCEPT ![a] = r]
        /\ steps' = [steps EXCEPT ![a] = actions]
        /\ calls' = [calls EXCEPT ![w] = AtRest]
    BY <1>2 DEF CreateInsert
  <2>. HIDE DEF r, actions
  <2>4. \A x \in Workers : calls[x].stage = "assign" => calls[x].approval # a
    <3>. SUFFICES ASSUME NEW x \in Workers, calls[x].stage = "assign", calls[x].approval = a
                  PROVE  FALSE
      OBVIOUS
    <3>1. calls[x].next \in Outcome(a, "approve")
      BY DEF ApprovalInv, AssignFacts
    <3>2. approvals[a].level \in 1..2 /\ approvals[a].step \in 1..2
      BY DEF ApprovalInv, TypeOK, ApprovalRow
    <3>. QED  BY <2>3, <3>1, <3>2, Machine DEF Outcome
  <2>5. \A x \in Workers : calls'[x] = IF x = w THEN AtRest ELSE calls[x]
    BY <1>t, <2>3
  <2>6. calls' \in [Workers -> CallRow]
    BY <1>t, <2>3, RestFacts
  <2>7. \A x \in Workers : calls'[x].stage = "assign" => calls'[x].approval # a
    BY <2>4, <2>5, RestFacts
  <2>. QED  BY <2>1, <2>2, <2>3, <2>5, <2>6, <2>7, RowWritten
<1>3. ASSUME NEW a \in Approvals, NEW v \in Vehicles, AssignRead(w, a, v)
      PROVE  ApprovalInv'
  <2>1. PICK next \in Outcome(a, "approve") :
            calls' = [calls EXCEPT ![w] = Call("assign", a, next, 1, v, NoWindow)]
    BY <1>3 DEF AssignRead
  <2>. DEFINE c == Call("assign", a, next, 1, v, NoWindow)
  <2>2. next \in {"approved", "pending_l2"}
    <3>1. approvals[a].level \in 1..2 /\ approvals[a].step \in 1..2
      BY DEF ApprovalInv, TypeOK, ApprovalRow
    <3>. QED  BY <2>1, <3>1, Machine DEF Outcome
  <2>c. c \in CallRow /\ c.approval = a /\ c.vehicle = v /\ c.next = next
    BY <2>2 DEF Call, CallRow, AnyWindow
  <2>4. UNCHANGED <<approvals, steps>> /\ ~Locked(a)
    BY <1>3 DEF AssignRead
  <2>. HIDE DEF c
  <2>3. AssignFacts(c)
    BY <2>c, <2>1 DEF AssignFacts
  <2>5. calls' = [calls EXCEPT ![w] = c]
    BY <2>1 DEF c
  <2>. QED  BY <2>c, <2>3, <2>4, <2>5, CallWritten
<1>4. CASE AssignCommit(w)
  <2>. DEFINE c == calls[w]
              a == calls[w].approval
  <2>1. /\ c.stage = "assign" /\ Pass(a, c.next, c.vehicle) /\ calls' = [calls EXCEPT ![w] = AtRest]
        /\ a \in Approvals /\ c.vehicle \in Vehicles /\ c.next \in Outcome(a, "approve")
    BY <1>4, <1>t DEF AssignCommit, AssignFacts
  <2>2. \A x \in Workers : calls'[x] = IF x = w THEN AtRest ELSE calls[x]
    BY <1>t, <2>1
  <2>3. calls' \in [Workers -> CallRow]
    BY <1>t, <2>1, RestFacts
  <2>4. \A x \in Workers : calls'[x].stage = "assign" => calls'[x].approval # a
    BY <2>1, <2>2, RestFacts DEF ApprovalInv, LocksExclusive
  <2>. HIDE DEF a, c
  <2>. QED  BY <2>1, <2>2, <2>3, <2>4, PassMatches, RowWritten
<1>5. CASE Rollback(w)
  BY <1>5, RestFacts, CallWritten DEF Rollback
<1>. QED  BY <1>1, <1>2, <1>3, <1>4, <1>5 DEF CallStep

LEMMA InvStep == ApprovalInv /\ [Next]_vars => ApprovalInv'
<1>. SUFFICES ASSUME ApprovalInv, [Next]_vars PROVE ApprovalInv'
  OBVIOUS
<1>1. CASE UNCHANGED vars
  BY <1>1 DEF vars, ApprovalInv, TypeOK, Matches, AssignFacts, Outcome, LocksExclusive
<1>. QED  BY <1>1, RequestInv, CallInv DEF Next

\* The inductive invariant of the workflow holds in every reachable state.
THEOREM ApprovalInvariance == Spec => []ApprovalInv
  BY InvInit, InvStep, PTL DEF Spec

\* Every variable keeps its type.
THEOREM TypeCorrect == Spec => []TypeOK
<1>. ApprovalInv => TypeOK
  BY DEF ApprovalInv
<1>. QED  BY ApprovalInvariance, PTL

\* Whatever handlers race, the approval steps tell the story of the status.
THEOREM StepsFollowStatus == Spec => []StepsMatchStatus
<1>. ApprovalInv => StepsMatchStatus
  BY MatchesParts DEF ApprovalInv
<1>. QED  BY ApprovalInvariance, PTL

-----------------------------------------------------------------------------
(***************************************************************************)
(* One row, one step: what may become of a request.                        *)
(***************************************************************************)
RowStep(a) ==
    LET old == approvals[a]
        new == approvals'[a] IN
    \/ new = old
    \/ old.status = "absent" /\ new.status = "pending_l1"
    \/ old.status \in Pending /\ new.status \in Outcome(a, "approve") /\ new.window = old.window
    \/ \E event \in Events \ {"approve"} :
           new.status \in Outcome(a, event) /\ new.vehicle = old.vehicle /\ new.window = old.window

\* A step changes one request, or none.
LEMMA OneRow ==
    ASSUME ApprovalInv, [Next]_vars
    PROVE  \/ approvals' = approvals
           \/ \E a \in Approvals : RowStep(a) /\ \E r : approvals' = [approvals EXCEPT ![a] = r]
<1>t. /\ approvals \in [Approvals -> ApprovalRow]
      /\ \A a \in Approvals : approvals[a].level \in 1..2 /\ approvals[a].step \in 1..2
  BY DEF ApprovalInv, TypeOK, ApprovalRow
<1>a. ASSUME NEW a \in Approvals, NEW next \in Outcome(a, "approve"), NEW v \in Vehicles, Pass(a, next, v)
      PROVE  RowStep(a) /\ \E r : approvals' = [approvals EXCEPT ![a] = r]
  <2>1. approvals' = [approvals EXCEPT ![a] = Passed(a, next, v)]
    BY <1>a, PassMatches
  <2>2. approvals[a] \in ApprovalRow /\ approvals'[a] = Passed(a, next, v)
    BY <1>t, <2>1
  <2>3. approvals'[a].status = next /\ approvals'[a].window = approvals[a].window
    BY <2>2 DEF Passed, ApprovalRow
  <2>4. approvals[a].status \in Pending
    BY <1>t, <1>a, Machine DEF Outcome, Pending
  <2>. QED  BY <1>a, <2>1, <2>3, <2>4 DEF RowStep
<1>b. ASSUME NEW a \in Approvals, NEW event \in Events \ {"approve"}, NEW next \in Outcome(a, event),
             approvals' = [approvals EXCEPT ![a].status = next]
      PROVE  RowStep(a) /\ \E r : approvals' = [approvals EXCEPT ![a] = r]
  <2>1. approvals' = [approvals EXCEPT ![a] = Moved(a, next)]
    BY <1>t, <1>b DEF Moved
  <2>2. approvals[a] \in ApprovalRow /\ approvals'[a] = Moved(a, next)
    BY <1>t, <2>1
  <2>3. /\ approvals'[a].status = next /\ approvals'[a].vehicle = approvals[a].vehicle
        /\ approvals'[a].window = approvals[a].window
    BY <2>2 DEF Moved, ApprovalRow
  <2>. QED  BY <1>b, <2>1, <2>3 DEF RowStep
<1>e. /\ {"reject", "cancel", "expire", "trip_start", "trip_end", "trip_cancel"} \subseteq Events \ {"approve"}
  BY DEF Events
<1>1. ASSUME NEW a \in Approvals, ApproveKeep(a)
      PROVE  RowStep(a) /\ \E r : approvals' = [approvals EXCEPT ![a] = r]
  <2>1. approvals[a].vehicle \in Vehicles
    BY <1>1, <1>t DEF ApproveKeep, ApprovalRow
  <2>. QED  BY <1>1, <1>a, <2>1 DEF ApproveKeep
<1>2. ASSUME NEW a \in Approvals, Reject(a) \/ Cancel(a)
      PROVE  RowStep(a) /\ \E r : approvals' = [approvals EXCEPT ![a] = r]
  BY <1>2, <1>b, <1>e DEF Reject, Cancel
<1>3. ASSUME NEW a \in Approvals, ExpireStale(a)
      PROVE  RowStep(a) /\ \E r : approvals' = [approvals EXCEPT ![a] = r]
  <2>1. "expired" \in Outcome(a, "expire")
    BY <1>3, <1>t, Machine DEF ExpireStale, Outcome
  <2>. QED  BY <1>3, <2>1, <1>b, <1>e DEF ExpireStale
<1>4. ASSUME NEW a \in Approvals, NEW event \in {"trip_start", "trip_end", "trip_cancel"}, TripMark(a, event)
      PROVE  RowStep(a) /\ \E r : approvals' = [approvals EXCEPT ![a] = r]
  BY <1>4, <1>b, <1>e DEF TripMark
<1>5. ASSUME NEW w \in Workers, NEW a \in Approvals, CreateInsert(w, a)
      PROVE  RowStep(a) /\ \E r : approvals' = [approvals EXCEPT ![a] = r]
  BY <1>5, <1>t DEF CreateInsert, RowStep
<1>6. ASSUME NEW w \in Workers, AssignCommit(w)
      PROVE  \E a \in Approvals : RowStep(a) /\ \E r : approvals' = [approvals EXCEPT ![a] = r]
  BY <1>6, <1>a DEF AssignCommit, ApprovalInv, AssignFacts
<1>7. ASSUME RequestStep
      PROVE  \E a \in Approvals : RowStep(a) /\ \E r : approvals' = [approvals EXCEPT ![a] = r]
  BY <1>7, <1>1, <1>2, <1>3, <1>4 DEF RequestStep
<1>8. ASSUME NEW w \in Workers, CallStep(w)
      PROVE  \/ approvals' = approvals
             \/ \E a \in Approvals : RowStep(a) /\ \E r : approvals' = [approvals EXCEPT ![a] = r]
  BY <1>8, <1>5, <1>6 DEF CallStep, CreateRead, AssignRead, Rollback
<1>. QED  BY <1>7, <1>8 DEF Next, vars

\* The car and the window a driver was told do not change any more.
THEOREM ApprovedVehicleStays == Spec => ApprovedVehicleIsFixed
<1>1. ApprovalInv /\ [Next]_vars =>
          [\A a \in Approvals : approvals[a].status \in {"approved", "in_use", "completed"} =>
               approvals'[a].vehicle = approvals[a].vehicle /\ approvals'[a].window = approvals[a].window]_vars
  <2>. SUFFICES ASSUME ApprovalInv, [Next]_vars, NEW b \in Approvals,
                       approvals[b].status \in {"approved", "in_use", "completed"}
                PROVE  approvals'[b].vehicle = approvals[b].vehicle /\ approvals'[b].window = approvals[b].window
    OBVIOUS
  <2>1. ASSUME NEW a \in Approvals, RowStep(a), NEW r, approvals' = [approvals EXCEPT ![a] = r]
        PROVE  approvals'[b].vehicle = approvals[b].vehicle /\ approvals'[b].window = approvals[b].window
    <3>1. CASE a = b
      BY <2>1, <3>1 DEF RowStep, Pending
    <3>2. CASE a # b
      BY <2>1, <3>2 DEF ApprovalInv, TypeOK
    <3>. QED  BY <3>1, <3>2
  <2>. QED  BY <2>1, OneRow
<1>. QED  BY <1>1, ApprovalInvariance, PTL DEF Spec, ApprovedVehicleIsFixed

-----------------------------------------------------------------------------
(***************************************************************************)
(* ApprovalFlow implements ApprovalContract.                               *)
(***************************************************************************)
\* The machine the contract is instantiated with is the machine of the module.
LEMMA ContractMachine ==
    /\ Contract!Events = Events
    /\ \A status, event, level, step :
           Contract!NextStatus(status, event, level, step) = NextStatus(status, event, level, step)
  BY DEF Contract!Events, Events, Contract!NextStatus, NextStatus, Contract!MoreLevels, MoreLevels,
         Contract!Pending, Pending

LEMMA ContractStep == ApprovalInv /\ [Next]_vars => [Contract!Next]_[a \in Approvals |-> approvals[a].status]
<1>. DEFINE status == [a \in Approvals |-> approvals[a].status]
<1>. SUFFICES ASSUME ApprovalInv, [Next]_vars
              PROVE  Contract!Next \/ UNCHANGED status
  OBVIOUS
<1>1. CASE approvals' = approvals
  BY <1>1
<1>2. ASSUME NEW a \in Approvals, RowStep(a), NEW r, approvals' = [approvals EXCEPT ![a] = r]
      PROVE  Contract!Next \/ UNCHANGED status
  <2>t. /\ approvals \in [Approvals -> ApprovalRow]
        /\ approvals[a].level \in 1..2 /\ approvals[a].step \in 1..2
    BY DEF ApprovalInv, TypeOK, ApprovalRow
  <2>1. status' = [status EXCEPT ![a] = approvals'[a].status] /\ status[a] = approvals[a].status
    BY <1>2, <2>t
  <2>2. CASE approvals'[a] = approvals[a]
    BY <1>2, <2>2, <2>t
  <2>3. CASE approvals[a].status = "absent" /\ approvals'[a].status = "pending_l1"
    <3>1. Contract!Submit(a)
      BY <2>1, <2>3 DEF Contract!Submit
    <3>. QED  BY <3>1 DEF Contract!Next
  <2>4. ASSUME NEW event \in Events, approvals'[a].status \in Outcome(a, event)
        PROVE  Contract!Next
    <3>. HIDE DEF status
    <3>1. approvals'[a].status \in
              Contract!NextStatus(status[a], event, approvals[a].level, approvals[a].step)
      BY <2>1, <2>4, ContractMachine DEF Outcome
    <3>2. Contract!Event(a, event)
      BY <2>1, <2>t, <3>1, Zenon DEF Contract!Event, status
    <3>. QED  BY <3>2, ContractMachine DEF Contract!Next
  <2>. QED  BY <1>2, <2>2, <2>3, <2>4 DEF RowStep, Events
<1>. QED  BY <1>1, <1>2, OneRow

\* The workflow moves a request only along the status machine, for any number
\* of concurrent handlers.
THEOREM WorkflowFollowsContract == Spec => FollowsContract
<1>1. Init => Contract!Init
  BY DEF Init, Contract!Init
<1>. QED  BY <1>1, ContractStep, ApprovalInvariance, PTL DEF Spec, FollowsContract, Contract!Spec

-----------------------------------------------------------------------------
(***************************************************************************)
(* One handler at a time.  The conflict query is right when it runs; what  *)
(* it found stays true until the write only if nobody else writes between. *)
(***************************************************************************)
OneHandler == \A w, x \in Workers : w = x

\* A conflict is a window that is too close, and only such a window.
LEMMA TooCloseIsNotApart ==
    ASSUME NEW x \in AnyWindow, NEW y \in AnyWindow
    PROVE  TooClose(x, y) <=> ~Apart(x, y)
<1>1. /\ x.start \in Nat /\ x.end \in Nat /\ y.start \in Nat /\ y.end \in Nat
  BY WindowsAssumption DEF AnyWindow, NoWindow
<1>. QED  BY <1>1 DEF TooClose, Apart, Turnaround

\* What the conflict query found is still so when the call writes.
QueryHolds(c) ==
    /\ c.stage = "insert" /\ c.vehicle # NoVehicle => Conflicting(c.vehicle, c.window, NoApproval) = {}
    /\ c.stage = "assign" => Conflicting(c.vehicle, approvals[c.approval].window, c.approval) = {}

SerialInv == ApprovalInv /\ NoDoubleHold /\ \A w \in Workers : QueryHolds(calls[w])

\* The row a step writes holds its vehicle only if it did before, and keeps
\* vehicle and window: a step that no conflict query has to precede.
KeepsHold(a) ==
    /\ approvals'[a].status \in Holding => approvals[a].status \in Holding
    /\ approvals'[a].vehicle = approvals[a].vehicle /\ approvals'[a].window = approvals[a].window

LEMMA KeptApart ==
    ASSUME SerialInv, \A a \in Approvals : KeepsHold(a)
    PROVE  /\ NoDoubleHold'
           /\ \A x \in Workers : calls'[x] = calls[x] => QueryHolds(calls[x])'
<1>1. NoDoubleHold'
  BY DEF SerialInv, NoDoubleHold, KeepsHold
<1>2. ASSUME NEW x \in Workers, calls'[x] = calls[x] PROVE QueryHolds(calls[x])'
  <2>1. \A v, window, self : Conflicting(v, window, self)' \subseteq Conflicting(v, window, self)
    BY DEF Conflicting, KeepsHold
  <2>2. QueryHolds(calls[x]) /\ AssignFacts(calls[x])
    BY DEF SerialInv, ApprovalInv
  <2>3. CASE calls[x].stage = "insert"
    BY <1>2, <2>1, <2>2, <2>3 DEF QueryHolds
  <2>4. CASE calls[x].stage = "assign"
    <3>1. approvals'[calls[x].approval].window = approvals[calls[x].approval].window
      BY <2>2, <2>4 DEF AssignFacts, KeepsHold
    <3>. QED  BY <1>2, <2>1, <2>2, <2>4, <3>1 DEF QueryHolds
  <2>. QED  BY <1>2, <2>3, <2>4 DEF QueryHolds
<1>. QED  BY <1>1, <1>2

\* A row that is written after its query found no conflict is apart from all.
LEMMA TakenApart ==
    ASSUME SerialInv, NEW a \in Approvals, NEW r, approvals' = [approvals EXCEPT ![a] = r],
           r.window \in AnyWindow,
           NEW self \in {a, NoApproval}, approvals[a].status \in Holding => self = a,
           r.vehicle \in Vehicles => Conflicting(r.vehicle, r.window, self) = {}
    PROVE  NoDoubleHold'
<1>t. /\ approvals \in [Approvals -> ApprovalRow]
      /\ \A b \in Approvals : approvals[b].window \in AnyWindow
      /\ \A b \in Approvals : approvals'[b] = IF b = a THEN r ELSE approvals[b]
  BY DEF SerialInv, ApprovalInv, TypeOK, ApprovalRow
<1>1. ASSUME NEW b \in Approvals \ {a}, approvals[b].status \in Holding, approvals[b].vehicle = r.vehicle,
             r.vehicle \in Vehicles
      PROVE  Apart(approvals[b].window, r.window) /\ Apart(r.window, approvals[b].window)
  <2>1. b # self
    BY NoApprovalAssumption
  <2>2. ~TooClose(approvals[b].window, r.window)
    BY <1>1, <2>1 DEF Conflicting
  <2>3. Apart(approvals[b].window, r.window)
    BY <1>t, <2>2, TooCloseIsNotApart
  <2>. QED  BY <2>3 DEF Apart
<1>. SUFFICES ASSUME NEW b \in Approvals, NEW c \in Approvals, b # c,
                     approvals'[b].status \in Holding, approvals'[c].status \in Holding,
                     approvals'[b].vehicle \in Vehicles, approvals'[b].vehicle = approvals'[c].vehicle
              PROVE  Apart(approvals'[b].window, approvals'[c].window)
  BY DEF NoDoubleHold
<1>2. CASE b = a
  BY <1>1, <1>2, <1>t
<1>3. CASE c = a
  BY <1>1, <1>3, <1>t
<1>4. CASE b # a /\ c # a
  BY <1>4, <1>t DEF SerialInv, NoDoubleHold
<1>. QED  BY <1>2, <1>3, <1>4

LEMMA SerialRequest == SerialInv /\ RequestStep => NoDoubleHold' /\ \A w \in Workers : QueryHolds(calls[w])'
<1>. SUFFICES ASSUME SerialInv, RequestStep
              PROVE  NoDoubleHold' /\ \A w \in Workers : QueryHolds(calls[w])'
  OBVIOUS
<1>t. \A a \in Approvals : /\ approvals[a] \in ApprovalRow /\ approvals[a].level \in 1..2
                           /\ approvals[a].step \in 1..2
  BY DEF SerialInv, ApprovalInv, TypeOK, ApprovalRow
<1>h. Pending \subseteq Holding /\ Pending \cup {"approved"} \subseteq Holding /\ "in_use" \in Holding
  BY DEF Holding, Pending
<1>1. PICK a \in Approvals :
          \/ ApproveKeep(a)
          \/ Reject(a)
          \/ Cancel(a)
          \/ ExpireStale(a)
          \/ \E event \in {"trip_start", "trip_end", "trip_cancel"} : TripMark(a, event)
  BY DEF RequestStep
<1>2. UNCHANGED calls
  BY <1>1 DEF ApproveKeep, Reject, Cancel, ExpireStale, TripMark
<1>3. ASSUME NEW next, approvals' = [approvals EXCEPT ![a].status = next], approvals[a].status \in Holding
      PROVE  \A b \in Approvals : KeepsHold(b)
  <2>1. \A b \in Approvals : approvals'[b] = IF b = a THEN [approvals[a] EXCEPT !.status = next] ELSE approvals[b]
    BY <1>3 DEF SerialInv, ApprovalInv, TypeOK
  <2>. QED  BY <1>3, <1>t, <2>1 DEF KeepsHold, ApprovalRow
<1>4. CASE ApproveKeep(a)
  <2>1. PICK next \in Outcome(a, "approve") : Pass(a, next, approvals[a].vehicle)
    BY <1>4 DEF ApproveKeep
  <2>2. approvals[a].vehicle \in Vehicles
    BY <1>4, <1>t DEF ApproveKeep, ApprovalRow
  <2>3. approvals' = [approvals EXCEPT ![a] = Passed(a, next, approvals[a].vehicle)]
    BY <2>1, <2>2, PassMatches DEF SerialInv
  <2>4. \A b \in Approvals : approvals'[b] = IF b = a THEN Passed(a, next, approvals[a].vehicle) ELSE approvals[b]
    BY <2>3 DEF SerialInv, ApprovalInv, TypeOK
  <2>5. approvals[a].status \in Holding
    BY <1>t, <1>h, <2>1, Machine DEF Outcome, Pending
  <2>p. /\ Passed(a, next, approvals[a].vehicle).vehicle = approvals[a].vehicle
        /\ Passed(a, next, approvals[a].vehicle).window = approvals[a].window
    BY <1>t DEF Passed, ApprovalRow
  <2>6. \A b \in Approvals : KeepsHold(b)
    BY <2>4, <2>5, <2>p DEF KeepsHold
  <2>. QED  BY <1>2, <2>6, KeptApart
<1>5. ASSUME NEW event \in {"reject", "cancel", "trip_start", "trip_end", "trip_cancel"},
             NEW next \in Outcome(a, event), approvals' = [approvals EXCEPT ![a].status = next]
      PROVE  \A b \in Approvals : KeepsHold(b)
  <2>1. approvals[a].status \in Pending \cup {"approved"} \/ approvals[a].status = "in_use"
    BY <1>t, <1>5, Machine DEF Outcome
  <2>. QED  BY <1>h, <1>3, <1>5, <2>1
<1>6. CASE ExpireStale(a)
  BY <1>2, <1>3, <1>6, <1>h, KeptApart DEF ExpireStale
<1>7. CASE Reject(a) \/ Cancel(a) \/ \E event \in {"trip_start", "trip_end", "trip_cancel"} : TripMark(a, event)
  <2>1. \A b \in Approvals : KeepsHold(b)
    BY <1>5, <1>7 DEF Reject, Cancel, TripMark
  <2>. QED  BY <1>2, <2>1, KeptApart
<1>. QED  BY <1>1, <1>4, <1>6, <1>7

LEMMA SerialCall ==
    ASSUME SerialInv, OneHandler, NEW w \in Workers, CallStep(w)
    PROVE  NoDoubleHold' /\ \A x \in Workers : QueryHolds(calls[x])'
<1>t. /\ calls \in [Workers -> CallRow] /\ calls[w] \in CallRow /\ AssignFacts(calls[w]) /\ QueryHolds(calls[w])
      /\ approvals \in [Approvals -> ApprovalRow]
      /\ \A a \in Approvals : approvals[a].window \in AnyWindow
  BY DEF SerialInv, ApprovalInv, TypeOK, ApprovalRow
<1>o. \A c : calls' = [calls EXCEPT ![w] = c] => \A x \in Workers : calls'[x] = c
  BY <1>t DEF OneHandler
<1>r. calls' = [calls EXCEPT ![w] = AtRest] => \A x \in Workers : QueryHolds(calls[x])'
  <2>. SUFFICES ASSUME calls' = [calls EXCEPT ![w] = AtRest] PROVE \A x \in Workers : QueryHolds(calls[x])'
    OBVIOUS
  <2>1. \A x \in Workers : calls'[x] = AtRest
    BY <1>o
  <2>2. \A x \in Workers : calls'[x].stage = "rest"
    BY <2>1 DEF AtRest, Call
  <2>. QED  BY <2>2 DEF QueryHolds
<1>k. UNCHANGED approvals => NoDoubleHold'
  BY DEF SerialInv, NoDoubleHold
<1>1. ASSUME NEW window \in Windows, NEW v \in Vehicles \cup {NoVehicle}, NEW level \in 1..2,
             CreateRead(w, window, v, level)
      PROVE  NoDoubleHold' /\ \A x \in Workers : QueryHolds(calls[x])'
  <2>. DEFINE c == Call("insert", NoApproval, "approved", level, v, window)
  <2>1. c.stage = "insert" /\ c.vehicle = v /\ c.window = window
    BY DEF Call
  <2>2. calls' = [calls EXCEPT ![w] = c] /\ UNCHANGED approvals
    BY <1>1 DEF CreateRead
  <2>. HIDE DEF c
  <2>3. \A x \in Workers : calls'[x] = c
    BY <1>o, <2>2
  <2>4. v # NoVehicle => Conflicting(v, window, NoApproval)' = {}
    BY <1>1, <2>2 DEF CreateRead, Conflicting
  <2>5. \A x \in Workers : QueryHolds(calls[x])'
    BY <2>1, <2>3, <2>4 DEF QueryHolds
  <2>. QED  BY <1>k, <2>2, <2>5
<1>2. ASSUME NEW a \in Approvals, CreateInsert(w, a)
      PROVE  NoDoubleHold' /\ \A x \in Workers : QueryHolds(calls[x])'
  <2>. DEFINE r == [status |-> "pending_l1", level |-> calls[w].level, step |-> 1,
                    vehicle |-> calls[w].vehicle, window |-> calls[w].window]
  <2>1. /\ calls[w].stage = "insert" /\ approvals[a].status = "absent"
        /\ approvals' = [approvals EXCEPT ![a] = r] /\ calls' = [calls EXCEPT ![w] = AtRest]
    BY <1>2 DEF CreateInsert
  <2>2. /\ r.window \in AnyWindow
        /\ r.vehicle \in Vehicles => Conflicting(r.vehicle, r.window, NoApproval) = {}
    BY <1>t, <2>1, NoVehicleAssumption DEF QueryHolds, CallRow
  <2>3. approvals[a].status \notin Holding
    BY <2>1 DEF Holding, Pending
  <2>. HIDE DEF r
  <2>4. NoDoubleHold'
    BY <2>1, <2>2, <2>3, TakenApart
  <2>. QED  BY <1>r, <2>1, <2>4
<1>3. ASSUME NEW a \in Approvals, NEW v \in Vehicles, AssignRead(w, a, v)
      PROVE  NoDoubleHold' /\ \A x \in Workers : QueryHolds(calls[x])'
  <2>1. PICK next \in Outcome(a, "approve") :
            calls' = [calls EXCEPT ![w] = Call("assign", a, next, 1, v, NoWindow)]
    BY <1>3 DEF AssignRead
  <2>. DEFINE c == Call("assign", a, next, 1, v, NoWindow)
  <2>2. c.stage = "assign" /\ c.vehicle = v /\ c.approval = a
    BY DEF Call
  <2>3. UNCHANGED approvals /\ Conflicting(v, approvals[a].window, a) = {}
    BY <1>3 DEF AssignRead
  <2>. HIDE DEF c
  <2>4. \A x \in Workers : calls'[x] = c
    BY <1>o, <2>1 DEF c
  <2>5. Conflicting(v, approvals[a].window, a)' = {}
    BY <2>3 DEF Conflicting
  <2>6. \A x \in Workers : QueryHolds(calls[x])'
    BY <2>2, <2>4, <2>5 DEF QueryHolds
  <2>. QED  BY <1>k, <2>3, <2>6
<1>4. CASE AssignCommit(w)
  <2>. DEFINE a == calls[w].approval
              r == Passed(calls[w].approval, calls[w].next, calls[w].vehicle)
  <2>1. /\ calls[w].stage = "assign" /\ Pass(a, calls[w].next, calls[w].vehicle)
        /\ calls' = [calls EXCEPT ![w] = AtRest]
        /\ a \in Approvals /\ calls[w].vehicle \in Vehicles /\ calls[w].next \in Outcome(a, "approve")
    BY <1>4, <1>t DEF AssignCommit, AssignFacts
  <2>2. approvals' = [approvals EXCEPT ![a] = r]
    BY <2>1, PassMatches DEF SerialInv
  <2>3. r.window = approvals[a].window /\ r.vehicle = calls[w].vehicle
    BY <1>t, <2>1 DEF Passed, ApprovalRow
  <2>4. Conflicting(r.vehicle, r.window, a) = {} /\ r.window \in AnyWindow
    BY <1>t, <2>1, <2>3 DEF QueryHolds
  <2>. HIDE DEF a, r
  <2>5. NoDoubleHold'
    BY <2>1, <2>2, <2>4, TakenApart
  <2>. QED  BY <1>r, <2>1, <2>5
<1>5. CASE Rollback(w)
  BY <1>5, <1>k, <1>r DEF Rollback
<1>. QED  BY <1>1, <1>2, <1>3, <1>4, <1>5 DEF CallStep

\* As long as one handler at a time works on requests, no vehicle is promised
\* twice, whatever else (expiry, trips, decisions without a vehicle) happens
\* meanwhile: the pre-check of Create and the re-check of Approve suffice.
THEOREM OneHandlerHoldsOnce == ASSUME OneHandler PROVE Spec => []NoDoubleHold
<1>1. Init => SerialInv
  <2>. SUFFICES ASSUME Init PROVE SerialInv
    OBVIOUS
  <2>1. NoDoubleHold
    BY DEF Init, NoDoubleHold, Holding, Pending
  <2>2. \A w \in Workers : calls[w].stage = "rest"
    BY DEF Init, AtRest, Call
  <2>. QED  BY <2>1, <2>2, InvInit DEF SerialInv, QueryHolds
<1>2. SerialInv /\ [Next]_vars => SerialInv'
  <2>. SUFFICES ASSUME SerialInv, [Next]_vars PROVE SerialInv'
    OBVIOUS
  <2>1. ApprovalInv'
    BY InvStep DEF SerialInv
  <2>2. CASE UNCHANGED vars
    BY <2>1, <2>2 DEF vars, SerialInv, NoDoubleHold, QueryHolds, Conflicting
  <2>. QED  BY <2>1, <2>2, SerialRequest, SerialCall DEF SerialInv, Next
<1>3. SerialInv => NoDoubleHold
  BY DEF SerialInv
<1>. QED  BY <1>1, <1>2, <1>3, PTL DEF Spec
=============================================================================
