----------------------------- MODULE ApprovalFlow -----------------------------
(***************************************************************************)
(* The approval workflow: requests for a vehicle and a time window, their  *)
(* one or two approval steps, and the check that no two requests hold one  *)
(* vehicle at the same time.                                               *)
(*                                                                         *)
(* Create checks outside of any transaction and inserts in one.  Approve   *)
(* holds the row lock of its own request from the first read to the        *)
(* commit, but its conflict query reads the rows of OTHER requests without *)
(* locking them.  Everything else is one transaction on one request.       *)
(*                                                                         *)
(* Who may act, and whether the vehicle is in maintenance, change freely   *)
(* outside of this module: either may refuse a call at any time.           *)
(***************************************************************************)
EXTENDS ApprovalRules

CONSTANTS Approvals, Vehicles, NoVehicle, NoApproval, Workers,
          Windows       \* the windows people ask for

ASSUME NoVehicleAssumption == NoVehicle \notin Vehicles
ASSUME NoApprovalAssumption == NoApproval \notin Approvals
ASSUME WindowsAssumption == Windows \subseteq {w \in [start : Nat, end : Nat] : w.start < w.end}

VARIABLES approvals,  \* rows of approvals; "absent" rows are not inserted yet
          steps,      \* approval_steps: the action of step 1 and 2
          calls       \* the handler each worker is executing

vars == <<approvals, steps, calls>>

NoWindow == [start |-> 0, end |-> 0]

AnyWindow == Windows \cup {NoWindow}

StepActions == {"none", "pending", "approved", "rejected", "skipped"}

ApprovalRow == [status  : RequestStates \cup {"absent"}, level : 1..2, step : 1..2,
                vehicle : Vehicles \cup {NoVehicle}, window : AnyWindow]

\* "insert": the precheck passed; "assign": the conflict query passed and the
\* call holds the lock of its request.  next is the status it will write.
CallRow == [stage    : {"rest", "insert", "assign"},
            approval : Approvals \cup {NoApproval},
            next     : {"approved", "pending_l2"},
            level    : 1..2,
            vehicle  : Vehicles \cup {NoVehicle},
            window   : AnyWindow]

Call(stage, a, next, level, v, window) ==
    [stage |-> stage, approval |-> a, next |-> next, level |-> level, vehicle |-> v, window |-> window]

AtRest == Call("rest", NoApproval, "approved", 1, NoVehicle, NoWindow)

TypeOK ==
    /\ approvals \in [Approvals -> ApprovalRow]
    /\ steps \in [Approvals -> [1..2 -> StepActions]]
    /\ calls \in [Workers -> CallRow]

Init ==
    /\ approvals = [a \in Approvals |-> [status |-> "absent", level |-> 1, step |-> 1, vehicle |-> NoVehicle,
                                         window |-> NoWindow]]
    /\ steps = [a \in Approvals |-> [i \in 1..2 |-> "none"]]
    /\ calls = [w \in Workers |-> AtRest]

\* Faulty variant: the request is read without FOR UPDATE.
FaultyLocked(a) == FALSE

Locked(a) == \E w \in Workers : calls[w].stage = "assign" /\ calls[w].approval = a

\* The conflict query for a vehicle and a window, leaving out the request itself.
Conflicting(v, window, self) ==
    {a \in Approvals \ {self} : /\ approvals[a].status \in Holding
                                /\ approvals[a].vehicle = v
                                /\ TooClose(approvals[a].window, window)}

Outcome(a, event) == NextStatus(approvals[a].status, event, approvals[a].level, approvals[a].step)

\* Faulty variant: pending steps are left as they are.
FaultySkipped(actions) == actions

Skipped(actions) == [i \in 1..2 |-> IF actions[i] = "pending" THEN "skipped" ELSE actions[i]]

----------------------------------------------------------------------------
\* Create, up to the insert: the precheck found nothing wrong.
CreateRead(w, window, v, level) ==
    /\ calls[w].stage = "rest"
    /\ v # NoVehicle => Conflicting(v, window, NoApproval) = {}
    /\ calls' = [calls EXCEPT ![w] = Call("insert", NoApproval, "approved", level, v, window)]
    /\ UNCHANGED <<approvals, steps>>

\* The insert does not check again.
CreateInsert(w, a) ==
    LET c == calls[w] IN
    /\ c.stage = "insert"
    /\ approvals[a].status = "absent"
    /\ approvals' = [approvals EXCEPT ![a] = [status |-> "pending_l1", level |-> c.level, step |-> 1,
                                              vehicle |-> c.vehicle, window |-> c.window]]
    /\ steps' = [steps EXCEPT ![a] = [i \in 1..2 |-> IF i <= c.level THEN "pending" ELSE "none"]]
    /\ calls' = [calls EXCEPT ![w] = AtRest]

\* Faulty variant: the step is always advanced.
FaultyNextStep(next, step) == step + 1

NextStep(next, step) == IF next = "pending_l2" THEN step + 1 ELSE step

\* What Approve writes: the current step, the next status and step, the vehicle.
Pass(a, next, v) ==
    /\ steps' = [steps EXCEPT ![a][approvals[a].step] = "approved"]
    /\ approvals' = [approvals EXCEPT ![a].status = next, ![a].step = NextStep(next, @), ![a].vehicle = v]

\* Approve without a change of vehicle asks no question about other requests.
ApproveKeep(a) ==
    /\ ~Locked(a)
    /\ approvals[a].vehicle # NoVehicle
    /\ \E next \in Outcome(a, "approve") : Pass(a, next, approvals[a].vehicle)
    /\ UNCHANGED calls

\* Approve that assigns or changes the vehicle: lock and conflict query ...
AssignRead(w, a, v) ==
    /\ calls[w].stage = "rest"
    /\ ~Locked(a)
    /\ v # approvals[a].vehicle
    /\ Conflicting(v, approvals[a].window, a) = {}
    /\ \E next \in Outcome(a, "approve") :
           calls' = [calls EXCEPT ![w] = Call("assign", a, next, 1, v, NoWindow)]
    /\ UNCHANGED <<approvals, steps>>

\* ... and the writes.
AssignCommit(w) ==
    /\ calls[w].stage = "assign"
    /\ Pass(calls[w].approval, calls[w].next, calls[w].vehicle)
    /\ calls' = [calls EXCEPT ![w] = AtRest]

\* A failed or abandoned call rolls back and lets the lock go.
Rollback(w) ==
    /\ calls[w].stage # "rest"
    /\ calls' = [calls EXCEPT ![w] = AtRest]
    /\ UNCHANGED <<approvals, steps>>

Reject(a) ==
    /\ ~Locked(a)
    /\ \E next \in Outcome(a, "reject") : approvals' = [approvals EXCEPT ![a].status = next]
    /\ steps' = [steps EXCEPT ![a] = Skipped([@ EXCEPT ![approvals[a].step] = "rejected"])]
    /\ UNCHANGED calls

\* Cancel also looks for an ongoing trip; a request that has one is in use.
Cancel(a) ==
    /\ ~Locked(a)
    /\ \E next \in Outcome(a, "cancel") : approvals' = [approvals EXCEPT ![a].status = next]
    /\ steps' = [steps EXCEPT ![a] = Skipped(@)]
    /\ UNCHANGED calls

\* The window may have ended at any time; the statement waits for the lock.
ExpireStale(a) ==
    /\ ~Locked(a)
    /\ approvals[a].status \in Pending \cup {"approved"}
    /\ approvals' = [approvals EXCEPT ![a].status = "expired"]
    /\ steps' = [steps EXCEPT ![a] = Skipped(@)]
    /\ UNCHANGED calls

\* The trip module marks the request; TripLifecycle models when it does.
TripMark(a, event) ==
    /\ ~Locked(a)
    /\ \E next \in Outcome(a, event) : approvals' = [approvals EXCEPT ![a].status = next]
    /\ UNCHANGED <<steps, calls>>

RequestStep ==
    \E a \in Approvals :
        \/ ApproveKeep(a)
        \/ Reject(a)
        \/ Cancel(a)
        \/ ExpireStale(a)
        \/ \E event \in {"trip_start", "trip_end", "trip_cancel"} : TripMark(a, event)

CallStep(w) ==
    \/ \E window \in Windows, v \in Vehicles \cup {NoVehicle}, level \in 1..2 : CreateRead(w, window, v, level)
    \/ \E a \in Approvals : CreateInsert(w, a)
    \/ \E a \in Approvals, v \in Vehicles : AssignRead(w, a, v)
    \/ AssignCommit(w)
    \/ Rollback(w)

Next == RequestStep \/ \E w \in Workers : CallStep(w)

Spec == Init /\ [][Next]_vars

----------------------------------------------------------------------------
\* The steps tell the story of the status: level 2 is asked only after level
\* 1 agreed, an approved request has every step approved and a vehicle, and a
\* request that ended any other way leaves no pending step in the to-do list
\* of an approver (approval/store.go todoCount counts pending steps).
StepsMatchStatus ==
    \A a \in Approvals :
        LET r == approvals[a]
            Asked == 1..r.level IN
        /\ r.status = "pending_l1" => r.step = 1 /\ \A i \in Asked : steps[a][i] = "pending"
        /\ r.status = "pending_l2" => r.level = 2 /\ r.step = 2 /\ steps[a][1] = "approved" /\ steps[a][2] = "pending"
        /\ r.status \in {"approved", "in_use", "completed"} =>
               r.vehicle \in Vehicles /\ \A i \in Asked : steps[a][i] = "approved"
        /\ r.status = "rejected" => steps[a][r.step] = "rejected"
        /\ r.status \in {"rejected", "cancelled", "expired"} => \A i \in 1..2 : steps[a][i] # "pending"

\* No vehicle is promised to two requests whose windows are too close
\* (openapi.yaml: Create checks that the vehicle is free, Approve checks again).
NoDoubleHold ==
    \A a, b \in Approvals :
        (/\ a # b
         /\ approvals[a].status \in Holding /\ approvals[b].status \in Holding
         /\ approvals[a].vehicle \in Vehicles /\ approvals[a].vehicle = approvals[b].vehicle)
        => Apart(approvals[a].window, approvals[b].window)

\* Once a request is approved, neither its vehicle nor its window changes:
\* the driver who was told which car to take finds it is still that one.
ApprovedVehicleIsFixed ==
    [][\A a \in Approvals : approvals[a].status \in {"approved", "in_use", "completed"} =>
           approvals'[a].vehicle = approvals[a].vehicle /\ approvals'[a].window = approvals[a].window]_vars

\* The workflow, with its locks and its own SQL, moves a request only along
\* the status machine.
Contract == INSTANCE ApprovalContract WITH
                Requests <- Approvals,
                status   <- [a \in Approvals |-> approvals[a].status]

FollowsContract == Contract!Spec
=============================================================================
