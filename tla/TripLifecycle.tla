---------------------------- MODULE TripLifecycle ----------------------------
(***************************************************************************)
(* Trips of approved requests: start (console or device), end (console or  *)
(* device), cancellation, and an operator switching a vehicle by hand,     *)
(* over the live status of VehicleStatus.                                  *)
(*                                                                         *)
(* Every request handler is a call of a worker.  It reads outside of any   *)
(* transaction, commits one transaction on trips and approvals, and only   *)
(* then writes the vehicle in a transaction of its own; the stage of a     *)
(* call names the step it does next, and other calls run in between.       *)
(*                                                                         *)
(* The approval workflow is reduced to the transactions that decide        *)
(* whether a trip may start; ApprovalFlow models it in full.  Web and      *)
(* device start differ in who may drive; both take an approved request     *)
(* whose vehicle was read as idle or charging.                             *)
(***************************************************************************)
EXTENDS VehicleStatus

CONSTANTS Approvals, Workers, NoVehicle, NoApproval,
          ManualTargets   \* the states an operator asks for

ASSUME NoVehicleAssumption == NoVehicle \notin Vehicles
ASSUME NoApprovalAssumption == NoApproval \notin Approvals
ASSUME ManualTargetsAssumption == ManualTargets \subseteq {"idle", "maintenance", "disabled"}

VARIABLES approvals,  \* status and assigned vehicle of each request
          trips,      \* rows of trips; "absent" rows are not inserted yet
          calls       \* the handler each worker is executing

tripVars == <<approvals, trips, calls>>
vars == <<live, archive, mirror, approvals, trips, calls>>

ApprovalStates == {"pending_l1", "approved", "rejected", "cancelled", "in_use", "completed", "expired"}

ApprovalRow == [status : ApprovalStates, vehicle : Vehicles \cup {NoVehicle}]

TripRow == [status   : {"absent", "ongoing", "completed", "cancelled"},
            approval : Approvals \cup {NoApproval},
            vehicle  : Vehicles \cup {NoVehicle}]

Stages == {"rest", "open", "mark", "close", "void", "release", "switch"}

CallRow == [stage    : Stages,
            approval : Approvals \cup {NoApproval},
            trip     : Trips \cup {NoTrip},
            vehicle  : Vehicles \cup {NoVehicle},
            target   : VehicleStates]

AtRest == [stage |-> "rest", approval |-> NoApproval, trip |-> NoTrip,
           vehicle |-> NoVehicle, target |-> "idle"]

TypeOK ==
    /\ VehicleTypeOK
    /\ approvals \in [Approvals -> ApprovalRow]
    /\ trips \in [Trips -> TripRow]
    /\ calls \in [Workers -> CallRow]

Init ==
    /\ VehicleInit
    /\ approvals = [a \in Approvals |-> [status |-> "pending_l1", vehicle |-> NoVehicle]]
    /\ trips = [t \in Trips |-> [status |-> "absent", approval |-> NoApproval, vehicle |-> NoVehicle]]
    /\ calls = [w \in Workers |-> AtRest]

Finish(w) == calls' = [calls EXCEPT ![w] = AtRest]

Ongoing(t) == trips[t].status = "ongoing"

HasOngoing(a) == \E t \in Trips : Ongoing(t) /\ trips[t].approval = a

----------------------------------------------------------------------------
(***************************************************************************)
(* The approval side.  Each is one transaction that holds the row's lock.  *)
(***************************************************************************)
MarkStatus(a, s) == approvals' = [approvals EXCEPT ![a].status = s]

\* Faulty variant: an approved request may be approved again.
FaultyApprovable == {"pending_l1", "approved"}

Approvable == {"pending_l1"}

\* The last approval step; the vehicle is assigned here or was before.
Approve(a, v) ==
    /\ approvals[a].status \in Approvable
    /\ approvals' = [approvals EXCEPT ![a] = [status |-> "approved", vehicle |-> v]]
    /\ UNCHANGED <<live, archive, mirror, trips, calls>>

Reject(a) ==
    /\ approvals[a].status = "pending_l1"
    /\ MarkStatus(a, "rejected")
    /\ UNCHANGED <<live, archive, mirror, trips, calls>>

CancelApproval(a) ==
    /\ approvals[a].status \in {"pending_l1", "approved"}
    /\ ~HasOngoing(a)
    /\ MarkStatus(a, "cancelled")
    /\ UNCHANGED <<live, archive, mirror, trips, calls>>

\* Faulty variant: expiry looks at the window only.
FaultyExpirable == {"pending_l1", "approved", "in_use"}

Expirable == {"pending_l1", "approved"}

\* The window ended more than two hours ago: time may have passed at any point.
ExpireStale(a) ==
    /\ approvals[a].status \in Expirable
    /\ MarkStatus(a, "expired")
    /\ UNCHANGED <<live, archive, mirror, trips, calls>>

----------------------------------------------------------------------------
(***************************************************************************)
(* Start.  StartRead is the handler up to store.open: the request must be  *)
(* approved and vehicles.status idle or charging, as read now.             *)
(***************************************************************************)
StartRead(w, a) ==
    /\ calls[w].stage = "rest"
    /\ approvals[a].status = "approved"
    /\ archive[approvals[a].vehicle] \in {"idle", "charging"}
    /\ calls' = [calls EXCEPT ![w] = [AtRest EXCEPT !.stage = "open", !.approval = a,
                                                    !.vehicle = approvals[a].vehicle]]
    /\ UNCHANGED <<live, archive, mirror, approvals, trips>>

\* Faulty variant: the status read before the transaction is trusted.
FaultyStillApproved(a) == TRUE

\* store.open locks the request and re-checks it ...
StillApproved(a) == approvals[a].status = "approved"

\* Faulty variant: the index is missing.
FaultyVehicleFree(v) == TRUE

\* ... and the partial unique index on (vehicle_id) of ongoing trips refuses
\* a second one.
VehicleFree(v) == \A t \in Trips : ~(Ongoing(t) /\ trips[t].vehicle = v)

StartOpen(w, t) ==
    LET a == calls[w].approval
        v == calls[w].vehicle IN
    /\ calls[w].stage = "open"
    /\ StillApproved(a)
    /\ VehicleFree(v)
    /\ trips[t].status = "absent"
    /\ trips' = [trips EXCEPT ![t] = [status |-> "ongoing", approval |-> a, vehicle |-> v]]
    /\ MarkStatus(a, "in_use")
    /\ calls' = [calls EXCEPT ![w] = [@ EXCEPT !.stage = "mark", !.trip = t]]
    /\ UNCHANGED <<live, archive, mirror>>

StartRefused(w) ==
    /\ calls[w].stage = "open"
    /\ ~StillApproved(calls[w].approval) \/ ~VehicleFree(calls[w].vehicle)
    /\ Finish(w)
    /\ UNCHANGED <<live, archive, mirror, approvals, trips>>

\* The vehicle is taken after the trip was committed.
StartMark(w) ==
    /\ calls[w].stage = "mark"
    /\ SetStatus(calls[w].vehicle, "in_use", calls[w].trip)
    /\ Finish(w)
    /\ UNCHANGED <<approvals, trips>>

----------------------------------------------------------------------------
(***************************************************************************)
(* End and cancellation.  Both read the trip, close it when the row is     *)
(* still ongoing (RowsAffected), and release the vehicle afterwards.       *)
(***************************************************************************)
CloseRead(w, t, stage) ==
    /\ calls[w].stage = "rest"
    /\ Ongoing(t)
    /\ calls' = [calls EXCEPT ![w] = [AtRest EXCEPT !.stage = stage, !.trip = t,
                                                    !.vehicle = trips[t].vehicle]]
    /\ UNCHANGED <<live, archive, mirror, approvals, trips>>

EndRead(w, t) == CloseRead(w, t, "close")

CancelRead(w, t) == CloseRead(w, t, "void")

\* Faulty variant: the update lacks AND status = 'ongoing'.
FaultyClosable(t) == trips[t].status # "absent"

Closable(t) == Ongoing(t)

CloseTrip(w, stage, tripStatus, approvalStatus) ==
    LET t == calls[w].trip IN
    /\ calls[w].stage = stage
    /\ Closable(t)
    /\ trips' = [trips EXCEPT ![t].status = tripStatus]
    /\ MarkStatus(trips[t].approval, approvalStatus)
    /\ calls' = [calls EXCEPT ![w].stage = "release"]
    /\ UNCHANGED <<live, archive, mirror>>

EndClose(w) == CloseTrip(w, "close", "completed", "completed")

CancelClose(w) == CloseTrip(w, "void", "cancelled", "approved")

CloseRefused(w) ==
    /\ calls[w].stage \in {"close", "void"}
    /\ ~Closable(calls[w].trip)
    /\ Finish(w)
    /\ UNCHANGED <<live, archive, mirror, approvals, trips>>

\* Faulty variant: the live row keeps the trip.
FaultyReleasedTrip(w) == calls[w].trip

ReleasedTrip(w) == NoTrip

Release(w) ==
    /\ calls[w].stage = "release"
    /\ SetStatus(calls[w].vehicle, "idle", ReleasedTrip(w))
    /\ Finish(w)
    /\ UNCHANGED <<approvals, trips>>

----------------------------------------------------------------------------
(***************************************************************************)
(* An operator sets idle, maintenance or disabled by hand.                 *)
(***************************************************************************)
CheckManualStatus(current, hasTrip) == current # "in_use" /\ ~hasTrip

ManualRead(w, v, target) ==
    /\ calls[w].stage = "rest"
    /\ CheckManualStatus(archive[v], live[v].trip # NoTrip)
    /\ target # archive[v]
    /\ calls' = [calls EXCEPT ![w] = [AtRest EXCEPT !.stage = "switch", !.vehicle = v, !.target = target]]
    /\ UNCHANGED <<live, archive, mirror, approvals, trips>>

ManualSwitch(w) ==
    /\ calls[w].stage = "switch"
    /\ SetStatus(calls[w].vehicle, calls[w].target, NoTrip)
    /\ Finish(w)
    /\ UNCHANGED <<approvals, trips>>

\* The process dies, the client goes away or the database fails before the
\* call's next commit: what it committed stays, the rest never happens.
Abandon(w) ==
    /\ MayFail
    /\ calls[w].stage # "rest"
    /\ Finish(w)
    /\ UNCHANGED <<live, archive, mirror, approvals, trips>>

Telemetry(v) ==
    /\ TelemetryStep(v)
    /\ UNCHANGED tripVars

----------------------------------------------------------------------------
ApprovalStep ==
    \E a \in Approvals :
        \/ \E v \in Vehicles : Approve(a, v)
        \/ Reject(a)
        \/ CancelApproval(a)
        \/ ExpireStale(a)

\* What a worker does once it has begun a call.
Proceed(w) ==
    \/ \E t \in Trips : StartOpen(w, t)
    \/ StartRefused(w)
    \/ StartMark(w)
    \/ EndClose(w)
    \/ CancelClose(w)
    \/ CloseRefused(w)
    \/ Release(w)
    \/ ManualSwitch(w)

Begin(w) ==
    \/ \E a \in Approvals : StartRead(w, a)
    \/ \E t \in Trips : EndRead(w, t) \/ CancelRead(w, t)
    \/ \E v \in Vehicles, target \in ManualTargets : ManualRead(w, v, target)

Next ==
    \/ ApprovalStep
    \/ \E w \in Workers : Begin(w) \/ Proceed(w) \/ Abandon(w)
    \/ \E v \in Reporting : Telemetry(v)

Spec == Init /\ [][Next]_vars

\* A call that has begun is carried on: the server runs its handlers, and
\* nothing but a failure stops one half-way.
FairSpec == Spec /\ \A w \in Workers : WF_vars(Proceed(w))

----------------------------------------------------------------------------
(***************************************************************************)
(* Safety                                                                  *)
(***************************************************************************)
\* A request is in use exactly while a trip of it is under way, and never
\* two: MarkStatus writes the request without looking at its status, so this
\* is what makes its unconditional updates right (trip/store.go open, close,
\* cancel; approval/store.go MarkStatus).
InUseIffOngoing ==
    /\ \A a \in Approvals : approvals[a].status = "in_use" <=> HasOngoing(a)
    /\ \A t, u \in Trips :
           Ongoing(t) /\ Ongoing(u) /\ trips[t].approval = trips[u].approval => t = u

\* No vehicle is driven on two trips at once (uq_trips_ongoing_vehicle).
OneOngoingPerVehicle ==
    \A t, u \in Trips : Ongoing(t) /\ Ongoing(u) /\ trips[t].vehicle = trips[u].vehicle => t = u

\* A request pays for one completed trip at most, and stays completed: a
\* cancelled trip gives the request back, a completed one uses it up.
CompletedOnce ==
    \A t \in Trips : trips[t].status = "completed" =>
        /\ approvals[trips[t].approval].status = "completed"
        /\ \A u \in Trips :
               trips[u].status \in {"ongoing", "completed"} /\ trips[u].approval = trips[t].approval => u = t

\* The vehicle of a trip is the one the request was approved for, although
\* Start reads it before the request is locked.
TripUsesApprovedVehicle ==
    \A t \in Trips : trips[t].status # "absent" =>
        approvals[trips[t].approval].vehicle = trips[t].vehicle

\* With no call half-way, a vehicle is in use exactly while a trip of it is
\* under way, and its live row names that trip (trip/service.go open, End,
\* Cancel: "releases the vehicle and completes the approval").
InSync(v) ==
    /\ live[v].status = "in_use" <=> ~VehicleFree(v)
    /\ \A t \in Trips : Ongoing(t) /\ trips[t].vehicle = v => live[v].trip = t
    /\ live[v].trip # NoTrip => Ongoing(live[v].trip)

Quiet == \A w \in Workers : calls[w].stage = "rest"

VehiclesInSyncWhenQuiet == Quiet => \A v \in Vehicles : InSync(v)

----------------------------------------------------------------------------
(***************************************************************************)
(* Action and liveness properties                                          *)
(***************************************************************************)
Final == {"rejected", "cancelled", "completed", "expired"}

\* Nothing revives a finished request or a closed trip, whatever order the
\* calls of different workers commit in.
FinalIsFinal ==
    [][/\ \A a \in Approvals : approvals[a].status \in Final => approvals'[a] = approvals[a]
       /\ \A t \in Trips : trips[t].status \in {"completed", "cancelled"} => trips'[t] = trips[t]]_vars

\* Whatever order the calls commit in, a request moves only along the status
\* machine of the approval module, though no trip handler consults it.
Contract == INSTANCE ApprovalContract WITH
                Requests <- Approvals,
                status   <- [a \in Approvals |-> approvals[a].status]

FollowsContract == Contract!Spec

\* The vehicle is given back once its trip is over: End and Cancel release
\* it, and nothing else keeps the live row pointing at a closed trip.
ClosedTripLeavesVehicle ==
    \A t \in Trips, v \in Vehicles :
        (trips[t].status \in {"completed", "cancelled"} /\ trips[t].vehicle = v)
            ~> (live[v].trip # t)
=============================================================================
