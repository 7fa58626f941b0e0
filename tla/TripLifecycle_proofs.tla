------------------------- MODULE TripLifecycle_proofs -------------------------
(***************************************************************************)
(* Proofs about TripLifecycle, for any number of vehicles, requests, trips *)
(* and concurrent calls, with and without failures.                        *)
(*                                                                         *)
(* Nothing here depends on the order in which a call writes the vehicle:   *)
(* the trips and the requests are kept right by the two transactions of    *)
(* store.open and store.close alone, whatever the vehicle tables say.      *)
(***************************************************************************)
EXTENDS TripLifecycle, Integers, TLAPS

-----------------------------------------------------------------------------
(***************************************************************************)
(* Type correctness is inductive by itself.                                *)
(***************************************************************************)
\* What the approval actions keep: they write one row of approvals.
LEMMA ApprovalTypes ==
    ASSUME TypeOK, ApprovalStep
    PROVE  TypeOK'
<1>1. ASSUME NEW a \in Approvals, NEW v \in Vehicles, Approve(a, v) PROVE TypeOK'
  BY <1>1 DEF TypeOK, VehicleTypeOK, Approve, ApprovalRow, ApprovalStates
<1>2. ASSUME NEW a \in Approvals, Reject(a) PROVE TypeOK'
  BY <1>2 DEF TypeOK, VehicleTypeOK, Reject, MarkStatus, ApprovalRow, ApprovalStates
<1>3. ASSUME NEW a \in Approvals, CancelApproval(a) PROVE TypeOK'
  BY <1>3 DEF TypeOK, VehicleTypeOK, CancelApproval, MarkStatus, ApprovalRow, ApprovalStates
<1>4. ASSUME NEW a \in Approvals, ExpireStale(a) PROVE TypeOK'
  BY <1>4 DEF TypeOK, VehicleTypeOK, ExpireStale, MarkStatus, ApprovalRow, ApprovalStates
<1>. QED  BY <1>1, <1>2, <1>3, <1>4 DEF ApprovalStep

\* The states of a call that no step of it can leave.
LEMMA RestIsCall == AtRest \in CallRow
  BY DEF AtRest, CallRow, Stages, VehicleStates

\* Reads only write the worker's own record.
LEMMA BeginTypes ==
    ASSUME TypeOK, NEW w \in Workers, Begin(w)
    PROVE  TypeOK'
<1>1. ASSUME NEW a \in Approvals, StartRead(w, a) PROVE TypeOK'
  <2>1. approvals[a].vehicle \in Vehicles \cup {NoVehicle}
    BY DEF TypeOK, ApprovalRow
  <2>2. [AtRest EXCEPT !.stage = "open", !.approval = a, !.vehicle = approvals[a].vehicle] \in CallRow
    BY <2>1 DEF AtRest, CallRow, Stages, VehicleStates
  <2>. QED  BY <1>1, <2>2 DEF TypeOK, VehicleTypeOK, StartRead
<1>2. ASSUME NEW t \in Trips, NEW stage \in {"close", "void"}, CloseRead(w, t, stage) PROVE TypeOK'
  <2>1. trips[t].vehicle \in Vehicles \cup {NoVehicle}
    BY DEF TypeOK, TripRow
  <2>2. [AtRest EXCEPT !.stage = stage, !.trip = t, !.vehicle = trips[t].vehicle] \in CallRow
    BY <2>1 DEF AtRest, CallRow, Stages, VehicleStates
  <2>. QED  BY <1>2, <2>2 DEF TypeOK, VehicleTypeOK, CloseRead
<1>3. ASSUME NEW v \in Vehicles, NEW target \in ManualTargets, ManualRead(w, v, target) PROVE TypeOK'
  <2>1. [AtRest EXCEPT !.stage = "switch", !.vehicle = v, !.target = target] \in CallRow
    BY ManualTargetsAssumption DEF AtRest, CallRow, Stages, VehicleStates
  <2>. QED  BY <1>3, <2>1 DEF TypeOK, VehicleTypeOK, ManualRead
<1>. QED  BY <1>1, <1>2, <1>3 DEF Begin, EndRead, CancelRead

\* SetStatus writes one row of each vehicle table.
LEMMA SetStatusTypes ==
    ASSUME VehicleTypeOK, NEW v, NEW s \in VehicleStates, NEW t \in Trips \cup {NoTrip}, SetStatus(v, s, t)
    PROVE  VehicleTypeOK'
  BY DEF VehicleTypeOK, SetStatus, LiveRow

LEMMA ProceedTypes ==
    ASSUME TypeOK, NEW w \in Workers, Proceed(w)
    PROVE  TypeOK'
<1>. USE RestIsCall
<1>c. calls[w] \in CallRow
  BY DEF TypeOK
<1>f. ASSUME Finish(w) PROVE calls' \in [Workers -> CallRow]
  BY <1>f DEF Finish, TypeOK
<1>1. ASSUME NEW t \in Trips, StartOpen(w, t) PROVE TypeOK'
  <2>1. trips' \in [Trips -> TripRow]
    BY <1>1, <1>c DEF StartOpen, TypeOK, TripRow, CallRow
  <2>2. approvals' \in [Approvals -> ApprovalRow]
    BY <1>1 DEF StartOpen, MarkStatus, TypeOK, ApprovalRow, ApprovalStates
  <2>3. calls' \in [Workers -> CallRow]
    BY <1>1, <1>c DEF StartOpen, TypeOK, CallRow, Stages
  <2>. QED  BY <1>1, <2>1, <2>2, <2>3 DEF StartOpen, TypeOK, VehicleTypeOK
<1>2. CASE StartRefused(w)
  BY <1>2, <1>f DEF StartRefused, TypeOK, VehicleTypeOK
<1>3. CASE StartMark(w)
  <2>1. VehicleTypeOK'
    BY <1>3, <1>c, SetStatusTypes DEF StartMark, TypeOK, CallRow, VehicleStates
  <2>. QED  BY <1>3, <1>f, <2>1 DEF StartMark, TypeOK
<1>4. ASSUME NEW stage, NEW s \in {"completed", "cancelled"}, NEW r \in {"completed", "approved"},
             CloseTrip(w, stage, s, r)
      PROVE  TypeOK'
  <2>1. trips' \in [Trips -> TripRow]
    BY <1>4 DEF CloseTrip, TypeOK, TripRow
  <2>2. approvals' \in [Approvals -> ApprovalRow]
    BY <1>4 DEF CloseTrip, MarkStatus, TypeOK, ApprovalRow, ApprovalStates
  <2>3. calls' \in [Workers -> CallRow]
    BY <1>4, <1>c DEF CloseTrip, TypeOK, CallRow, Stages
  <2>. QED  BY <1>4, <2>1, <2>2, <2>3 DEF CloseTrip, TypeOK, VehicleTypeOK
<1>5. CASE CloseRefused(w)
  BY <1>5, <1>f DEF CloseRefused, TypeOK, VehicleTypeOK
<1>6. CASE Release(w)
  <2>1. VehicleTypeOK'
    BY <1>6, SetStatusTypes DEF Release, ReleasedTrip, TypeOK, VehicleStates
  <2>. QED  BY <1>6, <1>f, <2>1 DEF Release, TypeOK
<1>7. CASE ManualSwitch(w)
  <2>1. VehicleTypeOK'
    BY <1>7, <1>c, SetStatusTypes DEF ManualSwitch, TypeOK, CallRow
  <2>. QED  BY <1>7, <1>f, <2>1 DEF ManualSwitch, TypeOK
<1>. QED  BY <1>1, <1>2, <1>3, <1>4, <1>5, <1>6, <1>7 DEF Proceed, EndClose, CancelClose

LEMMA TelemetryTypes ==
    ASSUME TypeOK, NEW v \in Reporting, Telemetry(v)
    PROVE  TypeOK'
<1>. v \in Vehicles
  BY ReportingAssumption
<1>. /\ live[v] \in LiveRow /\ mirror[v] \in MirrorRow
     /\ MirrorAtRest \in MirrorRow
  BY DEF TypeOK, VehicleTypeOK, MirrorAtRest, MirrorRow, VehicleStates
<1>1. ASSUME NEW flag \in BOOLEAN, TelemetryUpdate(v, flag) PROVE VehicleTypeOK'
  <2>1. TelemetryState(live[v].status, flag) \in VehicleStates
    BY DEF TelemetryState, LiveRow, VehicleStates
  <2>. QED  BY <1>1, <2>1 DEF TelemetryUpdate, TypeOK, VehicleTypeOK, LiveRow, MirrorRow
<1>2. ASSUME TelemetrySnapshot(v) PROVE VehicleTypeOK'
  BY <1>2 DEF TelemetrySnapshot, TypeOK, VehicleTypeOK, LiveRow, MirrorRow
<1>3. ASSUME TelemetryCopy(v) PROVE VehicleTypeOK'
  BY <1>3 DEF TelemetryCopy, TypeOK, VehicleTypeOK, MirrorRow
<1>4. ASSUME TelemetryCopyLost(v) PROVE VehicleTypeOK'
  BY <1>4 DEF TelemetryCopyLost, TypeOK, VehicleTypeOK
<1>5. VehicleTypeOK'
  BY <1>1, <1>2, <1>3, <1>4 DEF Telemetry, TelemetryStep
<1>. QED  BY <1>5 DEF Telemetry, tripVars, TypeOK

LEMMA TypeStep == TypeOK /\ [Next]_vars => TypeOK'
<1>. SUFFICES ASSUME TypeOK, [Next]_vars PROVE TypeOK'
  OBVIOUS
<1>1. CASE ApprovalStep
  BY <1>1, ApprovalTypes
<1>2. ASSUME NEW w \in Workers, Begin(w) PROVE TypeOK'
  BY <1>2, BeginTypes
<1>3. ASSUME NEW w \in Workers, Proceed(w) PROVE TypeOK'
  BY <1>3, ProceedTypes
<1>4. ASSUME NEW w \in Workers, Abandon(w) PROVE TypeOK'
  BY <1>4, RestIsCall DEF Abandon, Finish, TypeOK, VehicleTypeOK
<1>5. ASSUME NEW v \in Reporting, Telemetry(v) PROVE TypeOK'
  BY <1>5, TelemetryTypes
<1>6. CASE UNCHANGED vars
  BY <1>6 DEF vars, TypeOK, VehicleTypeOK
<1>. QED  BY <1>1, <1>2, <1>3, <1>4, <1>5, <1>6 DEF Next

LEMMA TypeInit == Init => TypeOK
  BY RestIsCall DEF Init, VehicleInit, TypeOK, VehicleTypeOK, LiveRow, MirrorRow, MirrorAtRest,
     VehicleStates, ApprovalRow, ApprovalStates, TripRow

\* Every reachable state is well typed: rows hold only the states the enums of
\* the schema allow, and a call only names rows of the tables.
THEOREM TypeCorrect == Spec => []TypeOK
  BY TypeInit, TypeStep, PTL DEF Spec

-----------------------------------------------------------------------------
(***************************************************************************)
(* The inductive invariant.  A call acts on what it read earlier, so it    *)
(* must say which of those facts still hold when the call commits: a       *)
(* request that was once approved keeps its vehicle whatever becomes of    *)
(* it, and a trip keeps its vehicle.  That is why a start that read the    *)
(* vehicle before it locked the request still takes the right one.         *)
(***************************************************************************)
RowsNameVehicles ==
    /\ \A a \in Approvals : approvals[a].status \in {"approved", "in_use", "completed"} =>
           approvals[a].vehicle \in Vehicles
    /\ \A t \in Trips : trips[t].status # "absent" =>
           /\ trips[t].approval \in Approvals /\ trips[t].vehicle \in Vehicles
           /\ approvals[trips[t].approval].status # "pending_l1"

CallFacts(w) ==
    /\ calls[w].stage = "open" =>
           /\ calls[w].approval \in Approvals
           /\ approvals[calls[w].approval].status # "pending_l1"
           /\ approvals[calls[w].approval].vehicle = calls[w].vehicle
           /\ calls[w].vehicle \in Vehicles
    /\ calls[w].stage \in {"mark", "close", "void", "release"} =>
           /\ calls[w].trip \in Trips
           /\ trips[calls[w].trip].status # "absent"
           /\ trips[calls[w].trip].vehicle = calls[w].vehicle

RequestsInv ==
    /\ InUseIffOngoing
    /\ CompletedOnce
    /\ TripUsesApprovedVehicle
    /\ OneOngoingPerVehicle
    /\ RowsNameVehicles

TripInv ==
    /\ TypeOK
    /\ RequestsInv
    /\ \A w \in Workers : CallFacts(w)

LEMMA InvInit == Init => TripInv
<1>. SUFFICES ASSUME Init PROVE TripInv
  OBVIOUS
<1>1. \A t \in Trips : trips[t].status = "absent"
  BY DEF Init
<1>2. \A a \in Approvals : approvals[a].status = "pending_l1"
  BY DEF Init
<1>3. \A w \in Workers : calls[w].stage = "rest"
  BY DEF Init, AtRest
<1>4. RequestsInv
  BY <1>1, <1>2 DEF RequestsInv, InUseIffOngoing, CompletedOnce, TripUsesApprovedVehicle,
     OneOngoingPerVehicle, RowsNameVehicles, HasOngoing, Ongoing
<1>5. \A w \in Workers : CallFacts(w)
  BY <1>3 DEF CallFacts
<1>. QED  BY <1>4, <1>5, TypeInit DEF TripInv

-----------------------------------------------------------------------------
\* A step that leaves both tables alone may only change calls.
LEMMA TablesFrame ==
    ASSUME RequestsInv, UNCHANGED <<approvals, trips>>
    PROVE  RequestsInv'
  BY DEF RequestsInv, InUseIffOngoing, CompletedOnce, TripUsesApprovedVehicle,
     OneOngoingPerVehicle, RowsNameVehicles, HasOngoing, Ongoing

\* The four approval actions move an open request without a trip under way.
LEMMA RequestMoves ==
    ASSUME TripInv, NEW a \in Approvals, UNCHANGED <<trips, calls>>,
           approvals' \in [Approvals -> ApprovalRow],
           \A b \in Approvals \ {a} : approvals'[b] = approvals[b],
           approvals[a].status \in {"pending_l1", "approved"},
           approvals'[a].status \in {"approved", "rejected", "cancelled", "expired"},
           \/ approvals'[a].vehicle = approvals[a].vehicle
           \/ approvals[a].status = "pending_l1",
           approvals'[a].status = "approved" => approvals'[a].vehicle \in Vehicles
    PROVE  RequestsInv' /\ \A w \in Workers : CallFacts(w)'
<1>. USE DEF TripInv, RequestsInv
<1>1. ~HasOngoing(a)
  BY DEF InUseIffOngoing
<1>2. \A t \in Trips : trips[t].status # "absent" =>
          /\ trips[t].approval \in Approvals
          /\ approvals'[trips[t].approval].vehicle = approvals[trips[t].approval].vehicle
  BY DEF RowsNameVehicles
<1>3. \A t \in Trips : trips[t].status \in {"ongoing", "completed"} => trips[t].approval # a
  BY <1>1 DEF CompletedOnce, HasOngoing, Ongoing
<1>4. InUseIffOngoing'
  BY <1>1, <1>3 DEF InUseIffOngoing, HasOngoing, Ongoing
<1>5. CompletedOnce'
  BY <1>2, <1>3 DEF CompletedOnce
<1>6. TripUsesApprovedVehicle'
  BY <1>2 DEF TripUsesApprovedVehicle
<1>7. OneOngoingPerVehicle'
  BY DEF OneOngoingPerVehicle, Ongoing
<1>8. RowsNameVehicles'
  BY DEF RowsNameVehicles
<1>9. ASSUME NEW w \in Workers PROVE CallFacts(w)'
  BY DEF CallFacts
<1>. QED  BY <1>4, <1>5, <1>6, <1>7, <1>8, <1>9

LEMMA ApprovalInv ==
    ASSUME TripInv, ApprovalStep
    PROVE  RequestsInv' /\ \A w \in Workers : CallFacts(w)'
<1>t. approvals \in [Approvals -> ApprovalRow]
  BY DEF TripInv, TypeOK
<1>u. approvals' \in [Approvals -> ApprovalRow]
  BY ApprovalTypes DEF TripInv, TypeOK
<1>v. \A a \in Approvals : approvals[a].status = "approved" => approvals[a].vehicle \in Vehicles
  BY DEF TripInv, RequestsInv, RowsNameVehicles
<1>1. ASSUME NEW a \in Approvals, NEW v \in Vehicles, Approve(a, v)
      PROVE  RequestsInv' /\ \A w \in Workers : CallFacts(w)'
  BY <1>1, <1>t, <1>u, RequestMoves DEF Approve, Approvable
<1>2. ASSUME NEW a \in Approvals, Reject(a)
      PROVE  RequestsInv' /\ \A w \in Workers : CallFacts(w)'
  BY <1>2, <1>t, <1>u, RequestMoves DEF Reject, MarkStatus, ApprovalRow
<1>3. ASSUME NEW a \in Approvals, CancelApproval(a)
      PROVE  RequestsInv' /\ \A w \in Workers : CallFacts(w)'
  BY <1>3, <1>t, <1>u, RequestMoves DEF CancelApproval, MarkStatus, ApprovalRow
<1>4. ASSUME NEW a \in Approvals, ExpireStale(a)
      PROVE  RequestsInv' /\ \A w \in Workers : CallFacts(w)'
  BY <1>4, <1>t, <1>u, RequestMoves DEF ExpireStale, Expirable, MarkStatus, ApprovalRow
<1>. QED  BY <1>1, <1>2, <1>3, <1>4 DEF ApprovalStep

\* store.open: the re-check of the request under its lock and the unique
\* index are what the four invariants rest on.
LEMMA OpenInv ==
    ASSUME TripInv, NEW w \in Workers, NEW t \in Trips, StartOpen(w, t)
    PROVE  RequestsInv' /\ \A x \in Workers : CallFacts(x)'
<1>. DEFINE a == calls[w].approval
            v == calls[w].vehicle
<1>. USE DEF TripInv, RequestsInv
<1>t. /\ approvals \in [Approvals -> ApprovalRow] /\ trips \in [Trips -> TripRow]
      /\ calls \in [Workers -> CallRow]
  BY DEF TypeOK
<1>c. /\ a \in Approvals /\ v \in Vehicles /\ approvals[a].vehicle = v
      /\ approvals[a].status = "approved"
  BY DEF StartOpen, StillApproved, CallFacts
<1>1. /\ trips[t].status = "absent"
      /\ trips'[t].status = "ongoing" /\ trips'[t].approval = a /\ trips'[t].vehicle = v
      /\ \A u \in Trips \ {t} : trips'[u] = trips[u]
  BY <1>t DEF StartOpen
<1>2. /\ approvals'[a].status = "in_use" /\ approvals'[a].vehicle = v
      /\ \A b \in Approvals \ {a} : approvals'[b] = approvals[b]
  BY <1>t, <1>c DEF StartOpen, MarkStatus, ApprovalRow
<1>3. /\ calls'[w].stage = "mark" /\ calls'[w].trip = t /\ calls'[w].vehicle = v
      /\ \A x \in Workers \ {w} : calls'[x] = calls[x]
  BY <1>t DEF StartOpen, CallRow
<1>4. ~HasOngoing(a) /\ \A u \in Trips : trips[u].status = "completed" => trips[u].approval # a
  BY <1>c DEF InUseIffOngoing, CompletedOnce
<1>5. InUseIffOngoing'
  BY <1>1, <1>2, <1>4, <1>c DEF InUseIffOngoing, HasOngoing, Ongoing
<1>6. CompletedOnce'
  <2>. SUFFICES ASSUME NEW u \in Trips, trips'[u].status = "completed"
                PROVE  /\ approvals'[trips'[u].approval].status = "completed"
                       /\ \A x \in Trips : /\ trips'[x].status \in {"ongoing", "completed"}
                                           /\ trips'[x].approval = trips'[u].approval
                                           => x = u
    BY DEF CompletedOnce
  <2>1. u # t /\ trips[u].status = "completed" /\ trips[u].approval # a
    BY <1>1, <1>4
  <2>2. trips[u].approval \in Approvals
    BY <2>1 DEF RowsNameVehicles
  <2>. QED  BY <2>1, <2>2, <1>1, <1>2 DEF CompletedOnce
<1>7. TripUsesApprovedVehicle'
  BY <1>1, <1>2, <1>c DEF TripUsesApprovedVehicle, RowsNameVehicles
<1>8. OneOngoingPerVehicle'
  BY <1>1 DEF OneOngoingPerVehicle, Ongoing, StartOpen, VehicleFree
<1>9. RowsNameVehicles'
  BY <1>1, <1>2, <1>c DEF RowsNameVehicles
<1>10. ASSUME NEW x \in Workers PROVE CallFacts(x)'
  BY <1>1, <1>2, <1>3, <1>c DEF CallFacts
<1>. QED  BY <1>5, <1>6, <1>7, <1>8, <1>9, <1>10

\* store.close and store.cancel: the trip is still ongoing, so its request is
\* in use and no other trip of it is open or completed.
LEMMA CloseInv ==
    ASSUME TripInv, NEW w \in Workers, NEW stage \in {"close", "void"},
           NEW s, NEW r, <<s, r>> \in {<<"completed", "completed">>, <<"cancelled", "approved">>},
           CloseTrip(w, stage, s, r)
    PROVE  RequestsInv' /\ \A x \in Workers : CallFacts(x)'
<1>. DEFINE t == calls[w].trip
            a == trips[t].approval
<1>. USE DEF TripInv, RequestsInv
<1>t. /\ approvals \in [Approvals -> ApprovalRow] /\ trips \in [Trips -> TripRow]
      /\ calls \in [Workers -> CallRow]
  BY DEF TypeOK
<1>s. s \in {"completed", "cancelled"} /\ r \in {"completed", "approved"} /\ (s = "completed" <=> r = "completed")
  OBVIOUS
<1>c. /\ t \in Trips /\ a \in Approvals /\ trips[t].vehicle = calls[w].vehicle
      /\ trips[t].status = "ongoing" /\ approvals[a].status = "in_use"
  <2>1. calls[w].stage \in {"mark", "close", "void", "release"} /\ Ongoing(t)
    BY DEF CloseTrip, Closable
  <2>2. CallFacts(w)
    OBVIOUS
  <2>3. t \in Trips /\ trips[t].vehicle = calls[w].vehicle
    BY <2>1, <2>2 DEF CallFacts
  <2>. QED  BY <2>1, <2>3 DEF RowsNameVehicles, InUseIffOngoing, HasOngoing, Ongoing
<1>1. /\ trips'[t].status = s /\ trips'[t].approval = a /\ trips'[t].vehicle = trips[t].vehicle
      /\ \A u \in Trips \ {t} : trips'[u] = trips[u]
  BY <1>t, <1>c DEF CloseTrip, TripRow
<1>2. /\ approvals'[a].status = r /\ approvals'[a].vehicle = approvals[a].vehicle
      /\ \A b \in Approvals \ {a} : approvals'[b] = approvals[b]
  BY <1>t, <1>c DEF CloseTrip, MarkStatus, ApprovalRow
<1>3. /\ calls'[w].stage = "release" /\ calls'[w].trip = t /\ calls'[w].vehicle = calls[w].vehicle
      /\ \A x \in Workers \ {w} : calls'[x] = calls[x]
  BY <1>t DEF CloseTrip, CallRow
<1>4. \A u \in Trips \ {t} : trips[u].approval = a => trips[u].status \notin {"ongoing", "completed"}
  BY <1>c DEF InUseIffOngoing, CompletedOnce, Ongoing
<1>5. InUseIffOngoing'
  BY <1>1, <1>2, <1>4, <1>c, <1>s DEF InUseIffOngoing, HasOngoing, Ongoing
<1>6. CompletedOnce'
  <2>. SUFFICES ASSUME NEW u \in Trips, trips'[u].status = "completed"
                PROVE  /\ approvals'[trips'[u].approval].status = "completed"
                       /\ \A x \in Trips : /\ trips'[x].status \in {"ongoing", "completed"}
                                           /\ trips'[x].approval = trips'[u].approval
                                           => x = u
    BY DEF CompletedOnce
  <2>1. CASE u = t
    BY <2>1, <1>1, <1>2, <1>4, <1>s
  <2>2. CASE u # t
    <3>1. trips[u].status = "completed" /\ trips[u].approval # a /\ trips[u].approval \in Approvals
      BY <2>2, <1>1, <1>4 DEF RowsNameVehicles
    <3>. QED  BY <2>2, <3>1, <1>1, <1>2 DEF CompletedOnce
  <2>. QED  BY <2>1, <2>2
<1>7. TripUsesApprovedVehicle'
  BY <1>1, <1>2, <1>c DEF TripUsesApprovedVehicle, RowsNameVehicles
<1>8. OneOngoingPerVehicle'
  BY <1>1, <1>s DEF OneOngoingPerVehicle, Ongoing
<1>9. RowsNameVehicles'
  BY <1>1, <1>2, <1>c, <1>s DEF RowsNameVehicles
<1>10. ASSUME NEW x \in Workers PROVE CallFacts(x)'
  BY <1>1, <1>2, <1>3, <1>c, <1>s DEF CallFacts
<1>. QED  BY <1>5, <1>6, <1>7, <1>8, <1>9, <1>10

\* Every other step of a call leaves both tables alone; a read takes the
\* facts it will rely on.
LEMMA BeginInv ==
    ASSUME TripInv, NEW w \in Workers, Begin(w)
    PROVE  UNCHANGED <<approvals, trips>> /\ \A x \in Workers : CallFacts(x)'
<1>. USE DEF TripInv, RequestsInv
<1>t. calls \in [Workers -> CallRow] /\ \A a \in Approvals : approvals[a] \in ApprovalRow
  BY DEF TypeOK
<1>1. ASSUME NEW a \in Approvals, StartRead(w, a)
      PROVE  UNCHANGED <<approvals, trips>> /\ \A x \in Workers : CallFacts(x)'
  BY <1>1, <1>t DEF StartRead, CallFacts, RowsNameVehicles, AtRest
<1>2. ASSUME NEW t \in Trips, NEW stage \in {"close", "void"}, CloseRead(w, t, stage)
      PROVE  UNCHANGED <<approvals, trips>> /\ \A x \in Workers : CallFacts(x)'
  BY <1>2, <1>t DEF CloseRead, CallFacts, Ongoing, AtRest
<1>3. ASSUME NEW v \in Vehicles, NEW target \in ManualTargets, ManualRead(w, v, target)
      PROVE  UNCHANGED <<approvals, trips>> /\ \A x \in Workers : CallFacts(x)'
  BY <1>3, <1>t DEF ManualRead, CallFacts, AtRest
<1>. QED  BY <1>1, <1>2, <1>3 DEF Begin, EndRead, CancelRead

LEMMA FinishInv ==
    ASSUME TripInv, NEW w \in Workers, Finish(w), UNCHANGED <<approvals, trips>>
    PROVE  \A x \in Workers : CallFacts(x)'
  BY DEF TripInv, TypeOK, Finish, CallFacts, AtRest

LEMMA InvStep == TripInv /\ [Next]_vars => TripInv'
<1>. SUFFICES ASSUME TripInv, [Next]_vars PROVE TripInv'
  OBVIOUS
<1>. DEFINE Kept == RequestsInv' /\ \A x \in Workers : CallFacts(x)'
<1>0. TypeOK'
  BY TypeStep DEF TripInv
<1>1. CASE ApprovalStep
  BY <1>0, <1>1, ApprovalInv DEF TripInv
<1>2. ASSUME NEW w \in Workers, Begin(w) PROVE Kept
  BY <1>2, BeginInv, TablesFrame DEF TripInv
<1>3. ASSUME NEW w \in Workers, Finish(w), UNCHANGED <<approvals, trips>> PROVE Kept
  BY <1>3, FinishInv, TablesFrame DEF TripInv
<1>4. ASSUME NEW w \in Workers, Proceed(w) PROVE Kept
  <2>1. ASSUME NEW t \in Trips, StartOpen(w, t) PROVE Kept
    BY <2>1, OpenInv
  <2>2. CASE StartRefused(w) \/ StartMark(w) \/ CloseRefused(w) \/ Release(w) \/ ManualSwitch(w)
    BY <2>2, <1>3 DEF StartRefused, StartMark, CloseRefused, Release, ManualSwitch
  <2>3. CASE EndClose(w) \/ CancelClose(w)
    BY <2>3, CloseInv DEF EndClose, CancelClose
  <2>. QED  BY <1>4, <2>1, <2>2, <2>3 DEF Proceed
<1>5. ASSUME NEW w \in Workers, Abandon(w) PROVE Kept
  BY <1>5, <1>3 DEF Abandon
<1>6. ASSUME UNCHANGED <<approvals, trips, calls>> PROVE Kept
  BY <1>6, TablesFrame DEF TripInv, CallFacts
<1>7. ASSUME NEW v \in Reporting, Telemetry(v) PROVE Kept
  BY <1>7, <1>6 DEF Telemetry, tripVars
<1>8. CASE UNCHANGED vars
  BY <1>0, <1>6, <1>8 DEF vars, TripInv
<1>. QED  BY <1>0, <1>1, <1>2, <1>4, <1>5, <1>7, <1>8 DEF Next, TripInv

\* Everything TripInv says holds in every reachable state.
THEOREM TripInvariance == Spec => []TripInv
  BY InvInit, InvStep, PTL DEF Spec

\* A request is in use exactly while one trip of it is under way, although
\* the trip handlers write its status without looking at it.
THEOREM RequestsFollowTrips == Spec => []InUseIffOngoing
<1>1. TripInv => InUseIffOngoing
  BY DEF TripInv, RequestsInv
<1>. QED  BY <1>1, TripInvariance, PTL

\* No vehicle is on two trips, for any number of concurrent starts.
THEOREM VehiclesDrivenOnce == Spec => []OneOngoingPerVehicle
<1>1. TripInv => OneOngoingPerVehicle
  BY DEF TripInv, RequestsInv
<1>. QED  BY <1>1, TripInvariance, PTL

\* A request is used up by one completed trip.
THEOREM RequestsCompletedOnce == Spec => []CompletedOnce
<1>1. TripInv => CompletedOnce
  BY DEF TripInv, RequestsInv
<1>. QED  BY <1>1, TripInvariance, PTL

\* A trip runs on the vehicle its request was approved for, although Start
\* reads the vehicle before it locks the request.
THEOREM TripsUseApprovedVehicles == Spec => []TripUsesApprovedVehicle
<1>1. TripInv => TripUsesApprovedVehicle
  BY DEF TripInv, RequestsInv
<1>. QED  BY <1>1, TripInvariance, PTL

-----------------------------------------------------------------------------
\* The step of FinalIsFinal.
StaysFinal ==
    /\ \A a \in Approvals : approvals[a].status \in Final => approvals'[a] = approvals[a]
    /\ \A t \in Trips : trips[t].status \in {"completed", "cancelled"} => trips'[t] = trips[t]

LEMMA FinalStep == TripInv /\ [Next]_vars => StaysFinal
<1>. SUFFICES ASSUME TripInv, [Next]_vars PROVE StaysFinal
  OBVIOUS
<1>t. approvals \in [Approvals -> ApprovalRow] /\ trips \in [Trips -> TripRow]
  BY DEF TripInv, TypeOK
<1>1. ASSUME UNCHANGED <<approvals, trips>> PROVE StaysFinal
  BY <1>1 DEF StaysFinal
<1>2. CASE ApprovalStep
  BY <1>2, <1>t DEF ApprovalStep, Approve, Approvable, Reject, CancelApproval, ExpireStale, Expirable,
     MarkStatus, StaysFinal, Final
<1>3. ASSUME NEW w \in Workers, NEW t \in Trips, StartOpen(w, t) PROVE StaysFinal
  BY <1>3, <1>t DEF StartOpen, StillApproved, MarkStatus, StaysFinal, Final
<1>4. ASSUME NEW w \in Workers, NEW stage, NEW s, NEW r, stage \in {"close", "void"}, CloseTrip(w, stage, s, r)
      PROVE  StaysFinal
  <2>. DEFINE t == calls[w].trip
  <2>1. t \in Trips /\ trips[t].status = "ongoing"
    BY <1>4 DEF CloseTrip, Closable, Ongoing, TripInv, CallFacts
  <2>2. trips[t].approval \in Approvals /\ approvals[trips[t].approval].status = "in_use"
    BY <2>1 DEF TripInv, RequestsInv, RowsNameVehicles, InUseIffOngoing, HasOngoing, Ongoing
  <2>. QED  BY <1>4, <1>t, <2>1, <2>2 DEF CloseTrip, MarkStatus, StaysFinal, Final
<1>5. ASSUME NEW w \in Workers, Proceed(w) PROVE StaysFinal
  BY <1>5, <1>1, <1>3, <1>4 DEF Proceed, EndClose, CancelClose, StartRefused, StartMark, CloseRefused,
     Release, ManualSwitch
<1>6. ASSUME NEW w \in Workers, Begin(w) \/ Abandon(w) PROVE StaysFinal
  BY <1>6, <1>1, BeginInv DEF Abandon
<1>7. ASSUME NEW v \in Reporting, Telemetry(v) PROVE StaysFinal
  BY <1>7, <1>1 DEF Telemetry, tripVars
<1>8. CASE UNCHANGED vars
  BY <1>8, <1>1 DEF vars
<1>. QED  BY <1>2, <1>5, <1>6, <1>7, <1>8 DEF Next

\* Nothing revives a finished request or a closed trip.
THEOREM FinalForGood == Spec => FinalIsFinal
<1>1. TripInv /\ [Next]_vars => [StaysFinal]_vars
  BY FinalStep
<1>2. FinalIsFinal <=> [][StaysFinal]_vars
  BY DEF FinalIsFinal, StaysFinal
<1>. QED  BY <1>1, <1>2, TripInvariance, PTL DEF Spec

-----------------------------------------------------------------------------
(***************************************************************************)
(* TripLifecycle implements ApprovalContract: every step writes the status *)
(* of one request, along an edge of the status machine, or none.           *)
(***************************************************************************)
\* One request moved by one event is a step of the contract.
LEMMA EventStep ==
    ASSUME NEW a \in Approvals, approvals \in [Approvals -> ApprovalRow], approvals' \in [Approvals -> ApprovalRow],
           \A b \in Approvals \ {a} : approvals'[b].status = approvals[b].status,
           NEW event \in Contract!Events,
           approvals'[a].status \in Contract!NextStatus(approvals[a].status, event, 1, 1)
    PROVE  Contract!Next
<1>. DEFINE s == approvals'[a].status
<1>1. [x \in Approvals |-> approvals[x].status]' = [[x \in Approvals |-> approvals[x].status] EXCEPT ![a] = s]
  OBVIOUS
<1>2. [x \in Approvals |-> approvals[x].status][a] = approvals[a].status
  OBVIOUS
<1>3. s \in Contract!NextStatus([x \in Approvals |-> approvals[x].status][a], event, 1, 1)
  BY <1>2
<1>4. 1 \in 1..2
  OBVIOUS
<1>5. Contract!Event(a, event)
  BY ONLY <1>1, <1>3, <1>4, Zenon DEF Contract!Event
<1>. QED  BY <1>5 DEF Contract!Next

LEMMA ContractStep == TripInv /\ [Next]_vars => [Contract!Next]_[a \in Approvals |-> approvals[a].status]
<1>. SUFFICES ASSUME TripInv, [Next]_vars
              PROVE  Contract!Next \/ UNCHANGED [a \in Approvals |-> approvals[a].status]
  OBVIOUS
<1>. USE DEF Contract!Events, Contract!Pending
<1>t. /\ approvals \in [Approvals -> ApprovalRow] /\ approvals' \in [Approvals -> ApprovalRow]
      /\ trips \in [Trips -> TripRow] /\ calls \in [Workers -> CallRow]
  BY TypeStep DEF TripInv, TypeOK
<1>1. ASSUME NEW a \in Approvals, NEW v \in Vehicles, Approve(a, v) PROVE Contract!Next
  <2>1. approvals[a].status = "pending_l1" /\ approvals'[a].status = "approved"
    BY <1>1, <1>t DEF Approve, Approvable
  <2>2. approvals'[a].status \in Contract!NextStatus(approvals[a].status, "approve", 1, 1)
    BY <2>1 DEF Contract!NextStatus, Contract!MoreLevels
  <2>. QED  BY <1>1, <1>t, <2>1, <2>2, EventStep DEF Approve
<1>2. ASSUME NEW a \in Approvals, Reject(a) PROVE Contract!Next
  <2>1. approvals[a].status = "pending_l1" /\ approvals'[a].status = "rejected"
    BY <1>2, <1>t DEF Reject, MarkStatus
  <2>2. approvals'[a].status \in Contract!NextStatus(approvals[a].status, "reject", 1, 1)
    BY <2>1 DEF Contract!NextStatus
  <2>. QED  BY <1>2, <1>t, <2>1, <2>2, EventStep DEF Reject, MarkStatus
<1>3. ASSUME NEW a \in Approvals, CancelApproval(a) PROVE Contract!Next
  <2>1. approvals[a].status \in {"pending_l1", "approved"} /\ approvals'[a].status = "cancelled"
    BY <1>3, <1>t DEF CancelApproval, MarkStatus
  <2>2. approvals'[a].status \in Contract!NextStatus(approvals[a].status, "cancel", 1, 1)
    BY <2>1 DEF Contract!NextStatus
  <2>. QED  BY <1>3, <1>t, <2>1, <2>2, EventStep DEF CancelApproval, MarkStatus
<1>4. ASSUME NEW a \in Approvals, ExpireStale(a) PROVE Contract!Next
  <2>1. approvals[a].status \in {"pending_l1", "approved"} /\ approvals'[a].status = "expired"
    BY <1>4, <1>t DEF ExpireStale, Expirable, MarkStatus
  <2>2. approvals'[a].status \in Contract!NextStatus(approvals[a].status, "expire", 1, 1)
    BY <2>1 DEF Contract!NextStatus
  <2>. QED  BY <1>4, <1>t, <2>1, <2>2, EventStep DEF ExpireStale, MarkStatus
<1>5. ASSUME NEW w \in Workers, NEW t \in Trips, StartOpen(w, t) PROVE Contract!Next
  <2>. DEFINE a == calls[w].approval
  <2>1. a \in Approvals /\ approvals[a].status = "approved"
    BY <1>5 DEF StartOpen, StillApproved, TripInv, CallFacts
  <2>2. approvals'[a].status = "in_use" /\ \A b \in Approvals \ {a} : approvals'[b] = approvals[b]
    BY <1>5, <1>t, <2>1 DEF StartOpen, MarkStatus
  <2>3. approvals'[a].status \in Contract!NextStatus(approvals[a].status, "trip_start", 1, 1)
    BY <2>1, <2>2 DEF Contract!NextStatus
  <2>. QED  BY <1>t, <2>1, <2>2, <2>3, EventStep
<1>6. ASSUME NEW w \in Workers, EndClose(w) \/ CancelClose(w) PROVE Contract!Next
  <2>. DEFINE t == calls[w].trip
              a == trips[t].approval
  <2>1. t \in Trips /\ trips[t].status = "ongoing"
    BY <1>6 DEF EndClose, CancelClose, CloseTrip, Closable, Ongoing, TripInv, CallFacts
  <2>2. a \in Approvals /\ approvals[a].status = "in_use"
    BY <2>1 DEF TripInv, RequestsInv, RowsNameVehicles, InUseIffOngoing, HasOngoing, Ongoing
  <2>3. CASE EndClose(w)
    <3>1. approvals'[a].status = "completed" /\ \A b \in Approvals \ {a} : approvals'[b] = approvals[b]
      BY <2>3, <1>t, <2>2 DEF EndClose, CloseTrip, MarkStatus
    <3>2. approvals'[a].status \in Contract!NextStatus(approvals[a].status, "trip_end", 1, 1)
      BY <2>2, <3>1 DEF Contract!NextStatus
    <3>. QED  BY <1>t, <2>2, <3>1, <3>2, EventStep
  <2>4. CASE CancelClose(w)
    <3>1. approvals'[a].status = "approved" /\ \A b \in Approvals \ {a} : approvals'[b] = approvals[b]
      BY <2>4, <1>t, <2>2 DEF CancelClose, CloseTrip, MarkStatus
    <3>2. approvals'[a].status \in Contract!NextStatus(approvals[a].status, "trip_cancel", 1, 1)
      BY <2>2, <3>1 DEF Contract!NextStatus
    <3>. QED  BY <1>t, <2>2, <3>1, <3>2, EventStep
  <2>. QED  BY <1>6, <2>3, <2>4
<1>7. CASE ApprovalStep
  BY <1>7, <1>1, <1>2, <1>3, <1>4 DEF ApprovalStep
<1>8. ASSUME UNCHANGED approvals PROVE UNCHANGED [a \in Approvals |-> approvals[a].status]
  BY <1>8
<1>9. ASSUME NEW w \in Workers, Proceed(w), ~Contract!Next PROVE UNCHANGED approvals
  BY <1>9, <1>5, <1>6 DEF Proceed, StartRefused, StartMark, CloseRefused, Release, ManualSwitch
<1>10. ASSUME NEW w \in Workers, Begin(w) \/ Abandon(w) PROVE UNCHANGED approvals
  BY <1>10, BeginInv DEF Abandon
<1>11. ASSUME NEW v \in Reporting, Telemetry(v) PROVE UNCHANGED approvals
  BY <1>11 DEF Telemetry, tripVars
<1>12. CASE UNCHANGED vars
  BY <1>12, <1>8 DEF vars
<1>. QED  BY <1>7, <1>8, <1>9, <1>10, <1>11, <1>12 DEF Next

\* Trips move a request only along the status machine of the approval module,
\* for any number of concurrent handlers.
THEOREM TripsFollowContract == Spec => FollowsContract
<1>1. Init => Contract!Init
  BY DEF Init, Contract!Init
<1>. QED  BY <1>1, ContractStep, TripInvariance, PTL DEF Spec, FollowsContract, Contract!Spec

-----------------------------------------------------------------------------
(***************************************************************************)
(* Vehicles and trips.  With one handler at work, and none cut short, only *)
(* the vehicle it has yet to take or to give back may differ from the      *)
(* trips; telemetry reports run in between all along.                      *)
(***************************************************************************)
OneHandler == \A w, x \in Workers : w = x

\* In sync, and the live row names a trip of this vehicle.
Held(v) == InSync(v) /\ (live[v].trip # NoTrip => live[v].trip \in Trips /\ trips[live[v].trip].vehicle = v)

InPassing(w, v) == calls[w].stage \in {"mark", "release"} /\ calls[w].vehicle = v

SyncFact(w) ==
    /\ calls[w].stage = "mark" => Ongoing(calls[w].trip)
    /\ calls[w].stage = "release" => VehicleFree(calls[w].vehicle)
    /\ calls[w].stage = "switch" => VehicleFree(calls[w].vehicle) /\ calls[w].target # "in_use"

SyncInv ==
    /\ TripInv
    /\ \A v \in Vehicles : (\A w \in Workers : ~InPassing(w, v)) => Held(v)
    /\ \A w \in Workers : SyncFact(w)

\* Steps that change no vehicle's story.
LEMMA HeldKept ==
    ASSUME NEW v \in Vehicles, Held(v), live'[v].trip = live[v].trip,
           live'[v].status = "in_use" <=> live[v].status = "in_use",
           \A t \in Trips : trips'[t].vehicle = trips[t].vehicle \/ ~(Ongoing(t) \/ Ongoing(t)'),
           \A t \in Trips : trips[t].vehicle = v => (Ongoing(t)' <=> Ongoing(t)) /\ trips'[t].vehicle = v,
           \A t \in Trips : Ongoing(t)' /\ trips'[t].vehicle = v => trips[t].vehicle = v
    PROVE  Held(v)'
  BY DEF Held, InSync, VehicleFree

LEMMA SyncFrame ==
    ASSUME SyncInv, TripInv', UNCHANGED <<trips, calls>>,
           \A v \in Vehicles : live'[v].trip = live[v].trip /\ (live'[v].status = "in_use" <=> live[v].status = "in_use")
    PROVE  SyncInv'
<1>1. \A w \in Workers : SyncFact(w)'
  BY DEF SyncInv, SyncFact, Ongoing, VehicleFree
<1>2. \A v \in Vehicles : Held(v) => Held(v)'
  BY DEF Held, InSync, VehicleFree, Ongoing
<1>. QED  BY <1>1, <1>2 DEF SyncInv, InPassing

\* One handler: its vehicle apart, every vehicle is in sync.
LEMMA SyncAssembled ==
    ASSUME OneHandler, TripInv', NEW w \in Workers, SyncFact(w)',
           \A v \in Vehicles : ~InPassing(w, v)' => Held(v)'
    PROVE  SyncInv'
  BY DEF OneHandler, SyncInv

LEMMA BeginSync ==
    ASSUME OneHandler, SyncInv, TripInv', NEW w \in Workers, Begin(w)
    PROVE  SyncInv'
<1>t. calls \in [Workers -> CallRow]
  BY DEF SyncInv, TripInv, TypeOK
<1>1. calls[w].stage = "rest" /\ UNCHANGED <<live, trips>>
  BY DEF Begin, StartRead, EndRead, CancelRead, CloseRead, ManualRead
<1>2. \A v \in Vehicles : Held(v)
  BY <1>1 DEF SyncInv, InPassing, OneHandler
<1>3. \A v \in Vehicles : Held(v)'
  BY <1>1, <1>2 DEF Held, InSync, VehicleFree, Ongoing
<1>4. ASSUME NEW v \in Vehicles, NEW target \in ManualTargets, ManualRead(w, v, target) PROVE SyncFact(w)'
  <2>1. calls'[w].stage = "switch" /\ calls'[w].vehicle = v /\ calls'[w].target = target
    BY <1>4, <1>t DEF ManualRead, AtRest
  <2>2. live[v].trip = NoTrip
    BY <1>4 DEF ManualRead, CheckManualStatus
  <2>3. VehicleFree(v)
    BY <1>2, <2>2, NoTripAssumption DEF Held, InSync, VehicleFree
  <2>4. target # "in_use"
    BY ManualTargetsAssumption
  <2>5. VehicleFree(v)'
    BY <1>1, <2>3 DEF VehicleFree, Ongoing
  <2>. QED  BY <2>1, <2>4, <2>5 DEF SyncFact
<1>5. ASSUME NEW a \in Approvals, StartRead(w, a) PROVE SyncFact(w)'
  <2>1. calls'[w].stage = "open"
    BY <1>5, <1>t DEF StartRead, AtRest
  <2>. QED  BY <2>1 DEF SyncFact
<1>6. ASSUME NEW t \in Trips, EndRead(w, t) \/ CancelRead(w, t) PROVE SyncFact(w)'
  <2>1. calls'[w].stage \in {"close", "void"}
    BY <1>6, <1>t DEF EndRead, CancelRead, CloseRead, AtRest
  <2>. QED  BY <2>1 DEF SyncFact
<1>7. SyncFact(w)'
  BY <1>4, <1>5, <1>6 DEF Begin
<1>. QED  BY <1>3, <1>7, SyncAssembled

\* The handler writes the vehicle it has in passing, or one without a trip,
\* and comes to rest.
LEMMA WriteSync ==
    ASSUME OneHandler, SyncInv, TripInv', NEW w \in Workers, NEW v \in Vehicles, calls[w].vehicle = v,
           NEW s \in VehicleStates, NEW x \in Trips \cup {NoTrip}, SetStatus(v, s, x), UNCHANGED trips, Finish(w),
           \/ s = "in_use" /\ x \in Trips /\ Ongoing(x) /\ trips[x].vehicle = v
           \/ s # "in_use" /\ x = NoTrip /\ VehicleFree(v)
    PROVE  SyncInv'
<1>t. live \in [Vehicles -> LiveRow] /\ calls \in [Workers -> CallRow] /\ OneOngoingPerVehicle
  BY DEF SyncInv, TripInv, TypeOK, VehicleTypeOK, RequestsInv
<1>1. /\ \A u \in Vehicles : u # v => live'[u] = live[u]
      /\ live'[v].status = s /\ live'[v].trip = x
  BY <1>t DEF SetStatus, LiveRow
<1>2. calls'[w].stage = "rest"
  BY <1>t DEF Finish, AtRest
<1>3. \A u \in Vehicles : u # v => Held(u)
  BY DEF SyncInv, InPassing, OneHandler
<1>4. \A u \in Vehicles : u # v => Held(u)'
  BY <1>1, <1>3 DEF Held, InSync, VehicleFree, Ongoing
<1>5. ASSUME s = "in_use", x \in Trips, Ongoing(x), trips[x].vehicle = v PROVE Held(v)'
  BY <1>1, <1>5, <1>t DEF Held, InSync, VehicleFree, Ongoing, OneOngoingPerVehicle
<1>6. ASSUME s # "in_use", x = NoTrip, VehicleFree(v) PROVE Held(v)'
  BY <1>1, <1>6 DEF Held, InSync, VehicleFree, Ongoing
<1>7. SyncFact(w)'
  BY <1>2 DEF SyncFact
<1>. QED  BY <1>4, <1>5, <1>6, <1>7, SyncAssembled

LEMMA OpenSync ==
    ASSUME OneHandler, SyncInv, TripInv', NEW w \in Workers, NEW t \in Trips, StartOpen(w, t)
    PROVE  SyncInv'
<1>v. PICK v : v = calls[w].vehicle
  OBVIOUS
<1>t. trips \in [Trips -> TripRow] /\ calls \in [Workers -> CallRow]
  BY DEF SyncInv, TripInv, TypeOK
<1>1. calls[w].stage = "open" /\ trips[t].status = "absent" /\ UNCHANGED live
  BY DEF StartOpen
<1>2. /\ trips'[t].status = "ongoing" /\ trips'[t].vehicle = v
      /\ \A u \in Trips : u # t => trips'[u] = trips[u]
  BY <1>v, <1>t DEF StartOpen
<1>3. calls'[w].stage = "mark" /\ calls'[w].vehicle = v /\ calls'[w].trip = t
  BY <1>v, <1>t DEF StartOpen, CallRow
<1>4. \A u \in Vehicles : Held(u)
  BY <1>1 DEF SyncInv, InPassing, OneHandler
<1>5. \A u \in Vehicles : live[u].trip # NoTrip => live[u].trip \in Trips /\ live[u].trip # t
  BY <1>1, <1>4 DEF Held, InSync, Ongoing
<1>6. ASSUME NEW u \in Vehicles, u # v PROVE Held(u)'
  <2>1. VehicleFree(u)' <=> VehicleFree(u)
    BY <1>1, <1>2, <1>6 DEF VehicleFree, Ongoing
  <2>2. \A x \in Trips : Ongoing(x)' /\ trips'[x].vehicle = u => Ongoing(x) /\ trips[x].vehicle = u
    BY <1>2, <1>6 DEF Ongoing
  <2>3. live[u].trip # NoTrip => trips'[live[u].trip] = trips[live[u].trip]
    BY <1>2, <1>5
  <2>. QED  BY <1>1, <1>4, <2>1, <2>2, <2>3 DEF Held, InSync, Ongoing
<1>7. SyncFact(w)'
  BY <1>2, <1>3 DEF SyncFact, Ongoing
<1>. QED  BY <1>3, <1>6, <1>7, SyncAssembled DEF InPassing

LEMMA CloseSync ==
    ASSUME OneHandler, SyncInv, TripInv', NEW w \in Workers, NEW stage \in {"close", "void"},
           NEW s \in {"completed", "cancelled"}, NEW r, CloseTrip(w, stage, s, r)
    PROVE  SyncInv'
<1>v. PICK v : v = calls[w].vehicle
  OBVIOUS
<1>z. PICK t : t = calls[w].trip
  OBVIOUS
<1>t. trips \in [Trips -> TripRow] /\ calls \in [Workers -> CallRow] /\ CallFacts(w) /\ OneOngoingPerVehicle
  BY DEF SyncInv, TripInv, TypeOK, RequestsInv
<1>1. calls[w].stage = stage /\ Ongoing(t) /\ UNCHANGED live
  BY <1>z DEF CloseTrip, Closable
<1>2. t \in Trips /\ trips[t].vehicle = v
  BY <1>v, <1>z, <1>t, <1>1 DEF CallFacts
<1>3. /\ trips'[t].status = s /\ trips'[t].vehicle = v
      /\ \A u \in Trips : u # t => trips'[u] = trips[u]
  BY <1>z, <1>t, <1>2 DEF CloseTrip, TripRow
<1>4. calls'[w].stage = "release" /\ calls'[w].vehicle = v
  BY <1>v, <1>t DEF CloseTrip, CallRow
<1>5. \A u \in Vehicles : Held(u)
  BY <1>1 DEF SyncInv, InPassing, OneHandler
<1>6. VehicleFree(v)'
  BY <1>t, <1>1, <1>2, <1>3 DEF VehicleFree, Ongoing, OneOngoingPerVehicle
<1>7. ASSUME NEW u \in Vehicles, u # v PROVE Held(u)'
  <2>1. VehicleFree(u)' <=> VehicleFree(u)
    BY <1>2, <1>3, <1>7 DEF VehicleFree, Ongoing
  <2>2. \A x \in Trips : Ongoing(x)' /\ trips'[x].vehicle = u => Ongoing(x) /\ trips[x].vehicle = u
    BY <1>3, <1>7 DEF Ongoing
  <2>3. live[u].trip # NoTrip => live[u].trip \in Trips /\ live[u].trip # t
    BY <1>2, <1>5, <1>7 DEF Held
  <2>4. live[u].trip # NoTrip => trips'[live[u].trip] = trips[live[u].trip]
    BY <1>3, <2>3
  <2>. QED  BY <1>1, <1>5, <2>1, <2>2, <2>4 DEF Held, InSync, Ongoing
<1>8. SyncFact(w)'
  BY <1>4, <1>6 DEF SyncFact
<1>. QED  BY <1>4, <1>7, <1>8, SyncAssembled DEF InPassing

LEMMA ProceedSync ==
    ASSUME OneHandler, SyncInv, TripInv', NEW w \in Workers, Proceed(w)
    PROVE  SyncInv'
<1>v. PICK v : v = calls[w].vehicle
  OBVIOUS
<1>t. /\ calls \in [Workers -> CallRow] /\ CallFacts(w) /\ SyncFact(w) /\ RowsNameVehicles
      /\ v \in Vehicles \cup {NoVehicle}
  BY <1>v DEF SyncInv, TripInv, TypeOK, RequestsInv, CallRow
<1>1. ASSUME NEW t \in Trips, StartOpen(w, t) PROVE SyncInv'
  BY <1>1, OpenSync
<1>2. ASSUME StartRefused(w) \/ CloseRefused(w) PROVE SyncInv'
  <2>1. calls[w].stage \in {"open", "close", "void"} /\ UNCHANGED <<live, trips>> /\ calls'[w].stage = "rest"
    BY <1>2, <1>t DEF StartRefused, CloseRefused, Finish, AtRest
  <2>2. \A u \in Vehicles : Held(u)
    BY <2>1 DEF SyncInv, InPassing, OneHandler
  <2>3. \A u \in Vehicles : Held(u)'
    BY <2>1, <2>2 DEF Held, InSync, VehicleFree, Ongoing
  <2>4. SyncFact(w)'
    BY <2>1 DEF SyncFact
  <2>. QED  BY <2>3, <2>4, SyncAssembled
<1>3. ASSUME StartMark(w) PROVE SyncInv'
  <2>1. calls[w].stage = "mark" /\ SetStatus(v, "in_use", calls[w].trip) /\ UNCHANGED trips /\ Finish(w)
    BY <1>3, <1>v DEF StartMark
  <2>2. calls[w].trip \in Trips /\ Ongoing(calls[w].trip) /\ trips[calls[w].trip].vehicle = v /\ v \in Vehicles
    BY <2>1, <1>v, <1>t DEF CallFacts, SyncFact, RowsNameVehicles
  <2>. QED  BY <2>1, <2>2, <1>v, WriteSync DEF VehicleStates
<1>4. ASSUME EndClose(w) \/ CancelClose(w) PROVE SyncInv'
  BY <1>4, CloseSync DEF EndClose, CancelClose
<1>5. ASSUME Release(w) PROVE SyncInv'
  <2>1. calls[w].stage = "release" /\ SetStatus(v, "idle", NoTrip) /\ UNCHANGED trips /\ Finish(w)
    BY <1>5, <1>v DEF Release, ReleasedTrip
  <2>2. v \in Vehicles /\ VehicleFree(v)
    BY <2>1, <1>v, <1>t DEF CallFacts, SyncFact, RowsNameVehicles
  <2>. QED  BY <2>1, <2>2, <1>v, WriteSync DEF VehicleStates
<1>6. ASSUME ManualSwitch(w) PROVE SyncInv'
  <2>1. calls[w].stage = "switch" /\ SetStatus(v, calls[w].target, NoTrip) /\ UNCHANGED trips /\ Finish(w)
    BY <1>6, <1>v DEF ManualSwitch
  <2>2. VehicleFree(v) /\ calls[w].target # "in_use" /\ calls[w].target \in VehicleStates
    BY <2>1, <1>v, <1>t DEF SyncFact, CallRow
  <2>3. CASE v \in Vehicles
    BY <2>1, <2>2, <2>3, <1>v, WriteSync
  <2>4. CASE v \notin Vehicles
    <3>1. \A u \in Vehicles : Held(u)
      BY <2>1 DEF SyncInv, InPassing, OneHandler
    <3>2. \A u \in Vehicles : live'[u] = live[u]
      BY <2>1, <2>4 DEF SetStatus, SyncInv, TripInv, TypeOK, VehicleTypeOK
    <3>3. \A u \in Vehicles : Held(u)'
      BY <2>1, <3>1, <3>2 DEF Held, InSync, VehicleFree, Ongoing
    <3>4. SyncFact(w)'
      BY <2>1, <1>t DEF SyncFact, Finish, AtRest
    <3>. QED  BY <3>3, <3>4, SyncAssembled
  <2>. QED  BY <2>3, <2>4
<1>. QED  BY <1>1, <1>2, <1>3, <1>4, <1>5, <1>6 DEF Proceed

LEMMA SyncStep == OneHandler /\ ~MayFail /\ SyncInv /\ [Next]_vars => SyncInv'
<1>. SUFFICES ASSUME OneHandler, ~MayFail, SyncInv, [Next]_vars PROVE SyncInv'
  OBVIOUS
<1>i. TripInv'
  BY InvStep DEF SyncInv
<1>1. ASSUME ApprovalStep PROVE SyncInv'
  BY <1>1, <1>i, SyncFrame DEF ApprovalStep, Approve, Reject, CancelApproval, ExpireStale
<1>2. ASSUME NEW v \in Reporting, Telemetry(v) PROVE SyncInv'
  <2>t. live \in [Vehicles -> LiveRow] /\ v \in Vehicles
    BY ReportingAssumption DEF SyncInv, TripInv, TypeOK, VehicleTypeOK
  <2>1. ASSUME NEW flag \in BOOLEAN, TelemetryUpdate(v, flag)
        PROVE  \A u \in Vehicles : live'[u].trip = live[u].trip /\ (live'[u].status = "in_use" <=> live[u].status = "in_use")
    BY <2>1, <2>t DEF TelemetryUpdate, TelemetryState, LiveRow
  <2>2. ASSUME TelemetrySnapshot(v) \/ TelemetryCopy(v) \/ TelemetryCopyLost(v) PROVE UNCHANGED live
    BY <2>2 DEF TelemetrySnapshot, TelemetryCopy, TelemetryCopyLost
  <2>3. \A u \in Vehicles : live'[u].trip = live[u].trip /\ (live'[u].status = "in_use" <=> live[u].status = "in_use")
    BY <1>2, <2>1, <2>2 DEF Telemetry, TelemetryStep
  <2>. QED  BY <1>2, <1>i, <2>3, SyncFrame DEF Telemetry, tripVars
<1>3. ASSUME NEW w \in Workers, Begin(w) \/ Proceed(w) PROVE SyncInv'
  BY <1>3, <1>i, BeginSync, ProceedSync
<1>4. \A w \in Workers : ~Abandon(w)
  BY DEF Abandon
<1>5. ASSUME UNCHANGED vars PROVE SyncInv'
  BY <1>5, <1>i, SyncFrame DEF vars
<1>. QED  BY <1>1, <1>2, <1>3, <1>4, <1>5 DEF Next

LEMMA SyncInit == Init => SyncInv
<1>. SUFFICES ASSUME Init PROVE SyncInv
  OBVIOUS
<1>1. /\ \A t \in Trips : trips[t].status = "absent"
      /\ \A v \in Vehicles : live[v].status = "idle" /\ live[v].trip = NoTrip
      /\ \A w \in Workers : calls[w].stage = "rest"
  BY DEF Init, VehicleInit, AtRest
<1>2. \A v \in Vehicles : Held(v)
  BY <1>1 DEF Held, InSync, VehicleFree, Ongoing
<1>. QED  BY <1>1, <1>2, InvInit DEF SyncInv, SyncFact

\* With one handler at work and none cut short, a vehicle at rest is in use
\* exactly while a trip of it is under way and its live row names that trip,
\* whatever telemetry reports run in between (trip/service.go, asset/vstatus).
THEOREM VehiclesFollowTrips == ASSUME OneHandler, ~MayFail PROVE Spec => []VehiclesInSyncWhenQuiet
<1>1. SyncInv => VehiclesInSyncWhenQuiet
  BY DEF SyncInv, InPassing, Held, Quiet, VehiclesInSyncWhenQuiet
<1>2. SyncInv /\ [Next]_vars => SyncInv'
  BY SyncStep
<1>. QED  BY <1>1, <1>2, SyncInit, PTL DEF Spec

-----------------------------------------------------------------------------
(***************************************************************************)
(* A vehicle is given back.  With one handler at work, a live row names a  *)
(* closed trip only while that handler has yet to write this vehicle, and  *)
(* that write takes the trip out, to no trip or to the one that is open.   *)
(***************************************************************************)
WriteStages == {"mark", "release"}

\* What a server that carries on its handlers does for a call that has yet to
\* write its vehicle.
CarriesOn(w) == []<>(calls[w].stage \notin WriteStages) \/ []<><<Proceed(w)>>_vars

\* It is what FairSpec's weak fairness says of such a call: StartMark and
\* Release have no guard but their stage.
LEMMA WeakFairnessCarriesOn ==
    ASSUME NEW w \in Workers
    PROVE  WF_vars(Proceed(w)) /\ [](calls[w].stage \in WriteStages => ENABLED <<Proceed(w)>>_vars) => CarriesOn(w)
<1>1. ~(calls[w].stage \notin WriteStages) <=> calls[w].stage \in WriteStages
  OBVIOUS
<1>. QED  BY <1>1, PTL DEF CarriesOn

\* The live row of v names t although t is closed.
Lingers(t, v) == trips[t].status \in {"completed", "cancelled"} /\ trips[t].vehicle = v /\ live[v].trip = t

LEMMA LingersInPassing ==
    ASSUME SyncInv, NEW t \in Trips, NEW v \in Vehicles, Lingers(t, v)
    PROVE  \E w \in Workers : InPassing(w, v)
<1>1. ~Held(v)
  BY NoTripAssumption DEF Lingers, Held, InSync, Ongoing
<1>. QED  BY <1>1 DEF SyncInv

\* Until the handler goes on nothing changes, and its step ends it.
LEMMA LingersUntilWrite ==
    ASSUME OneHandler, ~MayFail, SyncInv, [Next]_vars, NEW t \in Trips, NEW v \in Vehicles, Lingers(t, v),
           NEW w \in Workers, InPassing(w, v)
    PROVE  /\ (Lingers(t, v)' /\ InPassing(w, v)') \/ live'[v].trip # t
           /\ Proceed(w) => live'[v].trip # t
<1>t. /\ live \in [Vehicles -> LiveRow] /\ CallFacts(w) /\ SyncFact(w)
      /\ calls[w].stage \in WriteStages /\ calls[w].vehicle = v
  BY DEF SyncInv, TripInv, TypeOK, VehicleTypeOK, RequestsInv, InPassing, WriteStages
<1>1. ASSUME Proceed(w) PROVE live'[v].trip # t
  <2>1. CASE StartMark(w)
    <3>1. Ongoing(calls[w].trip)
      BY <1>t, <2>1 DEF StartMark, SyncFact
    <3>2. live'[v].trip = calls[w].trip
      BY <1>t, <2>1 DEF StartMark, SetStatus, LiveRow
    <3>. QED  BY <3>1, <3>2 DEF Lingers, Ongoing
  <2>2. CASE Release(w)
    <3>1. live'[v].trip = NoTrip
      BY <1>t, <2>2 DEF Release, ReleasedTrip, SetStatus, LiveRow
    <3>. QED  BY <3>1, NoTripAssumption
  <2>. QED  BY <1>1, <1>t, <2>1, <2>2
            DEF Proceed, StartOpen, StartRefused, EndClose, CancelClose, CloseTrip, CloseRefused, ManualSwitch, WriteStages
<1>2. ASSUME UNCHANGED <<trips, calls>>, live'[v].trip = live[v].trip
      PROVE  Lingers(t, v)' /\ InPassing(w, v)'
  BY <1>2 DEF Lingers, InPassing
<1>3. ASSUME ApprovalStep PROVE UNCHANGED <<trips, calls, live>>
  BY <1>3 DEF ApprovalStep, Approve, Reject, CancelApproval, ExpireStale
<1>4. ASSUME NEW u \in Reporting, Telemetry(u)
      PROVE  UNCHANGED <<trips, calls>> /\ live'[v].trip = live[v].trip
  <2>1. ASSUME NEW flag \in BOOLEAN, TelemetryUpdate(u, flag) PROVE live'[v].trip = live[v].trip
    BY <1>t, <2>1, ReportingAssumption DEF TelemetryUpdate, LiveRow
  <2>. QED  BY <1>4, <2>1 DEF Telemetry, TelemetryStep, TelemetrySnapshot, TelemetryCopy, TelemetryCopyLost, tripVars
<1>5. ASSUME NEW x \in Workers, Begin(x) \/ Proceed(x) \/ Abandon(x)
      PROVE  Proceed(w)
  <2>1. x = w
    BY DEF OneHandler
  <2>. QED  BY <1>t, <1>5, <2>1 DEF Begin, StartRead, EndRead, CancelRead, CloseRead, ManualRead, Abandon, WriteStages
<1>. QED  BY <1>1, <1>2, <1>3, <1>4, <1>5 DEF Next, vars

\* With one handler at work, none cut short and each carried on, no live row
\* keeps naming a trip that is over (trip/service.go, End and Cancel).
THEOREM ClosedTripsLeaveVehicles ==
    ASSUME OneHandler, ~MayFail
    PROVE  Spec /\ (\A w \in Workers : CarriesOn(w)) => ClosedTripLeavesVehicle
<1>. DEFINE Fair == \A w \in Workers : CarriesOn(w)
            w    == CHOOSE x \in Workers : TRUE
<1>1. ASSUME NEW t \in Trips, NEW v \in Vehicles
      PROVE  []SyncInv /\ [][Next]_vars /\ Fair =>
                 ((trips[t].status \in {"completed", "cancelled"} /\ trips[t].vehicle = v) ~> (live[v].trip # t))
  <2>. DEFINE Closed == trips[t].status \in {"completed", "cancelled"} /\ trips[t].vehicle = v
              Left   == live[v].trip # t
              Due    == Lingers(t, v) /\ w \in Workers /\ InPassing(w, v)
  <2>1. SyncInv /\ Closed => Left \/ Due
    BY LingersInPassing DEF OneHandler, Lingers
  <2>2. SyncInv /\ [Next]_vars /\ Due => Left' \/ Due'
    BY LingersUntilWrite DEF Lingers
  <2>3. SyncInv /\ [Next]_vars /\ Due /\ Proceed(w) => Left'
    BY LingersUntilWrite
  <2>4. Due => ~(calls[w].stage \notin WriteStages)
    BY DEF InPassing, WriteStages
  <2>5. CASE w \in Workers
    <3>1. Fair => CarriesOn(w)
      BY <2>5
    <3>2. []SyncInv /\ [][Next]_vars /\ Fair => (Closed ~> Left)
      <4>. HIDE DEF Closed, Left, Due, w, Fair
      <4>. QED  BY <2>1, <2>2, <2>3, <2>4, <3>1, PTL DEF CarriesOn
    <3>. QED  BY <3>2
  <2>6. CASE w \notin Workers
    <3>1. ~Due
      BY <2>6
    <3>2. []SyncInv /\ [][Next]_vars /\ Fair => (Closed ~> Left)
      <4>. HIDE DEF Closed, Left, Due, w, Fair
      <4>. QED  BY <2>1, <3>1, PTL
    <3>. QED  BY <3>2
  <2>. QED  BY <2>5, <2>6
<1>2. []SyncInv /\ [][Next]_vars /\ Fair => ClosedTripLeavesVehicle
  BY <1>1 DEF ClosedTripLeavesVehicle
<1>3. SyncInv /\ [Next]_vars => SyncInv'
  BY SyncStep
<1>. QED  BY <1>2, <1>3, SyncInit, PTL DEF Spec
=============================================================================
