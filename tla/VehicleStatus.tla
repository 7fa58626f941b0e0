---------------------------- MODULE VehicleStatus ----------------------------
(***************************************************************************)
(* The state of a vehicle is kept twice: vehicle_status.status, the live   *)
(* snapshot, and vehicles.status, the archive row.  asset/vstatus writes   *)
(* both.  SetStatus does so in one transaction; ApplyTelemetry uses two    *)
(* statements of their own, and the second one copies what ITS snapshot of *)
(* vehicle_status holds.                                                   *)
(*                                                                         *)
(* Position, energy and lock readings are left out: no decision here       *)
(* depends on them.  The driver column always travels with the trip one.   *)
(***************************************************************************)
CONSTANTS Vehicles, Trips, NoTrip,
          Reporting,  \* the vehicles with a unit that reports telemetry
          MayFail     \* whether a call may be lost between two commits

ASSUME NoTripAssumption == NoTrip \notin Trips
ASSUME ReportingAssumption == Reporting \subseteq Vehicles
ASSUME MayFailAssumption == MayFail \in BOOLEAN

VARIABLES live,       \* vehicle_status, one row per vehicle
          archive,    \* vehicles.status
          mirror      \* the telemetry report being applied to each vehicle

VehicleStates == {"idle", "in_use", "charging", "maintenance", "disabled"}

LiveRow == [status : VehicleStates, trip : Trips \cup {NoTrip}, charging : BOOLEAN]

\* "copy": the first statement is committed; "write": the second one has
\* taken its snapshot and is about to write what it saw.
MirrorRow == [stage : {"rest", "copy", "write"}, seen : VehicleStates]

MirrorAtRest == [stage |-> "rest", seen |-> "idle"]

VehicleTypeOK ==
    /\ live \in [Vehicles -> LiveRow]
    /\ archive \in [Vehicles -> VehicleStates]
    /\ mirror \in [Vehicles -> MirrorRow]

\* A vehicle is created idle in both tables.
VehicleInit ==
    /\ live = [v \in Vehicles |-> [status |-> "idle", trip |-> NoTrip, charging |-> FALSE]]
    /\ archive = [v \in Vehicles |-> "idle"]
    /\ mirror = [v \in Vehicles |-> MirrorAtRest]

(***************************************************************************)
(* SetStatus overwrites status and current trip unconditionally, in both   *)
(* tables at once.                                                         *)
(***************************************************************************)
SetStatus(v, s, t) ==
    /\ live' = [live EXCEPT ![v].status = s, ![v].trip = t]
    /\ archive' = [archive EXCEPT ![v] = s]
    /\ UNCHANGED mirror

\* Faulty variants: a report overrides any state; a quiet car goes offline.
FaultyTelemetryState(s, flag) == IF flag THEN "charging" ELSE "idle"

FaultyOfflineState(s, flag) ==
    IF s \in {"in_use", "maintenance", "disabled"} THEN s
    ELSE IF flag THEN "charging" ELSE "offline"

\* The CASE of ApplyTelemetry: the charging flag moves an idle vehicle to
\* charging and back, and never overrides the other three states.
TelemetryState(s, flag) ==
    IF s \in {"in_use", "maintenance", "disabled"} THEN s
    ELSE IF flag THEN "charging" ELSE "idle"

\* First statement.  A report without a charging flag keeps the stored one,
\* which is one of the two values of flag.
TelemetryUpdate(v, flag) ==
    /\ mirror[v].stage = "rest"
    /\ live' = [live EXCEPT ![v].status = TelemetryState(@, flag), ![v].charging = flag]
    /\ mirror' = [mirror EXCEPT ![v].stage = "copy"]
    /\ UNCHANGED archive

\* The second statement reads vehicle_status as of its start ...
TelemetrySnapshot(v) ==
    /\ mirror[v].stage = "copy"
    /\ mirror' = [mirror EXCEPT ![v] = [stage |-> "write", seen |-> live[v].status]]
    /\ UNCHANGED <<live, archive>>

\* ... and writes it to vehicles.  When the vehicles row was changed in
\* between, READ COMMITTED re-reads that row only, not vehicle_status.
TelemetryCopy(v) ==
    /\ mirror[v].stage = "write"
    /\ archive' = [archive EXCEPT ![v] = mirror[v].seen]
    /\ mirror' = [mirror EXCEPT ![v] = MirrorAtRest]
    /\ UNCHANGED live

\* An error of the second statement is ignored.
TelemetryCopyLost(v) ==
    /\ MayFail
    /\ mirror[v].stage \in {"copy", "write"}
    /\ mirror' = [mirror EXCEPT ![v] = MirrorAtRest]
    /\ UNCHANGED <<live, archive>>

TelemetryStep(v) ==
    \/ \E flag \in BOOLEAN : TelemetryUpdate(v, flag)
    \/ TelemetrySnapshot(v)
    \/ TelemetryCopy(v)
    \/ TelemetryCopyLost(v)
=============================================================================
