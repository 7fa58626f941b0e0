----------------------------- MODULE BookingDesk -----------------------------
(***************************************************************************)
(* The dispatch desk: bookings taken by phone, which reserve a vehicle     *)
(* without approval, send it out and take it back.                         *)
(*                                                                         *)
(* No booking operation uses a row lock.  Each reads the booking and the   *)
(* vehicle, decides, writes the booking in a statement that does not look  *)
(* at the status again, and then writes the vehicle.  A call's stage names *)
(* the step it does next.                                                  *)
(*                                                                         *)
(* Trips take vehicles and give them back: a trip is committed or closed   *)
(* first and the vehicle written by a later statement, so that their       *)
(* requests are calls as well, reduced to what the fleet sees of them.     *)
(* Around it approved requests hold vehicles (approvals' own conflict      *)
(* check) and an operator switches them by hand, in one step each.         *)
(* TripLifecycle and ApprovalFlow model these in full.                     *)
(***************************************************************************)
EXTENDS VehicleStatus, ApprovalRules

CONSTANTS Bookings, Approvals, Workers, Windows, NoVehicle, NoBooking, NoWindow

ASSUME NoVehicleAssumption == NoVehicle \notin Vehicles
ASSUME NoBookingAssumption == NoBooking \notin Bookings \cup Approvals
ASSUME WindowsAssumption == Windows \subseteq {w \in [start : Nat, end : Nat] : w.start < w.end}

VARIABLES bookings,   \* rows of bookings; "absent" rows are not inserted yet
          holds,      \* what each approved request holds, if anything
          onTrip,     \* the ongoing trip of each vehicle
          calls       \* the handler each worker is executing

vars == <<live, archive, mirror, bookings, holds, onTrip, calls>>

BookingRow == [status  : {"absent", "reserved", "departed", "completed", "cancelled"},
               vehicle : Vehicles \cup {NoVehicle},
               window  : Windows \cup {NoWindow}]

HoldRow == [vehicle : Vehicles \cup {NoVehicle}, window : Windows \cup {NoWindow}]

NoHold == [vehicle |-> NoVehicle, window |-> NoWindow]

CallRow == [stage   : {"rest", "insert", "edit", "move", "occupy", "check", "free",
                       "open", "take", "return"},
            booking : Bookings \cup {NoBooking},
            next    : {"departed", "completed", "cancelled"},
            edits   : SUBSET {"vehicle", "window"},
            vehicle : Vehicles \cup {NoVehicle},
            window  : Windows \cup {NoWindow},
            trip    : Trips \cup {NoTrip}]

AtRest == [stage |-> "rest", booking |-> NoBooking, next |-> "departed", edits |-> {},
           vehicle |-> NoVehicle, window |-> NoWindow, trip |-> NoTrip]

TypeOK ==
    /\ VehicleTypeOK
    /\ bookings \in [Bookings -> BookingRow]
    /\ holds \in [Approvals -> HoldRow]
    /\ onTrip \in [Vehicles -> Trips \cup {NoTrip}]
    /\ calls \in [Workers -> CallRow]

Init ==
    /\ VehicleInit
    /\ bookings = [b \in Bookings |-> [status |-> "absent", vehicle |-> NoVehicle, window |-> NoWindow]]
    /\ holds = [a \in Approvals |-> NoHold]
    /\ onTrip = [v \in Vehicles |-> NoTrip]
    /\ calls = [w \in Workers |-> AtRest]

Begin(w, call) ==
    /\ calls[w].stage = "rest"
    /\ calls' = [calls EXCEPT ![w] = call]
    /\ UNCHANGED <<live, archive, mirror, bookings, holds, onTrip>>

Finish(w) == calls' = [calls EXCEPT ![w] = AtRest]

----------------------------------------------------------------------------
\* Faulty variant: only reserved bookings count.
FaultyActive == {"reserved"}

Active == {"reserved", "departed"}

BookingClash(v, window, self) ==
    \E b \in Bookings \ {self} : /\ bookings[b].status \in Active
                                 /\ bookings[b].vehicle = v
                                 /\ TooClose(bookings[b].window, window)

ApprovalClash(v, window, self) ==
    \E a \in Approvals \ {self} : holds[a].vehicle = v /\ TooClose(holds[a].window, window)

\* Faulty variant: the requests that hold the vehicle are forgotten.
FaultyCheckVehicle(v, window, self) ==
    archive[v] \notin {"maintenance", "disabled"} /\ ~BookingClash(v, window, self)

\* checkVehicle: usable, and free of both kinds of reservation.
CheckVehicle(v, window, self) ==
    /\ archive[v] \notin {"maintenance", "disabled"}
    /\ ~BookingClash(v, window, self)
    /\ ~ApprovalClash(v, window, NoBooking)

CreateRead(w, b, window, v) ==
    /\ bookings[b].status = "absent" /\ \A x \in Workers : calls[x].booking # b
    /\ v # NoVehicle => CheckVehicle(v, window, NoBooking)
    /\ Begin(w, [AtRest EXCEPT !.stage = "insert", !.booking = b, !.vehicle = v, !.window = window])

\* The insert does not check again.
CreateInsert(w) ==
    LET c == calls[w] IN
    /\ c.stage = "insert"
    /\ bookings' = [bookings EXCEPT ![c.booking] = [status |-> "reserved", vehicle |-> c.vehicle, window |-> c.window]]
    /\ Finish(w)
    /\ UNCHANGED <<live, archive, mirror, holds, onTrip>>

\* Update: only the columns named in the request are written.  The vehicle is
\* checked when it is named or when the window is.
UpdateRead(w, b, edits, v, window) ==
    LET newVehicle == IF "vehicle" \in edits THEN v ELSE bookings[b].vehicle
        newWindow == IF "window" \in edits THEN window ELSE bookings[b].window IN
    /\ bookings[b].status = "reserved"
    /\ newVehicle # NoVehicle => CheckVehicle(newVehicle, newWindow, b)
    /\ Begin(w, [AtRest EXCEPT !.stage = "edit", !.booking = b, !.edits = edits,
                               !.vehicle = newVehicle, !.window = newWindow])

UpdateWrite(w) ==
    LET c == calls[w] IN
    /\ c.stage = "edit"
    /\ bookings' = [bookings EXCEPT ![c.booking] =
           [status  |-> @.status,
            vehicle |-> IF "vehicle" \in c.edits THEN c.vehicle ELSE @.vehicle,
            window  |-> IF "window" \in c.edits THEN c.window ELSE @.window]]
    /\ Finish(w)
    /\ UNCHANGED <<live, archive, mirror, holds, onTrip>>

----------------------------------------------------------------------------
\* The status machine of a booking.
Moves == {<<"reserved", "departed">>, <<"departed", "completed">>, <<"reserved", "cancelled">>}

CanDepart(v) == v # NoVehicle /\ archive[v] \in {"idle", "charging"}

MoveRead(w, b, next) ==
    /\ <<bookings[b].status, next>> \in Moves
    /\ next = "departed" => CanDepart(bookings[b].vehicle)
    /\ Begin(w, [AtRest EXCEPT !.stage = "move", !.booking = b, !.next = next,
                               !.vehicle = bookings[b].vehicle])

\* The statement sets the status whatever it has become.
MoveWrite(w) ==
    LET c == calls[w] IN
    /\ c.stage = "move"
    /\ bookings' = [bookings EXCEPT ![c.booking].status = c.next]
    /\ \/ c.next = "departed" /\ calls' = [calls EXCEPT ![w].stage = "occupy"]
       \/ c.next = "completed" /\ c.vehicle # NoVehicle /\ calls' = [calls EXCEPT ![w].stage = "check"]
       \/ c.next = "completed" /\ c.vehicle = NoVehicle /\ Finish(w)
       \/ c.next = "cancelled" /\ Finish(w)
    /\ UNCHANGED <<live, archive, mirror, holds, onTrip>>

Occupy(w) ==
    /\ calls[w].stage = "occupy"
    /\ SetStatus(calls[w].vehicle, "in_use", NoTrip)
    /\ Finish(w)
    /\ UNCHANGED <<bookings, holds, onTrip>>

\* Faulty variant: the vehicle is released whoever has it.
FaultyOursToRelease(v) == TRUE

\* In use without a trip: taken to mean that a booking has it.
OursToRelease(v) == live[v].status = "in_use" /\ live[v].trip = NoTrip

ReleaseRead(w) ==
    /\ calls[w].stage = "check"
    /\ calls' = [calls EXCEPT ![w] = IF OursToRelease(@.vehicle) THEN [@ EXCEPT !.stage = "free"] ELSE AtRest]
    /\ UNCHANGED <<live, archive, mirror, bookings, holds, onTrip>>

Free(w) ==
    /\ calls[w].stage = "free"
    /\ SetStatus(calls[w].vehicle, "idle", NoTrip)
    /\ Finish(w)
    /\ UNCHANGED <<bookings, holds, onTrip>>

----------------------------------------------------------------------------
(***************************************************************************)
(* Trips.  A start has read the archive when store.open commits; that      *)
(* transaction asks the unique index on ongoing trips, not the archive.    *)
(***************************************************************************)
TripRead(w, v, t) ==
    /\ archive[v] \in {"idle", "charging"}
    /\ \A u \in Vehicles : onTrip[u] # t
    /\ \A x \in Workers : calls[x].trip # t
    /\ Begin(w, [AtRest EXCEPT !.stage = "open", !.vehicle = v, !.trip = t])

TripOpen(w) ==
    LET c == calls[w] IN
    /\ c.stage = "open"
    /\ onTrip[c.vehicle] = NoTrip
    /\ onTrip' = [onTrip EXCEPT ![c.vehicle] = c.trip]
    /\ calls' = [calls EXCEPT ![w].stage = "take"]
    /\ UNCHANGED <<live, archive, mirror, bookings, holds>>

TripRefused(w) ==
    /\ calls[w].stage = "open"
    /\ onTrip[calls[w].vehicle] # NoTrip
    /\ Finish(w)
    /\ UNCHANGED <<live, archive, mirror, bookings, holds, onTrip>>

\* The vehicle is taken after the commit ...
TripTake(w) ==
    /\ calls[w].stage = "take"
    /\ SetStatus(calls[w].vehicle, "in_use", calls[w].trip)
    /\ Finish(w)
    /\ UNCHANGED <<bookings, holds, onTrip>>

\* ... and given back after the one that ends or cancels the trip, which finds
\* the row still ongoing or does nothing.
TripClose(w, v) ==
    /\ calls[w].stage = "rest"
    /\ onTrip[v] # NoTrip
    /\ onTrip' = [onTrip EXCEPT ![v] = NoTrip]
    /\ calls' = [calls EXCEPT ![w] = [AtRest EXCEPT !.stage = "return", !.vehicle = v]]
    /\ UNCHANGED <<live, archive, mirror, bookings, holds>>

TripReturn(w) ==
    /\ calls[w].stage = "return"
    /\ SetStatus(calls[w].vehicle, "idle", NoTrip)
    /\ Finish(w)
    /\ UNCHANGED <<bookings, holds, onTrip>>

\* A call is lost before its next statement, or that one fails.
Abandon(w) ==
    /\ MayFail
    /\ calls[w].stage # "rest"
    /\ Finish(w)
    /\ UNCHANGED <<live, archive, mirror, bookings, holds, onTrip>>

----------------------------------------------------------------------------
(***************************************************************************)
(* The other users of the fleet.                                           *)
(***************************************************************************)
\* The approval module asks only its own table for conflicts.
ApprovalTakes(a, v, window) ==
    /\ holds[a] = NoHold
    /\ ~ApprovalClash(v, window, a)
    /\ holds' = [holds EXCEPT ![a] = [vehicle |-> v, window |-> window]]
    /\ UNCHANGED <<live, archive, mirror, bookings, onTrip, calls>>

ApprovalEnds(a) ==
    /\ holds[a] # NoHold
    /\ holds' = [holds EXCEPT ![a] = NoHold]
    /\ UNCHANGED <<live, archive, mirror, bookings, onTrip, calls>>

OperatorSwitches(v, s) ==
    /\ archive[v] # "in_use" /\ live[v].trip = NoTrip
    /\ s # archive[v]
    /\ SetStatus(v, s, NoTrip)
    /\ UNCHANGED <<bookings, holds, onTrip, calls>>

Telemetry(v) == TelemetryStep(v) /\ UNCHANGED <<bookings, holds, onTrip, calls>>

Environment ==
    \/ \E a \in Approvals : ApprovalEnds(a) \/ \E v \in Vehicles, x \in Windows : ApprovalTakes(a, v, x)
    \/ \E v \in Vehicles, s \in {"idle", "maintenance"} : OperatorSwitches(v, s)

CallStep(w) ==
    \/ \E b \in Bookings, x \in Windows, v \in Vehicles \cup {NoVehicle} : CreateRead(w, b, x, v)
    \/ CreateInsert(w)
    \/ \E b \in Bookings, edits \in SUBSET {"vehicle", "window"} \ {{}},
          v \in Vehicles \cup {NoVehicle}, x \in Windows : UpdateRead(w, b, edits, v, x)
    \/ UpdateWrite(w)
    \/ \E b \in Bookings, next \in {"departed", "completed", "cancelled"} : MoveRead(w, b, next)
    \/ MoveWrite(w)
    \/ Occupy(w)
    \/ ReleaseRead(w)
    \/ Free(w)
    \/ \E v \in Vehicles : TripClose(w, v) \/ \E t \in Trips : TripRead(w, v, t)
    \/ TripOpen(w)
    \/ TripRefused(w)
    \/ TripTake(w)
    \/ TripReturn(w)
    \/ Abandon(w)

Next ==
    \/ Environment
    \/ \E v \in Reporting : Telemetry(v)
    \/ \E w \in Workers : CallStep(w)

Spec == Init /\ [][Next]_vars

CallsDone == \A w \in Workers : calls[w].stage = "rest"

Quiet == CallsDone /\ \A v \in Vehicles : mirror[v].stage = "rest"

\* One thing at a time: nothing begins, anywhere, while a call or a telemetry
\* report is half-way.
SerialNext ==
    \/ Quiet /\ Environment
    \/ \E v \in Reporting : (Quiet \/ mirror[v].stage # "rest") /\ Telemetry(v)
    \/ \E w \in Workers : (Quiet \/ calls[w].stage # "rest") /\ CallStep(w)

SerialSpec == Init /\ [][SerialNext]_vars

----------------------------------------------------------------------------
Out(b) == bookings[b].status = "departed"

\* A vehicle is out with one user at a time: never two departed bookings, and
\* never a departed booking and a trip (CanDepart: a car already in use may
\* not be sent out).
OneUserPerVehicle ==
    \A b \in Bookings : Out(b) =>
        /\ onTrip[bookings[b].vehicle] = NoTrip
        /\ \A c \in Bookings : Out(c) /\ bookings[c].vehicle = bookings[b].vehicle => c = b

\* With no call half-way, a vehicle is in use without a trip exactly while a
\* booking has it out: departing takes it, completing gives it back, and no
\* trip or operator does either in between.
InUseWhileOut ==
    CallsDone => \A v \in Vehicles :
        (live[v].status = "in_use" /\ live[v].trip = NoTrip) <=> \E b \in Bookings : Out(b) /\ bookings[b].vehicle = v

\* Two bookings never hold one vehicle in windows that are too close.
NoDoubleBooking ==
    \A b, c \in Bookings :
        (/\ b # c
         /\ bookings[b].status \in {"reserved", "departed"} /\ bookings[c].status \in {"reserved", "departed"}
         /\ bookings[b].vehicle \in Vehicles /\ bookings[b].vehicle = bookings[c].vehicle)
        => Apart(bookings[b].window, bookings[c].window)

\* booking/service.go, releaseVehicle: "A trip started in the meantime
\* (current_trip_id) owns the vehicle": a release never takes a vehicle away
\* from the trip that its live row names when it is written.  A trip whose start
\* was cut short before it took the vehicle is not named there.
TripKeepsVehicle ==
    [][\A w \in Workers : Free(w) => live[calls[w].vehicle].trip = NoTrip]_vars

Contract == INSTANCE BookingContract

\* Call by call the desk and the trips keep the contract: what a booking's check
\* has seen is still so when it is written and, unless calls are cut short, a
\* look at the status of a vehicle tells whether anybody has it.
FollowsContract == Contract!Spec
=============================================================================
