-------------------------- MODULE BookingDesk_proofs --------------------------
(***************************************************************************)
(* The dispatch desk with one thing going on at a time: bookings of a      *)
(* vehicle keep a turnaround apart, a release spares the trip a vehicle    *)
(* names and, if no call is cut short, a vehicle is out with one user and  *)
(* in use exactly while it is; for any bookings, vehicles, trips, requests *)
(* and windows.  Cut short or not, each write is one the contract allows.  *)
(***************************************************************************)
EXTENDS BookingDesk, TLAPS

(***************************************************************************)
(* Types, which no interleaving of calls disturbs.                         *)
(***************************************************************************)
LEMMA RestIsCall == AtRest \in CallRow /\ AtRest.stage = "rest" /\ AtRest.booking = NoBooking
  BY DEF AtRest, CallRow

\* What Create, Update and Transition remember of what they read.
Inserting(b, v, x) == [AtRest EXCEPT !.stage = "insert", !.booking = b, !.vehicle = v, !.window = x]

Editing(b, edits, v, x) ==
    [AtRest EXCEPT !.stage = "edit", !.booking = b, !.edits = edits, !.vehicle = v, !.window = x]

Moving(b, next, v) == [AtRest EXCEPT !.stage = "move", !.booking = b, !.next = next, !.vehicle = v]

LEMMA InsertingIs ==
    ASSUME NEW b \in Bookings, NEW v \in Vehicles \cup {NoVehicle}, NEW x \in Windows
    PROVE  LET c == Inserting(b, v, x) IN
           c \in CallRow /\ c.stage = "insert" /\ c.booking = b /\ c.vehicle = v /\ c.window = x
  BY DEF Inserting, AtRest, CallRow

LEMMA EditingIs ==
    ASSUME NEW b \in Bookings, NEW edits \in SUBSET {"vehicle", "window"},
           NEW v \in Vehicles \cup {NoVehicle}, NEW x \in Windows \cup {NoWindow}
    PROVE  LET c == Editing(b, edits, v, x) IN
           c \in CallRow /\ c.stage = "edit" /\ c.booking = b /\ c.edits = edits /\ c.vehicle = v /\ c.window = x
  BY DEF Editing, AtRest, CallRow

LEMMA MovingIs ==
    ASSUME NEW b \in Bookings, NEW next \in {"departed", "completed", "cancelled"}, NEW v \in Vehicles \cup {NoVehicle}
    PROVE  LET c == Moving(b, next, v) IN
           c \in CallRow /\ c.stage = "move" /\ c.booking = b /\ c.next = next /\ c.vehicle = v
  BY DEF Moving, AtRest, CallRow

\* What a trip's start remembers of what it read, and its end.
Opening(v, t) == [AtRest EXCEPT !.stage = "open", !.vehicle = v, !.trip = t]

Returning(v) == [AtRest EXCEPT !.stage = "return", !.vehicle = v]

LEMMA OpeningIs ==
    ASSUME NEW v \in Vehicles, NEW t \in Trips
    PROVE  LET c == Opening(v, t) IN c \in CallRow /\ c.stage = "open" /\ c.vehicle = v /\ c.trip = t
  BY DEF Opening, AtRest, CallRow

LEMMA ReturningIs ==
    ASSUME NEW v \in Vehicles
    PROVE  LET c == Returning(v) IN c \in CallRow /\ c.stage = "return" /\ c.vehicle = v
  BY DEF Returning, AtRest, CallRow

LEMMA SetStatusIs ==
    ASSUME VehicleTypeOK, NEW v, NEW s \in VehicleStates, NEW t \in Trips \cup {NoTrip}, SetStatus(v, s, t)
    PROVE  /\ VehicleTypeOK'
           /\ \A u \in Vehicles : u # v => live'[u] = live[u] /\ archive'[u] = archive[u]
           /\ v \in Vehicles => live'[v].status = s /\ live'[v].trip = t /\ archive'[v] = s
           /\ mirror' = mirror
  BY DEF VehicleTypeOK, SetStatus, LiveRow

\* The archive row, and the copy a report is about to write there, tell whether
\* the vehicle is in use.
Mirrored(v) ==
    /\ archive[v] = "in_use" <=> live[v].status = "in_use"
    /\ mirror[v].stage = "write" => (mirror[v].seen = "in_use" <=> live[v].status = "in_use")

\* A report changes one vehicle, and neither its trip nor whether it is in use.
LEMMA TelemetryIs ==
    ASSUME VehicleTypeOK, NEW v \in Vehicles, TelemetryStep(v)
    PROVE  /\ VehicleTypeOK'
           /\ \A u \in Vehicles : u # v => live'[u] = live[u] /\ archive'[u] = archive[u] /\ mirror'[u] = mirror[u]
           /\ live'[v].trip = live[v].trip
           /\ live'[v].status = "in_use" <=> live[v].status = "in_use"
           /\ Mirrored(v) => Mirrored(v)'
<1>t. /\ live \in [Vehicles -> LiveRow] /\ archive \in [Vehicles -> VehicleStates]
      /\ mirror \in [Vehicles -> MirrorRow] /\ live[v] \in LiveRow /\ mirror[v] \in MirrorRow
      /\ live[v].status \in VehicleStates /\ MirrorAtRest \in MirrorRow /\ MirrorAtRest.stage = "rest"
  BY DEF VehicleTypeOK, LiveRow, MirrorRow, MirrorAtRest, VehicleStates
<1>1. ASSUME NEW flag \in BOOLEAN, TelemetryUpdate(v, flag)
      PROVE  /\ VehicleTypeOK'
             /\ \A u \in Vehicles : u # v => live'[u] = live[u] /\ archive'[u] = archive[u] /\ mirror'[u] = mirror[u]
             /\ live'[v].trip = live[v].trip
             /\ live'[v].status = "in_use" <=> live[v].status = "in_use"
             /\ Mirrored(v) => Mirrored(v)'
  <2>. DEFINE s == TelemetryState(live[v].status, flag)
  <2>1. s \in VehicleStates /\ (s = "in_use" <=> live[v].status = "in_use")
    BY <1>t DEF TelemetryState, VehicleStates
  <2>. HIDE DEF s
  <2>2. live' = [live EXCEPT ![v] = [@ EXCEPT !.status = s, !.charging = flag]]
        /\ mirror' = [mirror EXCEPT ![v].stage = "copy"] /\ archive' = archive
    BY <1>1 DEF TelemetryUpdate, s
  <2>3. /\ [live[v] EXCEPT !.status = s, !.charging = flag] \in LiveRow
        /\ [live[v] EXCEPT !.status = s, !.charging = flag].status = s
        /\ [live[v] EXCEPT !.status = s, !.charging = flag].trip = live[v].trip
    BY <1>t, <2>1 DEF LiveRow
  <2>4. [mirror[v] EXCEPT !.stage = "copy"] \in MirrorRow /\ [mirror[v] EXCEPT !.stage = "copy"].stage = "copy"
    BY <1>t DEF MirrorRow
  <2>. QED  BY <1>t, <2>1, <2>2, <2>3, <2>4 DEF VehicleTypeOK, Mirrored
<1>2. CASE TelemetrySnapshot(v)
  <2>1. [stage |-> "write", seen |-> live[v].status] \in MirrorRow
    BY <1>t DEF MirrorRow
  <2>. QED  BY <1>t, <1>2, <2>1 DEF TelemetrySnapshot, VehicleTypeOK, Mirrored
<1>3. CASE TelemetryCopy(v)
  <2>1. mirror[v].seen \in VehicleStates
    BY <1>t DEF MirrorRow
  <2>. QED  BY <1>t, <1>3, <2>1 DEF TelemetryCopy, VehicleTypeOK, Mirrored
<1>4. CASE TelemetryCopyLost(v)
  BY <1>t, <1>4 DEF TelemetryCopyLost, VehicleTypeOK, Mirrored
<1>. QED  BY <1>1, <1>2, <1>3, <1>4 DEF TelemetryStep

\* The calls after a step of one worker.
LEMMA FinishIs ==
    ASSUME calls \in [Workers -> CallRow], NEW w \in Workers, Finish(w)
    PROVE  /\ calls' \in [Workers -> CallRow] /\ calls'[w] = AtRest
           /\ \A u \in Workers : u # w => calls'[u] = calls[u]
  BY RestIsCall DEF Finish

LEMMA BeginIs ==
    ASSUME calls \in [Workers -> CallRow], NEW w \in Workers, NEW c \in CallRow, Begin(w, c)
    PROVE  /\ calls' \in [Workers -> CallRow] /\ calls'[w] = c
           /\ \A u \in Workers : u # w => calls'[u] = calls[u]
  BY DEF Begin

\* The same call at its next stage.
LEMMA StageIs ==
    ASSUME calls \in [Workers -> CallRow], NEW w \in Workers, NEW stage \in {"occupy", "check", "free", "take"},
           calls' = [calls EXCEPT ![w].stage = stage]
    PROVE  /\ calls' \in [Workers -> CallRow]
           /\ calls'[w].stage = stage /\ calls'[w].vehicle = calls[w].vehicle /\ calls'[w].booking = calls[w].booking
           /\ calls'[w].trip = calls[w].trip
           /\ \A u \in Workers : u # w => calls'[u] = calls[u]
  BY DEF CallRow

\* What Update writes: the columns named, and those only.
LEMMA UpdateIs ==
    ASSUME TypeOK, NEW w \in Workers, UpdateWrite(w)
    PROVE  LET c == calls[w]
               b == c.booking IN
           /\ bookings' \in [Bookings -> BookingRow]
           /\ \A d \in Bookings : d # b => bookings'[d] = bookings[d]
           /\ b \in Bookings =>
                /\ bookings'[b].status = bookings[b].status
                /\ bookings'[b].vehicle = IF "vehicle" \in c.edits THEN c.vehicle ELSE bookings[b].vehicle
                /\ bookings'[b].window = IF "window" \in c.edits THEN c.window ELSE bookings[b].window
<1>. DEFINE c == calls[w]
            b == c.booking
            r == [status |-> bookings[b].status,
                  vehicle |-> IF "vehicle" \in c.edits THEN c.vehicle ELSE bookings[b].vehicle,
                  window |-> IF "window" \in c.edits THEN c.window ELSE bookings[b].window]
<1>1. c \in CallRow /\ bookings \in [Bookings -> BookingRow]
  BY DEF TypeOK
<1>2. ASSUME b \in Bookings PROVE r \in BookingRow
  BY <1>1, <1>2 DEF BookingRow, CallRow
<1>3. bookings' = [bookings EXCEPT ![b] = r]
  BY DEF UpdateWrite
<1>4. r.status = bookings[b].status
      /\ r.vehicle = (IF "vehicle" \in c.edits THEN c.vehicle ELSE bookings[b].vehicle)
      /\ r.window = (IF "window" \in c.edits THEN c.window ELSE bookings[b].window)
  OBVIOUS
<1>. HIDE DEF r
<1>5. \A d \in Bookings : bookings'[d] = IF d = b THEN r ELSE bookings[d]
  BY <1>1, <1>3
<1>6. bookings' \in [Bookings -> BookingRow]
  BY <1>1, <1>2, <1>3
<1>. QED  BY <1>4, <1>5, <1>6

LEMMA MoveIs ==
    ASSUME TypeOK, NEW w \in Workers, MoveWrite(w)
    PROVE  LET b == calls[w].booking IN
           /\ bookings' \in [Bookings -> BookingRow]
           /\ \A d \in Bookings : d # b => bookings'[d] = bookings[d]
           /\ b \in Bookings => /\ bookings'[b].status = calls[w].next
                                /\ bookings'[b].vehicle = bookings[b].vehicle
                                /\ bookings'[b].window = bookings[b].window
<1>. DEFINE b == calls[w].booking
            r == [bookings[b] EXCEPT !.status = calls[w].next]
<1>1. calls[w].next \in {"departed", "completed", "cancelled"} /\ bookings \in [Bookings -> BookingRow]
  BY DEF TypeOK, CallRow
<1>2. ASSUME b \in Bookings
      PROVE  /\ r \in BookingRow /\ r.status = calls[w].next
             /\ r.vehicle = bookings[b].vehicle /\ r.window = bookings[b].window
  BY <1>1, <1>2 DEF BookingRow
<1>3. bookings' = [bookings EXCEPT ![b] = r]
  BY DEF MoveWrite
<1>. HIDE DEF r
<1>4. \A d \in Bookings : bookings'[d] = IF d = b THEN r ELSE bookings[d]
  BY <1>1, <1>3
<1>5. bookings' \in [Bookings -> BookingRow]
  BY <1>1, <1>2, <1>3
<1>. QED  BY <1>2, <1>4, <1>5

LEMMA CreateReadIs ==
    ASSUME TypeOK, NEW w \in Workers, NEW b \in Bookings, NEW x \in Windows, NEW v \in Vehicles \cup {NoVehicle},
           CreateRead(w, b, x, v)
    PROVE  LET c == calls'[w] IN
           /\ calls' \in [Workers -> CallRow] /\ \A u \in Workers : u # w => calls'[u] = calls[u]
           /\ c.stage = "insert" /\ c.booking = b /\ c.vehicle = v /\ c.window = x
           /\ bookings[b].status = "absent" /\ calls[w].stage = "rest"
           /\ v # NoVehicle => ~BookingClash(v, x, NoBooking) /\ ~ApprovalClash(v, x, NoBooking)
           /\ UNCHANGED <<live, archive, mirror, bookings, holds, onTrip>>
<1>1. Begin(w, Inserting(b, v, x)) /\ bookings[b].status = "absent"
      /\ (v # NoVehicle => ~BookingClash(v, x, NoBooking) /\ ~ApprovalClash(v, x, NoBooking))
  BY DEF CreateRead, Inserting, CheckVehicle
<1>2. Inserting(b, v, x) \in CallRow /\ Inserting(b, v, x).stage = "insert" /\ Inserting(b, v, x).booking = b
      /\ Inserting(b, v, x).vehicle = v /\ Inserting(b, v, x).window = x
  BY InsertingIs
<1>3. /\ calls' \in [Workers -> CallRow] /\ calls'[w] = Inserting(b, v, x)
      /\ \A u \in Workers : u # w => calls'[u] = calls[u]
  BY <1>1, <1>2, BeginIs DEF TypeOK
<1>4. calls[w].stage = "rest" /\ UNCHANGED <<live, archive, mirror, bookings, holds, onTrip>>
  BY <1>1 DEF Begin
<1>. QED  BY <1>1, <1>2, <1>3, <1>4

LEMMA UpdateReadIs ==
    ASSUME TypeOK, NEW w \in Workers, NEW b \in Bookings, NEW edits \in SUBSET {"vehicle", "window"},
           NEW v \in Vehicles \cup {NoVehicle}, NEW x \in Windows, UpdateRead(w, b, edits, v, x)
    PROVE  LET c == calls'[w] IN
           /\ calls' \in [Workers -> CallRow] /\ \A u \in Workers : u # w => calls'[u] = calls[u]
           /\ c.stage = "edit" /\ c.booking = b /\ c.edits = edits
           /\ c.vehicle = (IF "vehicle" \in edits THEN v ELSE bookings[b].vehicle)
           /\ c.window = (IF "window" \in edits THEN x ELSE bookings[b].window)
           /\ bookings[b].status = "reserved" /\ calls[w].stage = "rest"
           /\ c.vehicle # NoVehicle => ~BookingClash(c.vehicle, c.window, b) /\ ~ApprovalClash(c.vehicle, c.window, NoBooking)
           /\ UNCHANGED <<live, archive, mirror, bookings, holds, onTrip>>
<1>. DEFINE newVehicle == IF "vehicle" \in edits THEN v ELSE bookings[b].vehicle
            newWindow == IF "window" \in edits THEN x ELSE bookings[b].window
<1>1. newVehicle \in Vehicles \cup {NoVehicle} /\ newWindow \in Windows \cup {NoWindow}
  BY DEF TypeOK, BookingRow
<1>2. /\ Begin(w, Editing(b, edits, newVehicle, newWindow)) /\ bookings[b].status = "reserved"
      /\ newVehicle # NoVehicle => ~BookingClash(newVehicle, newWindow, b) /\ ~ApprovalClash(newVehicle, newWindow, NoBooking)
  BY DEF UpdateRead, Editing, CheckVehicle
<1>. HIDE DEF newVehicle, newWindow
<1>3. LET c == calls'[w] IN
      /\ calls' \in [Workers -> CallRow] /\ \A u \in Workers : u # w => calls'[u] = calls[u]
      /\ c.stage = "edit" /\ c.booking = b /\ c.edits = edits /\ c.vehicle = newVehicle /\ c.window = newWindow
      /\ calls[w].stage = "rest" /\ UNCHANGED <<live, archive, mirror, bookings, holds, onTrip>>
  BY <1>1, <1>2, EditingIs, BeginIs DEF TypeOK, Begin
<1>. QED  BY <1>2, <1>3 DEF newVehicle, newWindow

LEMMA MoveReadIs ==
    ASSUME TypeOK, NEW w \in Workers, NEW b \in Bookings, NEW next \in {"departed", "completed", "cancelled"},
           MoveRead(w, b, next)
    PROVE  LET c == calls'[w] IN
           /\ calls' \in [Workers -> CallRow] /\ \A u \in Workers : u # w => calls'[u] = calls[u]
           /\ c.stage = "move" /\ c.booking = b /\ c.next = next /\ c.vehicle = bookings[b].vehicle
           /\ <<bookings[b].status, next>> \in Moves /\ calls[w].stage = "rest"
           /\ next = "departed" => CanDepart(bookings[b].vehicle)
           /\ UNCHANGED <<live, archive, mirror, bookings, holds, onTrip>>
<1>1. /\ Begin(w, Moving(b, next, bookings[b].vehicle)) /\ <<bookings[b].status, next>> \in Moves
      /\ next = "departed" => CanDepart(bookings[b].vehicle)
  BY DEF MoveRead, Moving
<1>2. bookings[b].vehicle \in Vehicles \cup {NoVehicle}
  BY DEF TypeOK, BookingRow
<1>. QED  BY <1>1, <1>2, MovingIs, BeginIs DEF TypeOK, Begin

\* After the booking is written: done, or on to the vehicle.
LEMMA MoveWriteIs ==
    ASSUME TypeOK, NEW w \in Workers, MoveWrite(w)
    PROVE  LET c == calls[w] IN
           /\ calls' \in [Workers -> CallRow] /\ \A u \in Workers : u # w => calls'[u] = calls[u]
           /\ \/ c.next = "departed" /\ calls'[w].stage = "occupy" /\ calls'[w].vehicle = c.vehicle
              \/ c.next = "completed" /\ c.vehicle # NoVehicle /\ calls'[w].stage = "check" /\ calls'[w].vehicle = c.vehicle
              \/ c.next = "completed" /\ c.vehicle = NoVehicle /\ calls'[w] = AtRest
              \/ c.next = "cancelled" /\ calls'[w] = AtRest
<1>1. CASE calls[w].next = "departed" /\ calls' = [calls EXCEPT ![w].stage = "occupy"]
  BY <1>1, StageIs DEF TypeOK
<1>2. CASE calls[w].next = "completed" /\ calls[w].vehicle # NoVehicle /\ calls' = [calls EXCEPT ![w].stage = "check"]
  BY <1>2, StageIs DEF TypeOK
<1>3. CASE calls[w].next = "completed" /\ calls[w].vehicle = NoVehicle /\ Finish(w)
  BY <1>3, FinishIs DEF TypeOK
<1>4. CASE calls[w].next = "cancelled" /\ Finish(w)
  BY <1>4, FinishIs DEF TypeOK
<1>. QED  BY <1>1, <1>2, <1>3, <1>4 DEF MoveWrite

LEMMA ReleaseReadIs ==
    ASSUME TypeOK, NEW w \in Workers, ReleaseRead(w)
    PROVE  /\ calls' \in [Workers -> CallRow] /\ \A u \in Workers : u # w => calls'[u] = calls[u]
           /\ \/ OursToRelease(calls[w].vehicle) /\ calls'[w].stage = "free" /\ calls'[w].vehicle = calls[w].vehicle
              \/ ~OursToRelease(calls[w].vehicle) /\ calls'[w] = AtRest
<1>1. CASE OursToRelease(calls[w].vehicle)
  <2>1. calls' = [calls EXCEPT ![w].stage = "free"]
    BY <1>1 DEF ReleaseRead, TypeOK
  <2>. QED  BY <1>1, <2>1, StageIs DEF TypeOK
<1>2. CASE ~OursToRelease(calls[w].vehicle)
  <2>1. Finish(w)
    BY <1>2 DEF ReleaseRead, Finish
  <2>. QED  BY <1>2, <2>1, FinishIs DEF TypeOK
<1>. QED  BY <1>1, <1>2

LEMMA InsertIs ==
    ASSUME TypeOK, NEW w \in Workers, CreateInsert(w)
    PROVE  LET b == calls[w].booking IN
           /\ bookings' \in [Bookings -> BookingRow]
           /\ \A d \in Bookings : d # b => bookings'[d] = bookings[d]
           /\ b \in Bookings => /\ bookings'[b].status = "reserved"
                                /\ bookings'[b].vehicle = calls[w].vehicle
                                /\ bookings'[b].window = calls[w].window
<1>. DEFINE r == [status |-> "reserved", vehicle |-> calls[w].vehicle, window |-> calls[w].window]
<1>1. r \in BookingRow
  BY DEF TypeOK, CallRow, BookingRow
<1>2. bookings' = [bookings EXCEPT ![calls[w].booking] = r]
  BY DEF CreateInsert
<1>. QED  BY <1>1, <1>2 DEF TypeOK

LEMMA TripReadIs ==
    ASSUME TypeOK, NEW w \in Workers, NEW v \in Vehicles, NEW t \in Trips, TripRead(w, v, t)
    PROVE  LET c == calls'[w] IN
           /\ calls' \in [Workers -> CallRow] /\ \A u \in Workers : u # w => calls'[u] = calls[u]
           /\ c.stage = "open" /\ c.vehicle = v /\ c.trip = t
           /\ archive[v] \in {"idle", "charging"} /\ calls[w].stage = "rest"
           /\ \A u \in Vehicles : onTrip[u] # t
           /\ UNCHANGED <<live, archive, mirror, bookings, holds, onTrip>>
<1>1. Begin(w, Opening(v, t)) /\ archive[v] \in {"idle", "charging"} /\ \A u \in Vehicles : onTrip[u] # t
  BY DEF TripRead, Opening
<1>. QED  BY <1>1, OpeningIs, BeginIs DEF TypeOK, Begin

LEMMA TripOpenIs ==
    ASSUME TypeOK, NEW w \in Workers, TripOpen(w)
    PROVE  LET v == calls[w].vehicle
               t == calls[w].trip IN
           /\ calls[w].stage = "open" /\ onTrip[v] = NoTrip /\ onTrip' = [onTrip EXCEPT ![v] = t]
           /\ onTrip' \in [Vehicles -> Trips \cup {NoTrip}]
           /\ calls' \in [Workers -> CallRow] /\ \A u \in Workers : u # w => calls'[u] = calls[u]
           /\ calls'[w].stage = "take" /\ calls'[w].vehicle = v /\ calls'[w].trip = t
           /\ UNCHANGED <<live, archive, mirror, bookings, holds>>
<1>1. calls' = [calls EXCEPT ![w].stage = "take"] /\ calls[w].trip \in Trips \cup {NoTrip}
  BY DEF TripOpen, TypeOK, CallRow
<1>. QED  BY <1>1, StageIs DEF TripOpen, TypeOK

LEMMA TripCloseIs ==
    ASSUME TypeOK, NEW w \in Workers, NEW v \in Vehicles, TripClose(w, v)
    PROVE  /\ calls[w].stage = "rest" /\ onTrip[v] # NoTrip /\ onTrip' = [onTrip EXCEPT ![v] = NoTrip]
           /\ onTrip' \in [Vehicles -> Trips \cup {NoTrip}]
           /\ calls' \in [Workers -> CallRow] /\ \A u \in Workers : u # w => calls'[u] = calls[u]
           /\ calls'[w].stage = "return" /\ calls'[w].vehicle = v
           /\ UNCHANGED <<live, archive, mirror, bookings, holds>>
<1>1. calls' = [calls EXCEPT ![w] = Returning(v)]
  BY DEF TripClose, Returning
<1>. QED  BY <1>1, ReturningIs DEF TripClose, TypeOK

LEMMA CallStepTypes ==
    ASSUME TypeOK, NEW w \in Workers, CallStep(w)
    PROVE  TypeOK' /\ mirror' = mirror /\ \A u \in Workers : u # w => calls'[u] = calls[u]
<1>f. ASSUME Finish(w) PROVE calls' \in [Workers -> CallRow] /\ \A u \in Workers : u # w => calls'[u] = calls[u]
  BY <1>f, FinishIs DEF TypeOK
<1>v. ASSUME UNCHANGED <<live, archive, mirror>> PROVE VehicleTypeOK'
  BY <1>v DEF TypeOK, VehicleTypeOK
<1>1. ASSUME NEW b \in Bookings, NEW x \in Windows, NEW v \in Vehicles \cup {NoVehicle}, CreateRead(w, b, x, v)
      PROVE  TypeOK' /\ mirror' = mirror /\ \A u \in Workers : u # w => calls'[u] = calls[u]
  BY <1>1, <1>v, CreateReadIs DEF TypeOK
<1>2. ASSUME NEW b \in Bookings, NEW edits \in SUBSET {"vehicle", "window"} \ {{}},
             NEW v \in Vehicles \cup {NoVehicle}, NEW x \in Windows, UpdateRead(w, b, edits, v, x)
      PROVE  TypeOK' /\ mirror' = mirror /\ \A u \in Workers : u # w => calls'[u] = calls[u]
  BY <1>2, <1>v, UpdateReadIs DEF TypeOK
<1>3. ASSUME NEW b \in Bookings, NEW next \in {"departed", "completed", "cancelled"}, MoveRead(w, b, next)
      PROVE  TypeOK' /\ mirror' = mirror /\ \A u \in Workers : u # w => calls'[u] = calls[u]
  BY <1>3, <1>v, MoveReadIs DEF TypeOK
<1>4. CASE CreateInsert(w)
  BY <1>4, <1>v, <1>f, InsertIs DEF TypeOK, CreateInsert
<1>5. CASE UpdateWrite(w)
  BY <1>5, <1>v, <1>f, UpdateIs DEF TypeOK, UpdateWrite
<1>6. CASE MoveWrite(w)
  BY <1>6, <1>v, MoveIs, MoveWriteIs DEF TypeOK, MoveWrite
<1>7. CASE Occupy(w)
  <2>1. VehicleTypeOK' /\ mirror' = mirror
    BY <1>7, SetStatusIs DEF Occupy, TypeOK, VehicleStates
  <2>. QED  BY <1>7, <1>f, <2>1 DEF Occupy, TypeOK
<1>8. CASE ReleaseRead(w)
  BY <1>8, <1>v, ReleaseReadIs DEF TypeOK, ReleaseRead
<1>9. CASE Free(w)
  <2>1. VehicleTypeOK' /\ mirror' = mirror
    BY <1>9, SetStatusIs DEF Free, TypeOK, VehicleStates
  <2>. QED  BY <1>9, <1>f, <2>1 DEF Free, TypeOK
<1>10. CASE Abandon(w)
  BY <1>10, <1>v, <1>f DEF Abandon, TypeOK
<1>11. ASSUME NEW v \in Vehicles, NEW t \in Trips, TripRead(w, v, t)
       PROVE  TypeOK' /\ mirror' = mirror /\ \A u \in Workers : u # w => calls'[u] = calls[u]
  BY <1>11, <1>v, TripReadIs DEF TypeOK
<1>12. CASE TripOpen(w)
  BY <1>12, <1>v, TripOpenIs DEF TypeOK
<1>13. CASE TripRefused(w)
  BY <1>13, <1>v, <1>f DEF TripRefused, TypeOK
<1>14. CASE TripTake(w)
  <2>1. calls[w].trip \in Trips \cup {NoTrip}
    BY DEF TypeOK, CallRow
  <2>2. VehicleTypeOK' /\ mirror' = mirror
    BY <1>14, <2>1, SetStatusIs DEF TripTake, TypeOK, VehicleStates
  <2>. QED  BY <1>14, <1>f, <2>2 DEF TripTake, TypeOK
<1>15. ASSUME NEW v \in Vehicles, TripClose(w, v)
       PROVE  TypeOK' /\ mirror' = mirror /\ \A u \in Workers : u # w => calls'[u] = calls[u]
  BY <1>15, <1>v, TripCloseIs DEF TypeOK
<1>16. CASE TripReturn(w)
  <2>1. VehicleTypeOK' /\ mirror' = mirror
    BY <1>16, SetStatusIs DEF TripReturn, TypeOK, VehicleStates
  <2>. QED  BY <1>16, <1>f, <2>1 DEF TripReturn, TypeOK
<1>. QED  BY <1>1, <1>2, <1>3, <1>4, <1>5, <1>6, <1>7, <1>8, <1>9, <1>10, <1>11, <1>12, <1>13, <1>14, <1>15, <1>16
         DEF CallStep

\* What the other users of the fleet leave alone.
LEMMA EnvironmentTypes ==
    ASSUME TypeOK, Environment
    PROVE  TypeOK' /\ UNCHANGED <<mirror, bookings, onTrip, calls>>
<1>v. ASSUME UNCHANGED <<live, archive, mirror>> PROVE VehicleTypeOK'
  BY <1>v DEF TypeOK, VehicleTypeOK
<1>1. ASSUME NEW a \in Approvals, ApprovalEnds(a) PROVE TypeOK' /\ UNCHANGED <<mirror, bookings, onTrip, calls>>
  BY <1>1, <1>v DEF ApprovalEnds, TypeOK, HoldRow, NoHold
<1>2. ASSUME NEW a \in Approvals, NEW v \in Vehicles, NEW x \in Windows, ApprovalTakes(a, v, x)
      PROVE TypeOK' /\ UNCHANGED <<mirror, bookings, onTrip, calls>>
  BY <1>2, <1>v DEF ApprovalTakes, TypeOK, HoldRow
<1>3. ASSUME NEW v \in Vehicles, NEW s \in {"idle", "maintenance"}, OperatorSwitches(v, s)
      PROVE TypeOK' /\ UNCHANGED <<mirror, bookings, onTrip, calls>>
  <2>1. VehicleTypeOK' /\ mirror' = mirror
    BY <1>3, SetStatusIs DEF OperatorSwitches, TypeOK, VehicleStates
  <2>. QED  BY <1>3, <2>1 DEF OperatorSwitches, TypeOK
<1>. QED  BY <1>1, <1>2, <1>3 DEF Environment

LEMMA TelemetryTypes ==
    ASSUME TypeOK, NEW v \in Reporting, Telemetry(v)
    PROVE  TypeOK' /\ UNCHANGED <<bookings, holds, onTrip, calls>>
<1>1. VehicleTypeOK'
  BY TelemetryIs, ReportingAssumption DEF TypeOK, Telemetry
<1>. QED  BY <1>1 DEF Telemetry, TypeOK

LEMMA TypesKept == ASSUME TypeOK, UNCHANGED vars PROVE TypeOK'
  BY DEF TypeOK, VehicleTypeOK, vars

LEMMA InitTypes == ASSUME Init PROVE TypeOK
<1>1. VehicleTypeOK
  BY DEF Init, VehicleInit, VehicleTypeOK, LiveRow, MirrorRow, MirrorAtRest, VehicleStates
<1>. QED  BY <1>1, RestIsCall DEF Init, TypeOK, BookingRow, HoldRow, NoHold

LEMMA SerialIsNext == SerialNext => Next
  BY DEF SerialNext, Next

\* Bookings, vehicles, holds and calls keep their types, whatever calls and
\* other users of the fleet interleave (booking/service.go).
THEOREM TypeCorrect == Spec => []TypeOK
<1>1. TypeOK /\ [Next]_vars => TypeOK'
  BY CallStepTypes, EnvironmentTypes, TelemetryTypes, TypesKept DEF Next
<1>. QED  BY <1>1, InitTypes, PTL DEF Spec

(***************************************************************************)
(* One thing at a time: what a call has read of its booking is still so    *)
(* when it writes.                                                         *)
(***************************************************************************)
OneBusy == \A u, w \in Workers : calls[u].stage # "rest" /\ calls[w].stage # "rest" => u = w

\* No report is half-way while a call is.
NoReport == \A w \in Workers, v \in Vehicles : calls[w].stage # "rest" => mirror[v].stage = "rest"

RowFact(c) ==
    /\ c.stage = "insert" => c.booking \in Bookings /\ bookings[c.booking].status = "absent"
    /\ c.stage = "edit" => c.booking \in Bookings /\ bookings[c.booking].status = "reserved"
    /\ c.stage = "move" => /\ c.booking \in Bookings
                           /\ <<bookings[c.booking].status, c.next>> \in Moves
                           /\ c.vehicle = bookings[c.booking].vehicle
                           /\ c.next = "departed" => CanDepart(c.vehicle)
    /\ c.stage = "open" => /\ c.vehicle \in Vehicles /\ c.trip \in Trips
                           /\ archive[c.vehicle] \in {"idle", "charging"}
                           /\ \A u \in Vehicles : onTrip[u] # c.trip

SerialInv == TypeOK /\ OneBusy /\ NoReport /\ \A u \in Workers : RowFact(calls[u])

LEMMA SerialInit == ASSUME Init PROVE SerialInv /\ \A u \in Workers : calls[u].stage = "rest"
<1>1. TypeOK /\ \A u \in Workers : calls[u].stage = "rest"
  BY InitTypes, RestIsCall DEF Init
<1>. QED  BY <1>1 DEF SerialInv, OneBusy, NoReport, RowFact

\* While one worker moves, the others rest.
LEMMA OthersRest ==
    ASSUME SerialInv, NEW w \in Workers, Quiet \/ calls[w].stage # "rest", CallStep(w)
    PROVE  /\ TypeOK' /\ OneBusy' /\ NoReport'
           /\ \A u \in Workers : u # w => calls[u].stage = "rest" /\ calls'[u].stage = "rest"
           /\ mirror' = mirror /\ \A v \in Vehicles : mirror[v].stage = "rest"
<1>1. \A u \in Workers : u # w => calls[u].stage = "rest"
  BY DEF SerialInv, OneBusy, Quiet, CallsDone
<1>2. TypeOK' /\ mirror' = mirror /\ \A u \in Workers : u # w => calls'[u] = calls[u]
  BY CallStepTypes DEF SerialInv
<1>3. \A v \in Vehicles : mirror[v].stage = "rest"
  BY DEF SerialInv, NoReport, Quiet
<1>. QED  BY <1>1, <1>2, <1>3 DEF OneBusy, NoReport

\* After these steps the call says nothing of its booking any more.
Late(w) ==
    \/ MoveWrite(w) \/ ReleaseRead(w) \/ CreateInsert(w) \/ UpdateWrite(w) \/ Occupy(w) \/ Free(w) \/ Abandon(w)
    \/ TripOpen(w) \/ TripRefused(w) \/ TripTake(w) \/ TripReturn(w) \/ \E v \in Vehicles : TripClose(w, v)

LEMMA PastTheRow ==
    ASSUME TypeOK, NEW w \in Workers, Late(w)
    PROVE  calls'[w].stage \notin {"insert", "edit", "move", "open"}
<1>1. CASE MoveWrite(w)
  BY <1>1, MoveWriteIs, RestIsCall
<1>2. CASE ReleaseRead(w)
  BY <1>2, ReleaseReadIs, RestIsCall
<1>3. CASE Finish(w)
  BY <1>3, FinishIs, RestIsCall DEF TypeOK
<1>4. CASE TripOpen(w)
  BY <1>4, TripOpenIs
<1>5. ASSUME NEW v \in Vehicles, TripClose(w, v) PROVE calls'[w].stage \notin {"insert", "edit", "move", "open"}
  BY <1>5, TripCloseIs
<1>. QED  BY <1>1, <1>2, <1>3, <1>4, <1>5
         DEF Late, CreateInsert, UpdateWrite, Occupy, Free, Abandon, TripRefused, TripTake, TripReturn

LEMMA SerialCallStep ==
    ASSUME SerialInv, NEW w \in Workers, Quiet \/ calls[w].stage # "rest", CallStep(w)
    PROVE  SerialInv'
<1>t. TypeOK
  BY DEF SerialInv
<1>o. TypeOK' /\ OneBusy' /\ NoReport' /\ \A u \in Workers : u # w => calls'[u].stage = "rest"
  BY OthersRest
<1>1. ASSUME NEW b \in Bookings, NEW x \in Windows, NEW v \in Vehicles \cup {NoVehicle}, CreateRead(w, b, x, v)
      PROVE  RowFact(calls[w])'
  BY <1>1, <1>t, CreateReadIs DEF RowFact
<1>2. ASSUME NEW b \in Bookings, NEW edits \in SUBSET {"vehicle", "window"} \ {{}},
             NEW v \in Vehicles \cup {NoVehicle}, NEW x \in Windows, UpdateRead(w, b, edits, v, x)
      PROVE  RowFact(calls[w])'
  BY <1>2, <1>t, UpdateReadIs DEF RowFact
<1>3. ASSUME NEW b \in Bookings, NEW next \in {"departed", "completed", "cancelled"}, MoveRead(w, b, next)
      PROVE  RowFact(calls[w])'
  <2>. DEFINE c == calls'[w]
  <2>1. /\ c.stage = "move" /\ c.booking = b /\ c.next = next /\ c.vehicle = bookings[b].vehicle
        /\ <<bookings[b].status, next>> \in Moves
        /\ next = "departed" => CanDepart(bookings[b].vehicle)
        /\ UNCHANGED <<live, archive, bookings>>
    BY <1>3, <1>t, MoveReadIs
  <2>. HIDE DEF c
  <2>. QED  BY <2>1 DEF RowFact, CanDepart, c
<1>4. ASSUME NEW v \in Vehicles, NEW t \in Trips, TripRead(w, v, t)
      PROVE  RowFact(calls[w])'
  BY <1>4, <1>t, TripReadIs DEF RowFact
<1>5. ASSUME Late(w)
      PROVE  RowFact(calls[w])'
  BY <1>5, <1>t, PastTheRow DEF RowFact
<1>6. RowFact(calls[w])'
  BY <1>1, <1>2, <1>3, <1>4, <1>5 DEF CallStep, Late
<1>7. \A u \in Workers : RowFact(calls[u])'
  BY <1>o, <1>6 DEF RowFact
<1>. QED  BY <1>o, <1>7 DEF SerialInv

LEMMA SerialEnvironment ==
    ASSUME SerialInv, Quiet, Environment
    PROVE  /\ SerialInv' /\ UNCHANGED <<mirror, bookings, onTrip>> /\ \A u \in Workers : calls'[u].stage = "rest"
<1>1. TypeOK' /\ UNCHANGED <<mirror, bookings, onTrip, calls>>
  BY EnvironmentTypes DEF SerialInv
<1>2. \A u \in Workers : calls'[u].stage = "rest"
  BY <1>1 DEF Quiet, CallsDone
<1>. QED  BY <1>1, <1>2 DEF SerialInv, OneBusy, NoReport, RowFact

LEMMA SerialTelemetry ==
    ASSUME SerialInv, NEW v \in Reporting, Quiet \/ mirror[v].stage # "rest", Telemetry(v)
    PROVE  /\ SerialInv' /\ UNCHANGED <<bookings, holds, onTrip, calls>>
           /\ \A u \in Workers : calls[u].stage = "rest" /\ calls'[u].stage = "rest"
<1>1. TypeOK' /\ UNCHANGED <<bookings, holds, onTrip, calls>>
  BY TelemetryTypes DEF SerialInv
<1>2. \A u \in Workers : calls[u].stage = "rest" /\ calls'[u].stage = "rest"
  BY <1>1, ReportingAssumption DEF Quiet, CallsDone, SerialInv, NoReport
<1>. QED  BY <1>1, <1>2 DEF SerialInv, OneBusy, NoReport, RowFact

LEMMA SerialKept == ASSUME SerialInv, UNCHANGED vars PROVE SerialInv'
  BY TypesKept DEF SerialInv, OneBusy, NoReport, RowFact, CanDepart, vars

(***************************************************************************)
(* No double booking.  The check of Create and Update saw no booking too   *)
(* close, and none came since.                                             *)
(***************************************************************************)
WindowFact(c) ==
    /\ c.stage \in {"insert", "edit"} => c.window \in Windows
    /\ c.stage = "insert" /\ c.vehicle # NoVehicle => ~BookingClash(c.vehicle, c.window, NoBooking)
    /\ c.stage = "edit" => /\ "vehicle" \notin c.edits => c.vehicle = bookings[c.booking].vehicle
                           /\ "window" \notin c.edits => c.window = bookings[c.booking].window
                           /\ c.vehicle # NoVehicle => ~BookingClash(c.vehicle, c.window, c.booking)

\* A booking taken has a window.
WindowsTaken == \A b \in Bookings : bookings[b].status # "absent" => bookings[b].window \in Windows

WindowInv == SerialInv /\ NoDoubleBooking /\ WindowsTaken /\ \A u \in Workers : WindowFact(calls[u])

LEMMA FarIsApart ==
    ASSUME NEW x \in Windows, NEW y \in Windows, ~TooClose(x, y)
    PROVE  Apart(x, y) /\ Apart(y, x)
  BY WindowsAssumption DEF TooClose, Apart, Turnaround

\* One booking takes a vehicle for a window none of the others is too close to.
LEMMA PlacedApart ==
    ASSUME NoDoubleBooking, WindowsTaken, NEW d \in Bookings,
           NEW v, NEW x \in Windows,
           \A b \in Bookings \ {d} : ~(bookings[b].status \in Active /\ bookings[b].vehicle = v /\ TooClose(bookings[b].window, x))
                                     \/ v = NoVehicle,
           \A b \in Bookings : b # d => bookings'[b] = bookings[b],
           bookings'[d].status = "reserved", bookings'[d].vehicle = v, bookings'[d].window = x
    PROVE  NoDoubleBooking' /\ WindowsTaken'
<1>1. WindowsTaken'
  BY DEF WindowsTaken
<1>2. ASSUME NEW b \in Bookings, b # d, bookings[b].status \in {"reserved", "departed"},
             v \in Vehicles, bookings[b].vehicle = v
      PROVE  Apart(bookings[b].window, x) /\ Apart(x, bookings[b].window)
  <2>1. bookings[b].window \in Windows /\ ~TooClose(bookings[b].window, x)
    BY <1>2, NoVehicleAssumption DEF WindowsTaken, Active
  <2>. QED  BY <2>1, FarIsApart
<1>3. NoDoubleBooking'
  BY <1>2 DEF NoDoubleBooking
<1>. QED  BY <1>1, <1>3

LEMMA WindowCallStep ==
    ASSUME WindowInv, NEW w \in Workers, Quiet \/ calls[w].stage # "rest", CallStep(w)
    PROVE  WindowInv'
<1>t. /\ SerialInv /\ TypeOK /\ NoDoubleBooking /\ WindowsTaken
      /\ RowFact(calls[w]) /\ WindowFact(calls[w]) /\ calls[w] \in CallRow
  BY DEF WindowInv, SerialInv, TypeOK
<1>s. SerialInv'
  BY <1>t, SerialCallStep
<1>o. \A u \in Workers : u # w => calls'[u].stage = "rest"
  BY <1>t, OthersRest
<1>u. ASSUME UNCHANGED bookings PROVE NoDoubleBooking' /\ WindowsTaken'
  BY <1>t, <1>u DEF NoDoubleBooking, WindowsTaken
<1>1. ASSUME NEW b \in Bookings, NEW x \in Windows, NEW v \in Vehicles \cup {NoVehicle}, CreateRead(w, b, x, v)
      PROVE  WindowFact(calls[w])' /\ NoDoubleBooking' /\ WindowsTaken'
  BY <1>1, <1>t, <1>u, CreateReadIs DEF WindowFact, BookingClash
<1>2. ASSUME NEW b \in Bookings, NEW edits \in SUBSET {"vehicle", "window"} \ {{}},
             NEW v \in Vehicles \cup {NoVehicle}, NEW x \in Windows, UpdateRead(w, b, edits, v, x)
      PROVE  WindowFact(calls[w])' /\ NoDoubleBooking' /\ WindowsTaken'
  <2>1. bookings[b].window \in Windows
    BY <1>2, <1>t, UpdateReadIs DEF WindowsTaken
  <2>. QED  BY <1>2, <1>t, <1>u, <2>1, UpdateReadIs DEF WindowFact, BookingClash
<1>3. ASSUME NEW b \in Bookings, NEW next \in {"departed", "completed", "cancelled"}, MoveRead(w, b, next)
      PROVE  WindowFact(calls[w])' /\ NoDoubleBooking' /\ WindowsTaken'
  BY <1>3, <1>t, <1>u, MoveReadIs DEF WindowFact
<1>r. ASSUME Late(w)
      PROVE  WindowFact(calls[w])'
  BY <1>r, <1>t, PastTheRow DEF WindowFact
<1>4. ASSUME CreateInsert(w) PROVE NoDoubleBooking' /\ WindowsTaken'
  <2>. DEFINE d == calls[w].booking
              v == calls[w].vehicle
              x == calls[w].window
  <2>1. calls[w].stage = "insert" /\ d \in Bookings /\ x \in Windows /\ bookings[d].status = "absent"
        /\ (v # NoVehicle => ~BookingClash(v, x, NoBooking))
    BY <1>4, <1>t DEF CreateInsert, RowFact, WindowFact
  <2>2. /\ \A b \in Bookings : b # d => bookings'[b] = bookings[b]
        /\ bookings'[d].status = "reserved" /\ bookings'[d].vehicle = v /\ bookings'[d].window = x
    BY <1>4, <1>t, <2>1, InsertIs
  <2>3. \A b \in Bookings \ {d} : ~(bookings[b].status \in Active /\ bookings[b].vehicle = v /\ TooClose(bookings[b].window, x))
                                  \/ v = NoVehicle
    BY <2>1, NoBookingAssumption DEF BookingClash
  <2>. HIDE DEF d, v, x
  <2>. QED  BY <1>t, <2>1, <2>2, <2>3, PlacedApart
<1>5. ASSUME UpdateWrite(w) PROVE NoDoubleBooking' /\ WindowsTaken'
  <2>. DEFINE d == calls[w].booking
              v == calls[w].vehicle
              x == calls[w].window
  <2>0. calls[w].stage = "edit"
    BY <1>5 DEF UpdateWrite
  <2>1. d \in Bookings /\ x \in Windows /\ bookings[d].status = "reserved"
        /\ (v # NoVehicle => ~BookingClash(v, x, d))
    BY <1>t, <2>0 DEF RowFact, WindowFact
  <2>2. /\ \A b \in Bookings : b # d => bookings'[b] = bookings[b]
        /\ bookings'[d].status = "reserved" /\ bookings'[d].vehicle = v /\ bookings'[d].window = x
    BY <1>5, <1>t, <2>0, <2>1, UpdateIs DEF WindowFact
  <2>3. \A b \in Bookings \ {d} : ~(bookings[b].status \in Active /\ bookings[b].vehicle = v /\ TooClose(bookings[b].window, x))
                                  \/ v = NoVehicle
    BY <2>1 DEF BookingClash
  <2>. HIDE DEF d, v, x
  <2>. QED  BY <1>t, <2>1, <2>2, <2>3, PlacedApart
<1>6. ASSUME MoveWrite(w) PROVE NoDoubleBooking' /\ WindowsTaken'
  <2>. DEFINE d == calls[w].booking
  <2>1. d \in Bookings /\ <<bookings[d].status, calls[w].next>> \in Moves
    BY <1>6, <1>t DEF MoveWrite, RowFact
  <2>2. bookings[d].status \in {"reserved", "departed"} /\ bookings[d].status # "absent"
    BY <2>1 DEF Moves
  <2>3. /\ \A b \in Bookings : b # d => bookings'[b] = bookings[b]
        /\ bookings'[d].vehicle = bookings[d].vehicle /\ bookings'[d].window = bookings[d].window
    BY <1>6, <1>t, <2>1, MoveIs
  <2>. HIDE DEF d
  <2>4. \A b \in Bookings : /\ bookings'[b].vehicle = bookings[b].vehicle /\ bookings'[b].window = bookings[b].window
                            /\ bookings'[b].status \in {"reserved", "departed"} => bookings[b].status \in {"reserved", "departed"}
                            /\ bookings'[b].status # "absent" => bookings[b].status # "absent"
    BY <2>2, <2>3
  <2>. QED  BY <1>t, <2>4 DEF NoDoubleBooking, WindowsTaken
<1>7. ASSUME \/ ReleaseRead(w) \/ Occupy(w) \/ Free(w) \/ Abandon(w)
             \/ TripOpen(w) \/ TripRefused(w) \/ TripTake(w) \/ TripReturn(w) \/ \E v \in Vehicles : TripClose(w, v)
      PROVE  NoDoubleBooking' /\ WindowsTaken'
  BY <1>7, <1>u DEF ReleaseRead, Occupy, Free, Abandon, TripOpen, TripRefused, TripTake, TripReturn, TripClose
<1>8. ASSUME NEW v \in Vehicles, NEW t \in Trips, TripRead(w, v, t)
      PROVE  WindowFact(calls[w])' /\ NoDoubleBooking' /\ WindowsTaken'
  BY <1>8, <1>t, <1>u, TripReadIs DEF WindowFact
<1>9. WindowFact(calls[w])' /\ NoDoubleBooking' /\ WindowsTaken'
  BY <1>1, <1>2, <1>3, <1>r, <1>4, <1>5, <1>6, <1>7, <1>8 DEF CallStep, Late
<1>10. \A u \in Workers : WindowFact(calls[u])'
  BY <1>o, <1>9 DEF WindowFact
<1>. QED  BY <1>s, <1>9, <1>10 DEF WindowInv

LEMMA WindowInit == ASSUME Init PROVE WindowInv
<1>1. SerialInv /\ \A u \in Workers : calls[u].stage = "rest"
  BY SerialInit
<1>2. \A b \in Bookings : bookings[b].status = "absent"
  BY DEF Init
<1>. QED  BY <1>1, <1>2 DEF WindowInv, NoDoubleBooking, WindowsTaken, WindowFact

LEMMA WindowNext == WindowInv /\ [SerialNext]_vars => WindowInv'
<1>. SUFFICES ASSUME WindowInv, [SerialNext]_vars PROVE WindowInv'
  OBVIOUS
<1>1. ASSUME Quiet, Environment PROVE WindowInv'
  <2>1. SerialInv' /\ UNCHANGED bookings /\ \A u \in Workers : calls'[u].stage = "rest"
    BY <1>1, SerialEnvironment DEF WindowInv
  <2>. QED  BY <2>1 DEF WindowInv, NoDoubleBooking, WindowsTaken, WindowFact
<1>2. ASSUME NEW v \in Reporting, Quiet \/ mirror[v].stage # "rest", Telemetry(v) PROVE WindowInv'
  <2>1. SerialInv' /\ UNCHANGED bookings /\ \A u \in Workers : calls'[u].stage = "rest"
    BY <1>2, SerialTelemetry DEF WindowInv
  <2>. QED  BY <2>1 DEF WindowInv, NoDoubleBooking, WindowsTaken, WindowFact
<1>3. ASSUME UNCHANGED vars PROVE WindowInv'
  BY <1>3, SerialKept DEF vars, WindowInv, NoDoubleBooking, WindowsTaken, WindowFact, BookingClash
<1>. QED  BY <1>1, <1>2, <1>3, WindowCallStep DEF SerialNext

\* With one call at a time no vehicle is booked twice, whatever windows there
\* are and whatever calls are cut short (booking/service.go, checkVehicle).
THEOREM BookingsApart == SerialSpec => []NoDoubleBooking
<1>1. WindowInv => NoDoubleBooking
  BY DEF WindowInv
<1>. QED  BY <1>1, WindowInit, WindowNext, PTL DEF SerialSpec

(***************************************************************************)
(* A release spares the trip its vehicle names: between the look at the    *)
(* live row and the write nobody else gets to write it.                    *)
(***************************************************************************)
ReleaseFact(c) == c.stage = "free" => live[c.vehicle].trip = NoTrip

ReleaseInv == SerialInv /\ \A u \in Workers : ReleaseFact(calls[u])

\* Only the look itself leads to a release.
LEMMA OnlyLookReleases ==
    ASSUME TypeOK, NEW w \in Workers, CallStep(w), calls'[w].stage = "free"
    PROVE  ReleaseRead(w)
<1>1. ASSUME NEW b \in Bookings, NEW x \in Windows, NEW v \in Vehicles \cup {NoVehicle}, CreateRead(w, b, x, v)
      PROVE  FALSE
  BY <1>1, CreateReadIs
<1>2. ASSUME NEW b \in Bookings, NEW edits \in SUBSET {"vehicle", "window"} \ {{}},
             NEW v \in Vehicles \cup {NoVehicle}, NEW x \in Windows, UpdateRead(w, b, edits, v, x)
      PROVE  FALSE
  BY <1>2, UpdateReadIs
<1>3. ASSUME NEW b \in Bookings, NEW next \in {"departed", "completed", "cancelled"}, MoveRead(w, b, next)
      PROVE  FALSE
  BY <1>3, MoveReadIs
<1>4. ASSUME Finish(w) PROVE FALSE
  BY <1>4, FinishIs, RestIsCall DEF TypeOK
<1>5. CASE MoveWrite(w)
  BY <1>5, MoveWriteIs, RestIsCall
<1>6. ASSUME NEW v \in Vehicles, NEW t \in Trips, TripRead(w, v, t) PROVE FALSE
  BY <1>6, TripReadIs
<1>7. CASE TripOpen(w)
  BY <1>7, TripOpenIs
<1>8. ASSUME NEW v \in Vehicles, TripClose(w, v) PROVE FALSE
  BY <1>8, TripCloseIs
<1>. QED  BY <1>1, <1>2, <1>3, <1>4, <1>5, <1>6, <1>7, <1>8
         DEF CallStep, CreateInsert, UpdateWrite, Occupy, Free, Abandon, TripRefused, TripTake, TripReturn

LEMMA ReleaseNext == ReleaseInv /\ [SerialNext]_vars => ReleaseInv'
<1>. SUFFICES ASSUME ReleaseInv, [SerialNext]_vars PROVE ReleaseInv'
  OBVIOUS
<1>1. ASSUME NEW w \in Workers, Quiet \/ calls[w].stage # "rest", CallStep(w) PROVE ReleaseInv'
  <2>1. SerialInv' /\ \A u \in Workers : u # w => calls'[u].stage = "rest"
    BY <1>1, SerialCallStep, OthersRest DEF ReleaseInv
  <2>2. ASSUME calls'[w].stage = "free" PROVE live'[calls'[w].vehicle].trip = NoTrip
    <3>1. TypeOK /\ ReleaseRead(w)
      BY <1>1, <2>2, OnlyLookReleases DEF ReleaseInv, SerialInv
    <3>. QED  BY <2>2, <3>1, ReleaseReadIs, RestIsCall DEF ReleaseRead, OursToRelease
  <2>. QED  BY <2>1, <2>2 DEF ReleaseInv, ReleaseFact
<1>2. ASSUME Quiet, Environment PROVE ReleaseInv'
  BY <1>2, SerialEnvironment DEF ReleaseInv, ReleaseFact
<1>3. ASSUME NEW v \in Reporting, Quiet \/ mirror[v].stage # "rest", Telemetry(v) PROVE ReleaseInv'
  BY <1>3, SerialTelemetry DEF ReleaseInv, ReleaseFact
<1>4. ASSUME UNCHANGED vars PROVE ReleaseInv'
  BY <1>4, SerialKept DEF ReleaseInv, ReleaseFact, vars
<1>. QED  BY <1>1, <1>2, <1>3, <1>4 DEF SerialNext

\* With one call at a time a release takes no vehicle from the trip that its
\* live row names, whatever calls were cut short before (booking/service.go,
\* releaseVehicle).
THEOREM ReleasesSpareTrips == SerialSpec => TripKeepsVehicle
<1>1. ASSUME Init PROVE ReleaseInv
  BY <1>1, SerialInit DEF ReleaseInv, ReleaseFact
<1>2. ReleaseInv /\ [SerialNext]_vars => [\A w \in Workers : Free(w) => live[calls[w].vehicle].trip = NoTrip]_vars
  BY DEF ReleaseInv, ReleaseFact, Free
<1>. QED  BY <1>1, <1>2, ReleaseNext, PTL DEF SerialSpec, TripKeepsVehicle

(***************************************************************************)
(* If no call is cut short, both tables of a vehicle and the trips tell    *)
(* the same story, except for the vehicle of a trip that a call has yet to *)
(* take or to return.                                                      *)
(***************************************************************************)
Agrees(v) == live[v].trip = onTrip[v] /\ (onTrip[v] # NoTrip => live[v].status = "in_use")

TripPassing(v) == \E w \in Workers : calls[w].stage \in {"take", "return"} /\ calls[w].vehicle = v

FleetFact(c) ==
    /\ c.stage \in {"occupy", "check", "free", "take", "return"} => c.vehicle \in Vehicles
    /\ c.stage \in {"occupy", "free", "return"} => onTrip[c.vehicle] = NoTrip
    /\ c.stage = "take" => /\ c.trip \in Trips /\ onTrip[c.vehicle] = c.trip
                           /\ live[c.vehicle].status # "in_use" /\ live[c.vehicle].trip = NoTrip
    /\ c.stage = "return" => live[c.vehicle].status = "in_use" /\ live[c.vehicle].trip # NoTrip

FleetInv ==
    /\ SerialInv
    /\ \A v \in Vehicles : Mirrored(v) /\ (~TripPassing(v) => Agrees(v))
    /\ \A u \in Workers : FleetFact(calls[u])

\* As far as one worker's step goes, only its own vehicle can be in passing.
LEMMA FleetAssembled ==
    ASSUME SerialInv', NEW w \in Workers, \A u \in Workers : u # w => calls'[u].stage = "rest",
           FleetFact(calls[w])', \A v \in Vehicles : Mirrored(v)',
           \A v \in Vehicles : (calls'[w].stage \notin {"take", "return"} \/ calls'[w].vehicle # v) => Agrees(v)'
    PROVE  FleetInv'
<1>1. \A u \in Workers : FleetFact(calls[u])'
  BY DEF FleetFact
<1>2. \A v \in Vehicles : ~TripPassing(v)' => Agrees(v)'
  BY DEF TripPassing
<1>. QED  BY <1>1, <1>2 DEF FleetInv

\* One vehicle is written, in both tables at once.
LEMMA WrittenIs ==
    ASSUME VehicleTypeOK, NEW v \in Vehicles, NEW s \in VehicleStates, NEW t \in Trips \cup {NoTrip}, SetStatus(v, s, t),
           UNCHANGED onTrip, \A u \in Vehicles : Mirrored(u), mirror[v].stage = "rest"
    PROVE  /\ \A u \in Vehicles : Mirrored(u)'
           /\ \A u \in Vehicles : u # v => live'[u] = live[u] /\ (Agrees(u) => Agrees(u)')
           /\ live'[v].status = s /\ live'[v].trip = t
<1>1. /\ \A u \in Vehicles : u # v => live'[u] = live[u] /\ archive'[u] = archive[u]
      /\ live'[v].status = s /\ live'[v].trip = t /\ archive'[v] = s /\ mirror' = mirror
  BY SetStatusIs
<1>. QED  BY <1>1 DEF Mirrored, Agrees

\* A car whose archive row is free is free in the live row.
LEMMA FreeInBoth ==
    ASSUME NEW v, Mirrored(v), archive[v] \in {"idle", "charging"}
    PROVE  live[v].status # "in_use"
  BY DEF Mirrored

LEMMA FleetCallStep ==
    ASSUME ~MayFail, FleetInv, NEW w \in Workers, Quiet \/ calls[w].stage # "rest", CallStep(w)
    PROVE  FleetInv'
<1>t. /\ SerialInv /\ TypeOK /\ VehicleTypeOK /\ RowFact(calls[w]) /\ FleetFact(calls[w]) /\ calls[w] \in CallRow
      /\ \A v \in Vehicles : Mirrored(v)
  BY DEF FleetInv, SerialInv, TypeOK
<1>s. SerialInv'
  BY <1>t, SerialCallStep
<1>o. /\ \A u \in Workers : u # w => calls[u].stage = "rest" /\ calls'[u].stage = "rest"
      /\ mirror' = mirror /\ \A v \in Vehicles : mirror[v].stage = "rest"
  BY <1>t, OthersRest
<1>p. \A v \in Vehicles : (calls[w].stage \notin {"take", "return"} \/ calls[w].vehicle # v) => Agrees(v)
  BY <1>o DEF FleetInv, TripPassing
\* Steps that leave vehicles and trips alone, to a stage with no trip in passing.
<1>k. ASSUME UNCHANGED <<live, archive, onTrip>>, FleetFact(calls[w])',
             calls[w].stage \notin {"take", "return"}, calls'[w].stage \notin {"take", "return"}
      PROVE  FleetInv'
  <2>1. \A v \in Vehicles : Mirrored(v)' /\ Agrees(v)'
    BY <1>t, <1>o, <1>p, <1>k DEF Mirrored, Agrees
  <2>. QED  BY <1>s, <1>o, <1>k, <2>1, FleetAssembled
<1>f. ASSUME Finish(w) PROVE FleetFact(calls[w])' /\ calls'[w].stage = "rest"
  BY <1>f, <1>t, FinishIs, RestIsCall DEF FleetFact, TypeOK
\* A vehicle is written last, and agrees afterwards.
<1>w. ASSUME NEW v \in Vehicles, v = calls[w].vehicle, NEW s \in VehicleStates, NEW t \in Trips \cup {NoTrip},
             SetStatus(v, s, t), Finish(w), UNCHANGED onTrip, t = onTrip[v], t # NoTrip => s = "in_use"
      PROVE  FleetInv'
  <2>1. /\ \A u \in Vehicles : Mirrored(u)'
        /\ \A u \in Vehicles : u # v => (Agrees(u) => Agrees(u)')
        /\ live'[v].status = s /\ live'[v].trip = t
    BY <1>w, <1>t, <1>o, WrittenIs
  <2>2. \A u \in Vehicles : Agrees(u)'
    BY <1>w, <1>p, <2>1 DEF Agrees
  <2>. QED  BY <1>s, <1>o, <1>f, <1>w, <2>1, <2>2, FleetAssembled
<1>1. ASSUME NEW b \in Bookings, NEW x \in Windows, NEW v \in Vehicles \cup {NoVehicle}, CreateRead(w, b, x, v)
      PROVE  FleetInv'
  <2>1. calls[w].stage = "rest" /\ calls'[w].stage = "insert" /\ UNCHANGED <<live, archive, onTrip>>
    BY <1>1, <1>t, CreateReadIs
  <2>. QED  BY <1>k, <2>1 DEF FleetFact
<1>2. ASSUME NEW b \in Bookings, NEW edits \in SUBSET {"vehicle", "window"} \ {{}},
             NEW v \in Vehicles \cup {NoVehicle}, NEW x \in Windows, UpdateRead(w, b, edits, v, x)
      PROVE  FleetInv'
  <2>1. calls[w].stage = "rest" /\ calls'[w].stage = "edit" /\ UNCHANGED <<live, archive, onTrip>>
    BY <1>2, <1>t, UpdateReadIs
  <2>. QED  BY <1>k, <2>1 DEF FleetFact
<1>3. ASSUME NEW b \in Bookings, NEW next \in {"departed", "completed", "cancelled"}, MoveRead(w, b, next)
      PROVE  FleetInv'
  <2>1. calls[w].stage = "rest" /\ calls'[w].stage = "move" /\ UNCHANGED <<live, archive, onTrip>>
    BY <1>3, <1>t, MoveReadIs
  <2>. QED  BY <1>k, <2>1 DEF FleetFact
<1>4. ASSUME CreateInsert(w) \/ UpdateWrite(w) \/ TripRefused(w)
      PROVE  FleetInv'
  <2>1. calls[w].stage \in {"insert", "edit", "open"} /\ UNCHANGED <<live, archive, onTrip>> /\ Finish(w)
    BY <1>4 DEF CreateInsert, UpdateWrite, TripRefused
  <2>. QED  BY <1>f, <1>k, <2>1
<1>5. ASSUME MoveWrite(w) PROVE FleetInv'
  <2>. DEFINE v == calls[w].vehicle
  <2>1. calls[w].stage = "move" /\ UNCHANGED <<live, archive, onTrip>>
    BY <1>5 DEF MoveWrite
  <2>2. ASSUME calls[w].next = "departed" PROVE v \in Vehicles /\ onTrip[v] = NoTrip
    <3>1. v # NoVehicle /\ archive[v] \in {"idle", "charging"}
      BY <1>t, <2>1, <2>2 DEF RowFact, CanDepart
    <3>2. v \in Vehicles
      BY <1>t, <3>1 DEF CallRow
    <3>. QED  BY <1>t, <1>p, <2>1, <3>1, <3>2, FreeInBoth DEF Agrees
  <2>3. v # NoVehicle => v \in Vehicles
    BY <1>t DEF CallRow
  <2>. HIDE DEF v
  <2>4. \/ calls'[w].stage = "occupy" /\ calls'[w].vehicle = v /\ v \in Vehicles /\ onTrip[v] = NoTrip
        \/ calls'[w].stage = "check" /\ calls'[w].vehicle = v /\ v \in Vehicles
        \/ calls'[w].stage = "rest"
    BY <1>5, <1>t, <2>2, <2>3, MoveWriteIs, RestIsCall DEF v
  <2>5. FleetFact(calls[w])' /\ calls'[w].stage \notin {"take", "return"}
    BY <2>1, <2>4 DEF FleetFact
  <2>. QED  BY <1>k, <2>1, <2>5
<1>6. ASSUME Occupy(w) PROVE FleetInv'
  BY <1>6, <1>t, <1>w DEF Occupy, FleetFact, VehicleStates
<1>7. ASSUME ReleaseRead(w) PROVE FleetInv'
  <2>1. calls[w].stage = "check" /\ UNCHANGED <<live, archive, onTrip>>
    BY <1>7 DEF ReleaseRead
  <2>2. OursToRelease(calls[w].vehicle) => onTrip[calls[w].vehicle] = NoTrip
    BY <1>t, <1>p, <2>1 DEF OursToRelease, Agrees, FleetFact
  <2>3. FleetFact(calls[w])' /\ calls'[w].stage \notin {"take", "return"}
    BY <1>7, <1>t, <2>1, <2>2, ReleaseReadIs, RestIsCall DEF FleetFact
  <2>. QED  BY <1>k, <2>1, <2>3
<1>8. ASSUME Free(w) PROVE FleetInv'
  BY <1>8, <1>t, <1>w DEF Free, FleetFact, VehicleStates
<1>9. ASSUME NEW v \in Vehicles, NEW t \in Trips, TripRead(w, v, t) PROVE FleetInv'
  <2>1. calls[w].stage = "rest" /\ calls'[w].stage = "open" /\ UNCHANGED <<live, archive, onTrip>>
    BY <1>9, <1>t, TripReadIs
  <2>. QED  BY <1>k, <2>1 DEF FleetFact
<1>10. ASSUME TripOpen(w) PROVE FleetInv'
  <2>. DEFINE v == calls[w].vehicle
              t == calls[w].trip
  <2>1. /\ calls[w].stage = "open" /\ onTrip[v] = NoTrip /\ onTrip' = [onTrip EXCEPT ![v] = t]
        /\ onTrip \in [Vehicles -> Trips \cup {NoTrip}]
        /\ calls'[w].stage = "take" /\ calls'[w].vehicle = v /\ calls'[w].trip = t /\ UNCHANGED <<live, archive, mirror>>
    BY <1>10, <1>t, TripOpenIs DEF TypeOK
  <2>2. v \in Vehicles /\ t \in Trips /\ archive[v] \in {"idle", "charging"}
    BY <1>t, <2>1 DEF RowFact
  <2>3. live[v].status # "in_use" /\ live[v].trip = NoTrip
    BY <1>t, <1>p, <2>1, <2>2, FreeInBoth DEF Agrees
  <2>. HIDE DEF v, t
  <2>4. FleetFact(calls[w])'
    BY <2>1, <2>2, <2>3 DEF FleetFact
  <2>5. \A u \in Vehicles : Mirrored(u)' /\ (u # v => Agrees(u)')
    BY <1>t, <1>p, <2>1 DEF Mirrored, Agrees
  <2>. QED  BY <1>s, <1>o, <2>1, <2>4, <2>5, FleetAssembled
<1>11. ASSUME TripTake(w) PROVE FleetInv'
  <2>1. calls[w].vehicle \in Vehicles /\ calls[w].trip \in Trips /\ onTrip[calls[w].vehicle] = calls[w].trip
    BY <1>11, <1>t DEF TripTake, FleetFact
  <2>. QED  BY <1>11, <1>w, <2>1 DEF TripTake, VehicleStates
<1>12. ASSUME NEW v \in Vehicles, TripClose(w, v) PROVE FleetInv'
  <2>1. /\ calls[w].stage = "rest" /\ onTrip[v] # NoTrip /\ onTrip' = [onTrip EXCEPT ![v] = NoTrip]
        /\ onTrip \in [Vehicles -> Trips \cup {NoTrip}]
        /\ calls'[w].stage = "return" /\ calls'[w].vehicle = v /\ UNCHANGED <<live, archive, mirror>>
    BY <1>12, <1>t, TripCloseIs DEF TypeOK
  <2>2. FleetFact(calls[w])'
    BY <1>p, <2>1 DEF FleetFact, Agrees
  <2>3. \A u \in Vehicles : Mirrored(u)' /\ (u # v => Agrees(u)')
    BY <1>t, <1>p, <2>1 DEF Mirrored, Agrees
  <2>. QED  BY <1>s, <1>o, <2>1, <2>2, <2>3, FleetAssembled
<1>13. ASSUME TripReturn(w) PROVE FleetInv'
  BY <1>13, <1>t, <1>w DEF TripReturn, FleetFact, VehicleStates
<1>14. ~Abandon(w)
  BY DEF Abandon
<1>. QED  BY <1>1, <1>2, <1>3, <1>4, <1>5, <1>6, <1>7, <1>8, <1>9, <1>10, <1>11, <1>12, <1>13, <1>14 DEF CallStep

\* What an operator does to one vehicle, and a report to whether it is in use.
Switched(v) == live[v].status # "in_use" /\ live[v].trip = NoTrip
               /\ live'[v].status \in {"idle", "maintenance"} /\ live'[v].trip = NoTrip
Reported(v) == live'[v].trip = live[v].trip /\ (live'[v].status = "in_use" <=> live[v].status = "in_use")

LEMMA EnvironmentIs ==
    ASSUME FleetInv, Quiet, Environment
    PROVE  /\ UNCHANGED <<mirror, onTrip, bookings>>
           /\ \A v \in Vehicles : Mirrored(v)' /\ (Switched(v) \/ Reported(v))
<1>t. TypeOK /\ VehicleTypeOK /\ \A v \in Vehicles : Mirrored(v)
  BY DEF FleetInv, SerialInv, TypeOK
<1>u. UNCHANGED <<mirror, onTrip, bookings>>
  BY <1>t, EnvironmentTypes
<1>1. ASSUME NEW v \in Vehicles, NEW s \in {"idle", "maintenance"}, OperatorSwitches(v, s)
      PROVE  \A u \in Vehicles : Mirrored(u)' /\ (Switched(u) \/ Reported(u))
  <2>1. SetStatus(v, s, NoTrip) /\ archive[v] # "in_use" /\ live[v].trip = NoTrip /\ UNCHANGED onTrip
    BY <1>1 DEF OperatorSwitches
  <2>2. mirror[v].stage = "rest" /\ s \in VehicleStates
    BY DEF Quiet, VehicleStates
  <2>3. /\ \A u \in Vehicles : Mirrored(u)' /\ (u # v => live'[u] = live[u])
        /\ live'[v].status = s /\ live'[v].trip = NoTrip
    BY <1>t, <2>1, <2>2, WrittenIs
  <2>. QED  BY <1>t, <2>1, <2>3 DEF Switched, Reported, Mirrored
<1>2. ASSUME NEW a \in Approvals, ApprovalEnds(a) \/ \E v \in Vehicles, x \in Windows : ApprovalTakes(a, v, x)
      PROVE  \A u \in Vehicles : Mirrored(u)' /\ (Switched(u) \/ Reported(u))
  BY <1>t, <1>2 DEF ApprovalEnds, ApprovalTakes, Mirrored, Reported
<1>. QED  BY <1>u, <1>1, <1>2 DEF Environment

LEMMA ReportIs ==
    ASSUME FleetInv, NEW v \in Reporting, Telemetry(v)
    PROVE  /\ UNCHANGED <<onTrip, bookings>>
           /\ \A u \in Vehicles : Mirrored(u)' /\ Reported(u)
<1>1. VehicleTypeOK /\ v \in Vehicles /\ TelemetryStep(v) /\ \A u \in Vehicles : Mirrored(u)
  BY ReportingAssumption DEF FleetInv, SerialInv, TypeOK, Telemetry
<1>2. /\ \A u \in Vehicles : u # v => live'[u] = live[u] /\ archive'[u] = archive[u] /\ mirror'[u] = mirror[u]
      /\ Mirrored(v)' /\ Reported(v)
  BY <1>1, TelemetryIs DEF Reported
<1>3. \A u \in Vehicles : u # v => Mirrored(u)' /\ Reported(u)
  BY <1>1, <1>2 DEF Mirrored, Reported
<1>. QED  BY <1>2, <1>3 DEF Telemetry

\* The other users of the fleet find every call at rest.
LEMMA FleetAround ==
    ASSUME FleetInv, SerialInv', \A u \in Workers : calls[u].stage = "rest" /\ calls'[u].stage = "rest",
           UNCHANGED onTrip, \A v \in Vehicles : Mirrored(v)' /\ (Switched(v) \/ Reported(v))
    PROVE  FleetInv'
<1>1. \A v \in Vehicles : Agrees(v)
  BY DEF FleetInv, TripPassing
<1>2. \A v \in Vehicles : Agrees(v)'
  BY <1>1 DEF Agrees, Switched, Reported
<1>. QED  BY <1>2 DEF FleetInv, FleetFact

LEMMA FleetInit == ASSUME Init PROVE FleetInv
<1>1. SerialInv /\ \A u \in Workers : calls[u].stage = "rest"
  BY SerialInit
<1>2. \A v \in Vehicles : Agrees(v) /\ Mirrored(v)
  BY DEF Init, VehicleInit, Agrees, Mirrored, MirrorAtRest
<1>. QED  BY <1>1, <1>2 DEF FleetInv, FleetFact

LEMMA FleetNext == ~MayFail /\ FleetInv /\ [SerialNext]_vars => FleetInv'
<1>. SUFFICES ASSUME ~MayFail, FleetInv, [SerialNext]_vars PROVE FleetInv'
  OBVIOUS
<1>1. ASSUME UNCHANGED vars PROVE FleetInv'
  BY <1>1, SerialKept DEF vars, FleetInv, FleetFact, Agrees, Mirrored, TripPassing
<1>2. ASSUME Quiet, Environment PROVE FleetInv'
  <2>1. SerialInv' /\ \A u \in Workers : calls[u].stage = "rest" /\ calls'[u].stage = "rest"
    BY <1>2, SerialEnvironment DEF FleetInv, Quiet, CallsDone
  <2>. QED  BY <1>2, <2>1, EnvironmentIs, FleetAround
<1>3. ASSUME NEW v \in Reporting, Quiet \/ mirror[v].stage # "rest", Telemetry(v) PROVE FleetInv'
  <2>1. SerialInv' /\ \A u \in Workers : calls[u].stage = "rest" /\ calls'[u].stage = "rest"
    BY <1>3, SerialTelemetry DEF FleetInv
  <2>. QED  BY <1>3, <2>1, ReportIs, FleetAround
<1>. QED  BY <1>1, <1>2, <1>3, FleetCallStep DEF SerialNext

(***************************************************************************)
(* One user per vehicle, if no call is cut short between its two writes.   *)
(* A vehicle is in use without a trip exactly while a booking has it out,  *)
(* except the one a call has yet to occupy or to free.                     *)
(***************************************************************************)
TakenOut(v) == \E b \in Bookings : Out(b) /\ bookings[b].vehicle = v
InUseFree(v) == live[v].status = "in_use" /\ live[v].trip = NoTrip

Passing(v) == \E w \in Workers : calls[w].stage \in {"occupy", "check", "free"} /\ calls[w].vehicle = v

Follows(v) == InUseFree(v) <=> TakenOut(v)

OutWell ==
    \A b \in Bookings : Out(b) =>
        /\ bookings[b].vehicle \in Vehicles
        /\ onTrip[bookings[b].vehicle] = NoTrip
        /\ \A c \in Bookings : Out(c) /\ bookings[c].vehicle = bookings[b].vehicle => c = b

DeskFact(c) ==
    /\ c.stage = "occupy" => TakenOut(c.vehicle)
    /\ c.stage \in {"check", "free"} => InUseFree(c.vehicle) /\ ~TakenOut(c.vehicle)

DeskInv ==
    /\ FleetInv /\ OutWell
    /\ \A v \in Vehicles : ~Passing(v) => Follows(v)
    /\ \A u \in Workers : DeskFact(calls[u])

\* As far as one worker's step goes: the others rest, so only its own vehicle
\* can be in passing.
LEMMA DeskAssembled ==
    ASSUME FleetInv', OutWell', NEW w \in Workers, \A u \in Workers : u # w => calls'[u].stage = "rest",
           DeskFact(calls[w])',
           \A v \in Vehicles : (calls'[w].stage \notin {"occupy", "check", "free"} \/ calls'[w].vehicle # v) => Follows(v)'
    PROVE  DeskInv'
<1>1. \A u \in Workers : DeskFact(calls[u])'
  BY DEF DeskFact
<1>2. \A v \in Vehicles : ~Passing(v)' => Follows(v)'
  BY DEF Passing
<1>. QED  BY <1>1, <1>2 DEF DeskInv

\* Steps that leave vehicles alone and the bookings that are out.
LEMMA OutsKept ==
    ASSUME OutWell, UNCHANGED <<live, onTrip>>,
           \A b \in Bookings : (Out(b)' <=> Out(b)) /\ (Out(b) => bookings'[b].vehicle = bookings[b].vehicle)
    PROVE  OutWell' /\ \A v : (TakenOut(v)' <=> TakenOut(v)) /\ (InUseFree(v)' <=> InUseFree(v))
<1>1. OutWell'
  BY DEF OutWell
<1>2. \A v : (TakenOut(v)' <=> TakenOut(v)) /\ (InUseFree(v)' <=> InUseFree(v))
  BY DEF TakenOut, InUseFree
<1>. QED  BY <1>1, <1>2

LEMMA DeskMoveWrite ==
    ASSUME DeskInv, NEW w \in Workers, MoveWrite(w), FleetInv', \A u \in Workers : u # w => calls[u].stage = "rest",
           \A u \in Workers : u # w => calls'[u].stage = "rest"
    PROVE  DeskInv'
<1>a. PICK d : d = calls[w].booking
  OBVIOUS
<1>b. PICK v : v = calls[w].vehicle
  OBVIOUS
<1>1. calls[w].stage = "move" /\ UNCHANGED <<live, archive, onTrip>>
  BY DEF MoveWrite
<1>t. /\ TypeOK /\ RowFact(calls[w]) /\ OutWell /\ \A u \in Vehicles : Mirrored(u) /\ Agrees(u)
      /\ calls[w] \in CallRow
  BY <1>1 DEF DeskInv, FleetInv, SerialInv, TypeOK, TripPassing
<1>2. d \in Bookings /\ <<bookings[d].status, calls[w].next>> \in Moves /\ v = bookings[d].vehicle
  BY <1>a, <1>b, <1>t, <1>1 DEF RowFact
<1>3. /\ \A b \in Bookings : b # d => bookings'[b] = bookings[b]
      /\ bookings'[d].status = calls[w].next /\ bookings'[d].vehicle = v
  BY <1>a, <1>t, <1>2, MoveIs
<1>4. \A u \in Vehicles : Follows(u)
  BY <1>1 DEF DeskInv, Passing
<1>v. v # NoVehicle => v \in Vehicles
  BY <1>b, <1>t DEF CallRow
<1>5. ASSUME calls[w].next = "departed" PROVE DeskInv'
  <2>1. bookings[d].status = "reserved"
    BY <1>2, <1>5 DEF Moves
  <2>2. v \in Vehicles /\ archive[v] \in {"idle", "charging"}
    BY <1>b, <1>t, <1>1, <1>5, <1>v DEF RowFact, CanDepart
  <2>3. ~InUseFree(v) /\ onTrip[v] = NoTrip
    BY <1>t, <2>2, FreeInBoth DEF Agrees, InUseFree
  <2>4. ~TakenOut(v)
    BY <1>4, <2>2, <2>3 DEF Follows
  <2>5. calls'[w].stage = "occupy" /\ calls'[w].vehicle = v
    BY <1>b, <1>t, <1>5, MoveWriteIs
  <2>6. OutWell'
    BY <1>t, <1>1, <1>2, <1>3, <1>5, <2>1, <2>2, <2>3, <2>4 DEF OutWell, Out, TakenOut
  <2>7. TakenOut(v)'
    BY <1>2, <1>3, <1>5 DEF TakenOut, Out
  <2>8. \A u \in Vehicles : u # v => Follows(u)'
    BY <1>1, <1>2, <1>3, <1>4, <2>1 DEF Follows, TakenOut, InUseFree, Out
  <2>9. DeskFact(calls[w])'
    BY <2>5, <2>7 DEF DeskFact
  <2>. QED  BY <2>5, <2>6, <2>8, <2>9, DeskAssembled
<1>6. ASSUME calls[w].next = "completed" PROVE DeskInv'
  <2>1. Out(d)
    BY <1>2, <1>6 DEF Moves, Out
  <2>2. v \in Vehicles /\ TakenOut(v) /\ v # NoVehicle
    BY <1>t, <1>2, <2>1, NoVehicleAssumption DEF OutWell, TakenOut
  <2>3. InUseFree(v)
    BY <1>4, <2>2 DEF Follows
  <2>4. calls'[w].stage = "check" /\ calls'[w].vehicle = v
    BY <1>b, <1>t, <1>6, <2>2, MoveWriteIs
  <2>5. \A b \in Bookings : Out(b)' <=> Out(b) /\ b # d
    BY <1>2, <1>3, <1>6 DEF Out
  <2>6. OutWell'
    BY <1>t, <1>1, <1>3, <2>5 DEF OutWell
  <2>7. ~TakenOut(v)' /\ InUseFree(v)'
    BY <1>t, <1>1, <1>2, <1>3, <2>1, <2>3, <2>5 DEF TakenOut, InUseFree, OutWell
  <2>8. \A u \in Vehicles : u # v => Follows(u)'
    BY <1>1, <1>2, <1>3, <1>4, <2>5 DEF Follows, TakenOut, InUseFree
  <2>9. DeskFact(calls[w])'
    BY <2>4, <2>7 DEF DeskFact
  <2>. QED  BY <2>4, <2>6, <2>8, <2>9, DeskAssembled
<1>7. ASSUME calls[w].next = "cancelled" PROVE DeskInv'
  <2>1. calls'[w].stage = "rest"
    BY <1>t, <1>7, MoveWriteIs, RestIsCall
  <2>2. bookings[d].status = "reserved"
    BY <1>2, <1>7 DEF Moves
  <2>3. OutWell' /\ \A u : (TakenOut(u)' <=> TakenOut(u)) /\ (InUseFree(u)' <=> InUseFree(u))
    BY <1>t, <1>1, <1>2, <1>3, <1>7, <2>2, OutsKept DEF Out
  <2>4. \A u \in Vehicles : Follows(u)'
    BY <1>4, <2>3 DEF Follows
  <2>5. DeskFact(calls[w])'
    BY <2>1 DEF DeskFact
  <2>. QED  BY <2>3, <2>4, <2>5, DeskAssembled
<1>. QED  BY <1>5, <1>6, <1>7, MoveWriteIs, <1>t

LEMMA DeskCallStep ==
    ASSUME ~MayFail, DeskInv, NEW w \in Workers, Quiet \/ calls[w].stage # "rest", CallStep(w)
    PROVE  DeskInv'
<1>t. /\ FleetInv /\ SerialInv /\ TypeOK /\ VehicleTypeOK /\ OutWell /\ RowFact(calls[w]) /\ FleetFact(calls[w])
      /\ DeskFact(calls[w])
  BY DEF DeskInv, FleetInv, SerialInv, TypeOK
<1>s. FleetInv'
  BY <1>t, FleetCallStep
<1>o. /\ \A u \in Workers : u # w => calls[u].stage = "rest"
      /\ \A u \in Workers : u # w => calls'[u].stage = "rest"
  BY <1>t, OthersRest
<1>p. \A v \in Vehicles : (calls[w].stage \notin {"occupy", "check", "free"} \/ calls[w].vehicle # v) => Follows(v)
  BY <1>o DEF DeskInv, Passing
\* Steps after which the call has no vehicle in passing.
<1>k. ASSUME calls[w].stage \notin {"occupy", "check", "free"}, calls'[w].stage \notin {"occupy", "check", "free"},
             UNCHANGED <<live, onTrip>>,
             \A b \in Bookings : (Out(b)' <=> Out(b)) /\ (Out(b) => bookings'[b].vehicle = bookings[b].vehicle)
      PROVE  DeskInv'
  <2>1. OutWell' /\ \A v : (TakenOut(v)' <=> TakenOut(v)) /\ (InUseFree(v)' <=> InUseFree(v))
    BY <1>t, <1>k, OutsKept
  <2>2. \A v \in Vehicles : Follows(v)'
    BY <1>p, <1>k, <2>1 DEF Follows
  <2>3. DeskFact(calls[w])'
    BY <1>k DEF DeskFact
  <2>. QED  BY <1>s, <1>o, <2>1, <2>2, <2>3, DeskAssembled
<1>f. ASSUME Finish(w) PROVE calls'[w].stage = "rest"
  BY <1>f, <1>t, FinishIs, RestIsCall DEF TypeOK
\* Trips come and go where no booking has the vehicle out.
<1>g. ASSUME calls[w].stage \notin {"occupy", "check", "free"}, calls'[w].stage \notin {"occupy", "check", "free"},
             UNCHANGED bookings, \A v \in Vehicles : InUseFree(v)' <=> InUseFree(v),
             \A v \in Vehicles : TakenOut(v) => onTrip'[v] = NoTrip
      PROVE  DeskInv'
  <2>1. OutWell' /\ \A v : TakenOut(v)' <=> TakenOut(v)
    BY <1>t, <1>g DEF OutWell, TakenOut, Out
  <2>2. \A v \in Vehicles : Follows(v)'
    BY <1>p, <1>g, <2>1 DEF Follows
  <2>3. DeskFact(calls[w])'
    BY <1>g DEF DeskFact
  <2>. QED  BY <1>s, <1>o, <2>1, <2>2, <2>3, DeskAssembled
<1>h. \A v \in Vehicles : TakenOut(v) => onTrip[v] = NoTrip
  BY <1>t DEF OutWell, TakenOut
<1>1. ASSUME NEW b \in Bookings, NEW x \in Windows, NEW v \in Vehicles \cup {NoVehicle}, CreateRead(w, b, x, v)
      PROVE  DeskInv'
  BY <1>1, <1>t, <1>k, CreateReadIs DEF Out
<1>2. ASSUME NEW b \in Bookings, NEW edits \in SUBSET {"vehicle", "window"} \ {{}},
             NEW v \in Vehicles \cup {NoVehicle}, NEW x \in Windows, UpdateRead(w, b, edits, v, x)
      PROVE  DeskInv'
  BY <1>2, <1>t, <1>k, UpdateReadIs DEF Out
<1>3. ASSUME NEW b \in Bookings, NEW next \in {"departed", "completed", "cancelled"}, MoveRead(w, b, next)
      PROVE  DeskInv'
  BY <1>3, <1>t, <1>k, MoveReadIs DEF Out
<1>4. ASSUME CreateInsert(w) PROVE DeskInv'
  <2>. DEFINE d == calls[w].booking
  <2>1. calls[w].stage = "insert" /\ UNCHANGED <<live, onTrip>> /\ Finish(w)
    BY <1>4 DEF CreateInsert
  <2>2. d \in Bookings /\ bookings[d].status = "absent"
    BY <1>t, <2>1 DEF RowFact
  <2>3. bookings'[d].status = "reserved" /\ \A b \in Bookings : b # d => bookings'[b] = bookings[b]
    BY <1>4, <1>t, <2>2, InsertIs
  <2>. HIDE DEF d
  <2>. QED  BY <1>f, <1>k, <2>1, <2>2, <2>3 DEF Out
<1>5. ASSUME UpdateWrite(w) PROVE DeskInv'
  <2>. DEFINE d == calls[w].booking
  <2>1. calls[w].stage = "edit" /\ UNCHANGED <<live, onTrip>> /\ Finish(w)
    BY <1>5 DEF UpdateWrite
  <2>2. d \in Bookings /\ bookings[d].status = "reserved"
    BY <1>t, <2>1 DEF RowFact
  <2>3. bookings'[d].status = "reserved" /\ \A b \in Bookings : b # d => bookings'[b] = bookings[b]
    BY <1>5, <1>t, <2>2, UpdateIs
  <2>. HIDE DEF d
  <2>. QED  BY <1>f, <1>k, <2>1, <2>2, <2>3 DEF Out
<1>6. ASSUME MoveWrite(w) PROVE DeskInv'
  BY <1>6, <1>s, <1>o, DeskMoveWrite
<1>7. ASSUME Occupy(w) PROVE DeskInv'
  <2>v. PICK v : v = calls[w].vehicle
    OBVIOUS
  <2>1. calls[w].stage = "occupy" /\ v \in Vehicles /\ TakenOut(v) /\ UNCHANGED <<bookings, onTrip>>
        /\ calls'[w].stage = "rest"
    BY <2>v, <1>7, <1>t, <1>f DEF Occupy, FleetFact, DeskFact
  <2>2. /\ \A u \in Vehicles : u # v => live'[u] = live[u]
        /\ live'[v].status = "in_use" /\ live'[v].trip = NoTrip
    BY <2>v, <1>7, <1>t, <2>1, SetStatusIs DEF Occupy, VehicleStates
  <2>3. OutWell' /\ \A u : TakenOut(u)' <=> TakenOut(u)
    BY <1>t, <2>1 DEF OutWell, TakenOut, Out
  <2>4. \A u \in Vehicles : u # v => Follows(u)'
    BY <2>v, <1>p, <2>2, <2>3 DEF Follows, InUseFree
  <2>5. Follows(v)'
    BY <2>1, <2>2, <2>3 DEF Follows, InUseFree
  <2>6. DeskFact(calls[w])'
    BY <2>1 DEF DeskFact
  <2>. QED  BY <1>s, <1>o, <2>3, <2>4, <2>5, <2>6, DeskAssembled
<1>8. ASSUME ReleaseRead(w) PROVE DeskInv'
  <2>v. PICK v : v = calls[w].vehicle
    OBVIOUS
  <2>1. calls[w].stage = "check" /\ InUseFree(v) /\ ~TakenOut(v) /\ UNCHANGED <<live, bookings, onTrip>>
    BY <2>v, <1>8, <1>t DEF ReleaseRead, DeskFact
  <2>2. calls'[w].stage = "free" /\ calls'[w].vehicle = v
    BY <2>v, <1>8, <1>t, <2>1, ReleaseReadIs DEF OursToRelease, InUseFree
  <2>3. OutWell' /\ \A u : (TakenOut(u)' <=> TakenOut(u)) /\ (InUseFree(u)' <=> InUseFree(u))
    BY <1>t, <2>1, OutsKept DEF Out
  <2>4. \A u \in Vehicles : u # v => Follows(u)'
    BY <2>v, <1>p, <2>3 DEF Follows
  <2>5. DeskFact(calls[w])'
    BY <2>1, <2>2, <2>3 DEF DeskFact
  <2>. QED  BY <1>s, <1>o, <2>2, <2>3, <2>4, <2>5, DeskAssembled
<1>9. ASSUME Free(w) PROVE DeskInv'
  <2>v. PICK v : v = calls[w].vehicle
    OBVIOUS
  <2>1. calls[w].stage = "free" /\ v \in Vehicles /\ ~TakenOut(v) /\ UNCHANGED <<bookings, onTrip>>
        /\ calls'[w].stage = "rest"
    BY <2>v, <1>9, <1>t, <1>f DEF Free, FleetFact, DeskFact
  <2>2. /\ \A u \in Vehicles : u # v => live'[u] = live[u]
        /\ live'[v].status = "idle"
    BY <2>v, <1>9, <1>t, <2>1, SetStatusIs DEF Free, VehicleStates
  <2>3. OutWell' /\ \A u : TakenOut(u)' <=> TakenOut(u)
    BY <1>t, <2>1 DEF OutWell, TakenOut, Out
  <2>4. \A u \in Vehicles : u # v => Follows(u)'
    BY <2>v, <1>p, <2>2, <2>3 DEF Follows, InUseFree
  <2>5. Follows(v)'
    BY <2>1, <2>2, <2>3 DEF Follows, InUseFree
  <2>6. DeskFact(calls[w])'
    BY <2>1 DEF DeskFact
  <2>. QED  BY <1>s, <1>o, <2>3, <2>4, <2>5, <2>6, DeskAssembled
<1>10. ~Abandon(w)
  BY DEF Abandon
<1>11. ASSUME NEW v \in Vehicles, NEW t \in Trips, TripRead(w, v, t) PROVE DeskInv'
  BY <1>11, <1>t, <1>k, TripReadIs DEF Out
<1>12. ASSUME TripRefused(w) PROVE DeskInv'
  <2>1. calls[w].stage = "open" /\ UNCHANGED <<live, bookings, onTrip>> /\ calls'[w].stage = "rest"
    BY <1>12, <1>f DEF TripRefused
  <2>. QED  BY <1>k, <2>1 DEF Out
<1>13. ASSUME TripOpen(w) PROVE DeskInv'
  <2>v. PICK v : v = calls[w].vehicle
    OBVIOUS
  <2>1. /\ calls[w].stage = "open" /\ calls'[w].stage = "take" /\ UNCHANGED <<live, bookings>>
        /\ \A u \in Vehicles : u # v => onTrip'[u] = onTrip[u]
    BY <2>v, <1>13, <1>t, TripOpenIs DEF TypeOK
  <2>2. v \in Vehicles /\ archive[v] \in {"idle", "charging"} /\ Mirrored(v)
    BY <2>v, <1>t, <2>1 DEF RowFact, FleetInv
  <2>3. ~TakenOut(v)
    BY <1>p, <2>1, <2>2, FreeInBoth DEF Follows, InUseFree
  <2>. QED  BY <1>g, <1>h, <2>1, <2>2, <2>3 DEF InUseFree
<1>14. ASSUME NEW v \in Vehicles, TripClose(w, v) PROVE DeskInv'
  <2>1. /\ calls[w].stage = "rest" /\ calls'[w].stage = "return" /\ UNCHANGED <<live, bookings>>
        /\ \A u \in Vehicles : onTrip'[u] = IF u = v THEN NoTrip ELSE onTrip[u]
    BY <1>14, <1>t, TripCloseIs DEF TypeOK
  <2>. QED  BY <1>g, <1>h, <2>1 DEF InUseFree
<1>15. ASSUME TripTake(w) \/ TripReturn(w) PROVE DeskInv'
  <2>v. PICK v : v = calls[w].vehicle
    OBVIOUS
  <2>1. /\ calls[w].stage \in {"take", "return"} /\ v \in Vehicles /\ UNCHANGED <<bookings, onTrip>>
        /\ calls'[w].stage = "rest"
    BY <2>v, <1>15, <1>t, <1>f DEF TripTake, TripReturn, FleetFact
  <2>2. ~InUseFree(v)
    BY <2>v, <1>t, <2>1 DEF FleetFact, InUseFree
  <2>3. /\ \A u \in Vehicles : u # v => live'[u] = live[u]
        /\ ~InUseFree(v)'
    <3>1. CASE TripTake(w)
      <4>1. calls[w].trip \in Trips
        BY <1>t, <3>1 DEF TripTake, FleetFact
      <4>2. /\ \A u \in Vehicles : u # v => live'[u] = live[u]
            /\ live'[v].trip = calls[w].trip
        BY <2>v, <1>t, <2>1, <3>1, <4>1, SetStatusIs DEF TripTake, VehicleStates
      <4>. QED  BY <4>1, <4>2, NoTripAssumption DEF InUseFree
    <3>2. CASE TripReturn(w)
      <4>1. /\ \A u \in Vehicles : u # v => live'[u] = live[u]
            /\ live'[v].status = "idle"
        BY <2>v, <1>t, <2>1, <3>2, SetStatusIs DEF TripReturn, VehicleStates
      <4>. QED  BY <4>1 DEF InUseFree
    <3>. QED  BY <1>15, <3>1, <3>2
  <2>4. \A u \in Vehicles : InUseFree(u)' <=> InUseFree(u)
    BY <2>2, <2>3 DEF InUseFree
  <2>. QED  BY <1>g, <1>h, <2>1, <2>4
<1>. QED  BY <1>1, <1>2, <1>3, <1>4, <1>5, <1>6, <1>7, <1>8, <1>9, <1>10, <1>11, <1>12, <1>13, <1>14, <1>15 DEF CallStep

\* The other users of the fleet find every call at rest.
LEMMA DeskAround ==
    ASSUME DeskInv, FleetInv', \A u \in Workers : calls[u].stage = "rest" /\ calls'[u].stage = "rest",
           UNCHANGED <<onTrip, bookings>>, \A v \in Vehicles : Switched(v) \/ Reported(v)
    PROVE  DeskInv'
<1>1. \A v \in Vehicles : Follows(v)
  BY DEF DeskInv, Passing
<1>2. \A v \in Vehicles : InUseFree(v)' <=> InUseFree(v)
  BY DEF InUseFree, Switched, Reported
<1>3. OutWell' /\ \A v : TakenOut(v)' <=> TakenOut(v)
  BY DEF DeskInv, OutWell, TakenOut, Out
<1>4. \A v \in Vehicles : Follows(v)'
  BY <1>1, <1>2, <1>3 DEF Follows
<1>5. \A u \in Workers : DeskFact(calls[u])'
  BY DEF DeskFact
<1>. QED  BY <1>3, <1>4, <1>5 DEF DeskInv

LEMMA DeskInit == ASSUME Init PROVE DeskInv
<1>1. FleetInv /\ \A u \in Workers : calls[u].stage = "rest"
  BY FleetInit, SerialInit
<1>2. (\A b \in Bookings : ~Out(b)) /\ \A v \in Vehicles : live[v].status = "idle"
  BY DEF Init, VehicleInit, Out
<1>. QED  BY <1>1, <1>2 DEF DeskInv, OutWell, Follows, TakenOut, InUseFree, DeskFact

LEMMA DeskNext == ~MayFail /\ DeskInv /\ [SerialNext]_vars => DeskInv'
<1>. SUFFICES ASSUME ~MayFail, DeskInv, [SerialNext]_vars PROVE DeskInv'
  OBVIOUS
<1>1. ASSUME UNCHANGED vars PROVE DeskInv'
  <2>1. FleetInv'
    BY <1>1, FleetNext DEF DeskInv
  <2>. QED  BY <1>1, <2>1 DEF vars, DeskInv, OutWell, Follows, TakenOut, InUseFree, DeskFact, Passing, Out
<1>2. ASSUME Quiet, Environment PROVE DeskInv'
  <2>1. FleetInv' /\ \A u \in Workers : calls[u].stage = "rest" /\ calls'[u].stage = "rest"
    BY <1>2, FleetNext, SerialEnvironment DEF DeskInv, FleetInv, Quiet, CallsDone, SerialNext
  <2>. QED  BY <1>2, <2>1, EnvironmentIs, DeskAround DEF DeskInv
<1>3. ASSUME NEW v \in Reporting, Quiet \/ mirror[v].stage # "rest", Telemetry(v) PROVE DeskInv'
  <2>1. FleetInv' /\ \A u \in Workers : calls[u].stage = "rest" /\ calls'[u].stage = "rest"
    BY <1>3, FleetNext, SerialTelemetry DEF DeskInv, FleetInv, SerialNext
  <2>. QED  BY <1>3, <2>1, ReportIs, DeskAround DEF DeskInv
<1>. QED  BY <1>1, <1>2, <1>3, DeskCallStep DEF SerialNext

LEMMA DeskInvariance == ASSUME ~MayFail PROVE SerialSpec => []DeskInv
<1>1. DeskInv /\ [SerialNext]_vars => DeskInv'
  BY DeskNext
<1>. QED  BY <1>1, DeskInit, PTL DEF SerialSpec

\* With one call at a time and none cut short, a vehicle is out with one
\* booking at a time and never with a booking and a trip
\* (booking/service.go, Transition).
THEOREM OneUserAtATime == ASSUME ~MayFail PROVE SerialSpec => []OneUserPerVehicle
<1>1. DeskInv => OneUserPerVehicle
  BY DEF DeskInv, OutWell, OneUserPerVehicle
<1>. QED  BY <1>1, DeskInvariance, PTL

\* Under the same assumptions, with no call half-way, a vehicle is in use
\* without a trip exactly while a booking has it out (booking/service.go, Transition and
\* releaseVehicle).
THEOREM InUseExactlyWhileOut == ASSUME ~MayFail PROVE SerialSpec => []InUseWhileOut
<1>1. DeskInv => InUseWhileOut
  BY DEF DeskInv, Passing, CallsDone, Follows, InUseFree, TakenOut, InUseWhileOut
<1>. QED  BY <1>1, DeskInvariance, PTL

(***************************************************************************)
(* The contract.  What the check of Create and Update saw of the requests  *)
(* is still so when the booking is written; what the departure saw of the  *)
(* archive row tells who has the vehicle.                                  *)
(***************************************************************************)
HoldFact(c) ==
    c.stage \in {"insert", "edit"} /\ c.vehicle # NoVehicle => ~ApprovalClash(c.vehicle, c.window, NoBooking)

ContractInv ==
    /\ WindowInv
    /\ ~MayFail => DeskInv
    /\ \A u \in Workers : HoldFact(calls[u])

contractVars == <<bookings, holds, onTrip>>

\* A booking is written as its check found it could be.
LEMMA Places ==
    ASSUME TypeOK, NEW d \in Bookings, NEW v \in Vehicles \cup {NoVehicle}, NEW x \in Windows,
           bookings[d].status \in {"absent", "reserved"},
           v # NoVehicle => /\ \A b \in Bookings \ {d} : ~(bookings[b].status \in Active /\ bookings[b].vehicle = v
                                                          /\ TooClose(bookings[b].window, x))
                            /\ ~ApprovalClash(v, x, NoBooking),
           bookings' \in [Bookings -> BookingRow], \A b \in Bookings : b # d => bookings'[b] = bookings[b],
           bookings'[d].status = "reserved", bookings'[d].vehicle = v, bookings'[d].window = x,
           UNCHANGED <<holds, onTrip>>
    PROVE  Contract!Place(d, v, x)
<1>. DEFINE r == [status |-> "reserved", vehicle |-> v, window |-> x]
<1>1. bookings'[d] = r
  BY DEF BookingRow
<1>2. bookings' = [bookings EXCEPT ![d] = r]
  BY <1>1 DEF TypeOK
<1>3. v # NoVehicle => Contract!FreeOfBookings(v, x, d)
  BY DEF Contract!FreeOfBookings, Active, TooClose, Turnaround, Contract!TooClose, Contract!Turnaround
<1>4. v # NoVehicle => Contract!FreeOfRequests(v, x, Approvals)
  BY NoBookingAssumption
     DEF Contract!FreeOfRequests, ApprovalClash, TooClose, Turnaround, Contract!TooClose, Contract!Turnaround
<1>. HIDE DEF r
<1>. QED  BY <1>2, <1>3, <1>4 DEF Contract!Place, r

\* A booking moves on.
LEMMA Moved ==
    ASSUME TypeOK, NEW w \in Workers, MoveWrite(w), NEW d \in Bookings, d = calls[w].booking
    PROVE  Contract!Move(d, bookings[d].status, calls[w].next)
  BY DEF MoveWrite, Contract!Move

\* A vehicle the archive has idle or charging is with nobody, unless calls are
\* cut short.
LEMMA NobodyHasIt ==
    ASSUME ContractInv, NEW v \in Vehicles, archive[v] \in {"idle", "charging"},
           \A w \in Workers : calls[w].stage \notin {"occupy", "check", "free", "take", "return"}
    PROVE  Contract!NobodyHas(v)
<1>. SUFFICES ASSUME ~MayFail
              PROVE  onTrip[v] = NoTrip /\ \A b \in Bookings : ~(bookings[b].status = "departed" /\ bookings[b].vehicle = v)
  BY DEF Contract!NobodyHas
<1>1. Mirrored(v) /\ Agrees(v) /\ Follows(v)
  BY DEF ContractInv, DeskInv, FleetInv, Passing, TripPassing
<1>2. onTrip[v] = NoTrip /\ ~InUseFree(v)
  BY <1>1, FreeInBoth DEF Agrees, InUseFree
<1>. QED  BY <1>1, <1>2 DEF Follows, TakenOut, Out

LEMMA HoldCallStep ==
    ASSUME ContractInv, NEW w \in Workers, Quiet \/ calls[w].stage # "rest", CallStep(w)
    PROVE  HoldFact(calls[w])'
<1>t. SerialInv /\ TypeOK
  BY DEF ContractInv, WindowInv, SerialInv
<1>1. ASSUME NEW b \in Bookings, NEW x \in Windows, NEW v \in Vehicles \cup {NoVehicle}, CreateRead(w, b, x, v)
      PROVE  HoldFact(calls[w])'
  BY <1>1, <1>t, CreateReadIs DEF HoldFact, ApprovalClash
<1>2. ASSUME NEW b \in Bookings, NEW edits \in SUBSET {"vehicle", "window"} \ {{}},
             NEW v \in Vehicles \cup {NoVehicle}, NEW x \in Windows, UpdateRead(w, b, edits, v, x)
      PROVE  HoldFact(calls[w])'
  BY <1>2, <1>t, UpdateReadIs DEF HoldFact, ApprovalClash
<1>3. ASSUME NEW b \in Bookings, NEW next \in {"departed", "completed", "cancelled"}, MoveRead(w, b, next)
      PROVE  HoldFact(calls[w])'
  BY <1>3, <1>t, MoveReadIs DEF HoldFact
<1>4. ASSUME NEW v \in Vehicles, NEW t \in Trips, TripRead(w, v, t)
      PROVE  HoldFact(calls[w])'
  BY <1>4, <1>t, TripReadIs DEF HoldFact
<1>5. ASSUME Late(w)
      PROVE  HoldFact(calls[w])'
  BY <1>5, <1>t, PastTheRow DEF HoldFact
<1>. QED  BY <1>1, <1>2, <1>3, <1>4, <1>5 DEF CallStep, Late

LEMMA ContractCallStep ==
    ASSUME ContractInv, NEW w \in Workers, Quiet \/ calls[w].stage # "rest", CallStep(w)
    PROVE  Contract!Next \/ UNCHANGED contractVars
<1>t. /\ SerialInv /\ TypeOK /\ RowFact(calls[w]) /\ WindowFact(calls[w]) /\ HoldFact(calls[w])
      /\ calls[w] \in CallRow /\ \A u \in Workers : u # w => calls[u].stage = "rest"
  BY OthersRest DEF ContractInv, WindowInv, SerialInv, TypeOK
<1>1. ASSUME CreateInsert(w) PROVE Contract!Next
  <2>1. PICK d, v, x : d = calls[w].booking /\ v = calls[w].vehicle /\ x = calls[w].window
    OBVIOUS
  <2>2. calls[w].stage = "insert" /\ UNCHANGED <<holds, onTrip>>
    BY <1>1 DEF CreateInsert
  <2>3. /\ d \in Bookings /\ x \in Windows /\ v \in Vehicles \cup {NoVehicle} /\ bookings[d].status = "absent"
        /\ v # NoVehicle => ~BookingClash(v, x, NoBooking) /\ ~ApprovalClash(v, x, NoBooking)
    BY <1>t, <2>1, <2>2 DEF RowFact, WindowFact, HoldFact, CallRow
  <2>4. /\ bookings' \in [Bookings -> BookingRow] /\ \A b \in Bookings : b # d => bookings'[b] = bookings[b]
        /\ bookings'[d].status = "reserved" /\ bookings'[d].vehicle = v /\ bookings'[d].window = x
    BY <1>1, <1>t, <2>1, <2>3, InsertIs
  <2>5. v # NoVehicle => \A b \in Bookings \ {d} : ~(bookings[b].status \in Active /\ bookings[b].vehicle = v
                                                    /\ TooClose(bookings[b].window, x))
    BY <2>3, NoBookingAssumption DEF BookingClash
  <2>6. Contract!Place(d, v, x)
    BY <1>t, <2>2, <2>3, <2>4, <2>5, Places
  <2>. QED  BY <2>3, <2>6 DEF Contract!Next
<1>2. ASSUME UpdateWrite(w) PROVE Contract!Next
  <2>1. PICK d, v, x : d = calls[w].booking /\ v = calls[w].vehicle /\ x = calls[w].window
    OBVIOUS
  <2>2. calls[w].stage = "edit" /\ UNCHANGED <<holds, onTrip>>
    BY <1>2 DEF UpdateWrite
  <2>3. /\ d \in Bookings /\ x \in Windows /\ v \in Vehicles \cup {NoVehicle} /\ bookings[d].status = "reserved"
        /\ v # NoVehicle => ~BookingClash(v, x, d) /\ ~ApprovalClash(v, x, NoBooking)
    BY <1>t, <2>1, <2>2 DEF RowFact, WindowFact, HoldFact, CallRow
  <2>4. /\ bookings' \in [Bookings -> BookingRow] /\ \A b \in Bookings : b # d => bookings'[b] = bookings[b]
        /\ bookings'[d].status = "reserved" /\ bookings'[d].vehicle = v /\ bookings'[d].window = x
    BY <1>2, <1>t, <2>1, <2>2, <2>3, UpdateIs DEF WindowFact
  <2>5. v # NoVehicle => \A b \in Bookings \ {d} : ~(bookings[b].status \in Active /\ bookings[b].vehicle = v
                                                    /\ TooClose(bookings[b].window, x))
    BY <2>3 DEF BookingClash
  <2>6. Contract!Place(d, v, x)
    BY <1>t, <2>2, <2>3, <2>4, <2>5, Places
  <2>. QED  BY <2>3, <2>6 DEF Contract!Next
<1>3. ASSUME MoveWrite(w) PROVE Contract!Next
  <2>1. PICK d, v : d = calls[w].booking /\ v = bookings[d].vehicle
    OBVIOUS
  <2>2. calls[w].stage = "move"
    BY <1>3 DEF MoveWrite
  <2>3. /\ d \in Bookings /\ <<bookings[d].status, calls[w].next>> \in Moves /\ v \in Vehicles \cup {NoVehicle}
        /\ calls[w].next = "departed" => CanDepart(v)
    BY <1>t, <2>1, <2>2 DEF RowFact, CallRow
  <2>4. Contract!Move(d, bookings[d].status, calls[w].next)
    BY <1>3, <1>t, <2>1, <2>3, Moved
  <2>5. CASE bookings[d].status = "reserved" /\ calls[w].next = "departed"
    <3>1. v \in Vehicles /\ archive[v] \in {"idle", "charging"}
      BY <2>3, <2>5 DEF CanDepart
    <3>2. Contract!NobodyHas(v)
      BY <1>t, <2>2, <3>1, NobodyHasIt
    <3>. QED  BY <2>1, <2>3, <2>4, <2>5, <3>1, <3>2 DEF Contract!Depart, Contract!Next
  <2>6. CASE bookings[d].status = "departed" /\ calls[w].next = "completed"
    BY <2>3, <2>4, <2>6 DEF Contract!Return, Contract!Next
  <2>7. CASE bookings[d].status = "reserved" /\ calls[w].next = "cancelled"
    BY <2>3, <2>4, <2>7 DEF Contract!Cancel, Contract!Next
  <2>. QED  BY <2>3, <2>5, <2>6, <2>7 DEF Moves
<1>4. ASSUME ReleaseRead(w) \/ Occupy(w) \/ Free(w) \/ Abandon(w) \/ TripRefused(w) \/ TripTake(w) \/ TripReturn(w)
      PROVE  UNCHANGED contractVars
  BY <1>4 DEF ReleaseRead, Occupy, Free, Abandon, TripRefused, TripTake, TripReturn, contractVars
<1>5. ASSUME NEW b \in Bookings, NEW x \in Windows, NEW v \in Vehicles \cup {NoVehicle}, CreateRead(w, b, x, v)
      PROVE  UNCHANGED contractVars
  BY <1>5, <1>t, CreateReadIs DEF contractVars
<1>6. ASSUME NEW b \in Bookings, NEW edits \in SUBSET {"vehicle", "window"} \ {{}},
             NEW v \in Vehicles \cup {NoVehicle}, NEW x \in Windows, UpdateRead(w, b, edits, v, x)
      PROVE  UNCHANGED contractVars
  BY <1>6, <1>t, UpdateReadIs DEF contractVars
<1>7. ASSUME NEW b \in Bookings, NEW next \in {"departed", "completed", "cancelled"}, MoveRead(w, b, next)
      PROVE  UNCHANGED contractVars
  BY <1>7, <1>t, MoveReadIs DEF contractVars
<1>8. ASSUME NEW v \in Vehicles, NEW t \in Trips, TripRead(w, v, t)
      PROVE  UNCHANGED contractVars
  BY <1>8, <1>t, TripReadIs DEF contractVars
<1>9. ASSUME TripOpen(w) PROVE Contract!Next
  <2>1. PICK v, t : v = calls[w].vehicle /\ t = calls[w].trip
    OBVIOUS
  <2>2. /\ calls[w].stage = "open" /\ onTrip[v] = NoTrip /\ onTrip' = [onTrip EXCEPT ![v] = t]
        /\ UNCHANGED <<bookings, holds>>
    BY <1>9, <1>t, <2>1, TripOpenIs
  <2>3. v \in Vehicles /\ t \in Trips /\ archive[v] \in {"idle", "charging"} /\ \A u \in Vehicles : onTrip[u] # t
    BY <1>t, <2>1, <2>2 DEF RowFact
  <2>4. Contract!NobodyHas(v)
    BY <1>t, <2>2, <2>3, NobodyHasIt
  <2>5. Contract!StartTrip(v, t)
    BY <2>2, <2>3, <2>4 DEF Contract!StartTrip
  <2>. QED  BY <2>3, <2>5 DEF Contract!Next
<1>10. ASSUME NEW v \in Vehicles, TripClose(w, v) PROVE Contract!Next
  <2>1. Contract!EndTrip(v)
    BY <1>10 DEF TripClose, Contract!EndTrip
  <2>. QED  BY <2>1 DEF Contract!Next
<1>. QED  BY <1>1, <1>2, <1>3, <1>4, <1>5, <1>6, <1>7, <1>8, <1>9, <1>10 DEF CallStep

LEMMA ContractEnvironment ==
    ASSUME ContractInv, Quiet, Environment
    PROVE  Contract!Next \/ UNCHANGED contractVars
<1>1. ASSUME NEW a \in Approvals, ApprovalEnds(a) PROVE Contract!Next
  BY <1>1 DEF ApprovalEnds, NoHold, Contract!NoHold, Contract!Release, Contract!Next
<1>2. ASSUME NEW a \in Approvals, NEW v \in Vehicles, NEW x \in Windows, ApprovalTakes(a, v, x) PROVE Contract!Next
  <2>1. Contract!FreeOfRequests(v, x, Approvals \ {a})
    BY <1>2 DEF ApprovalTakes, ApprovalClash, Contract!FreeOfRequests, TooClose, Turnaround, Contract!TooClose, Contract!Turnaround
  <2>2. Contract!Hold(a, v, x)
    BY <1>2, <2>1 DEF ApprovalTakes, NoHold, Contract!NoHold, Contract!Hold
  <2>. QED  BY <2>2 DEF Contract!Next
<1>3. ASSUME NEW v \in Vehicles, NEW s \in {"idle", "maintenance"}, OperatorSwitches(v, s) PROVE UNCHANGED contractVars
  BY <1>3 DEF OperatorSwitches, contractVars
<1>. QED  BY <1>1, <1>2, <1>3 DEF Environment

LEMMA ContractNext ==
    ASSUME ContractInv, [SerialNext]_vars
    PROVE  ContractInv' /\ [Contract!Next]_contractVars
<1>1. WindowInv' /\ (~MayFail => DeskInv')
  BY WindowNext, DeskNext DEF ContractInv
<1>2. ASSUME UNCHANGED vars PROVE (\A u \in Workers : HoldFact(calls[u])') /\ UNCHANGED contractVars
  BY <1>2 DEF vars, contractVars, ContractInv, HoldFact, ApprovalClash
<1>3. ASSUME Quiet, Environment PROVE \A u \in Workers : HoldFact(calls[u])'
  <2>1. \A u \in Workers : calls'[u].stage = "rest"
    BY <1>3, SerialEnvironment DEF ContractInv, WindowInv
  <2>. QED  BY <2>1 DEF HoldFact
<1>4. ASSUME NEW w \in Workers, Quiet \/ calls[w].stage # "rest", CallStep(w)
      PROVE  \A u \in Workers : HoldFact(calls[u])'
  <2>1. HoldFact(calls[w])' /\ \A u \in Workers : u # w => calls'[u].stage = "rest"
    BY <1>4, HoldCallStep, OthersRest DEF ContractInv, WindowInv
  <2>. QED  BY <2>1 DEF HoldFact
<1>5. ASSUME NEW v \in Reporting, Quiet \/ mirror[v].stage # "rest", Telemetry(v)
      PROVE  (\A u \in Workers : HoldFact(calls[u])') /\ UNCHANGED contractVars
  <2>1. UNCHANGED <<bookings, holds, onTrip>> /\ \A u \in Workers : calls'[u].stage = "rest"
    BY <1>5, SerialTelemetry DEF ContractInv, WindowInv
  <2>. QED  BY <2>1 DEF HoldFact, contractVars
<1>6. \A u \in Workers : HoldFact(calls[u])'
  BY <1>2, <1>3, <1>4, <1>5 DEF SerialNext
<1>7. Contract!Next \/ UNCHANGED contractVars
  BY <1>2, <1>5, ContractCallStep, ContractEnvironment DEF SerialNext
<1>8. ContractInv'
  BY <1>1, <1>6 DEF ContractInv
<1>. QED  BY <1>7, <1>8

LEMMA ContractInit == ASSUME Init PROVE ContractInv /\ Contract!Init
<1>1. WindowInv /\ DeskInv /\ \A u \in Workers : calls[u].stage = "rest"
  BY WindowInit, DeskInit, SerialInit
<1>2. Contract!Init
  BY DEF Init, NoHold, Contract!Init, Contract!NoHold
<1>. QED  BY <1>1, <1>2 DEF ContractInv, HoldFact

\* With one call at a time, cut short or not, the desk keeps the contract: a
\* booking is written free of every booking and request, and a vehicle leaves
\* when nobody has it (booking/service.go, Create, Update and Transition).
THEOREM DeskFollowsContract == SerialSpec => FollowsContract
<1>1. ContractInv /\ [SerialNext]_vars => ContractInv' /\ [Contract!Next]_contractVars
  BY ContractNext
<1>. QED  BY <1>1, ContractInit, PTL DEF SerialSpec, FollowsContract, Contract!Spec, contractVars
===============================================================================
