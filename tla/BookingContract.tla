---------------------------- MODULE BookingContract ----------------------------
(***************************************************************************)
(* What the dispatch desk promises: a vehicle is booked only for a window  *)
(* that keeps the turnaround to every booking and every approved request,  *)
(* and leaves with a booking or a trip only when nobody has it.            *)
(*                                                                         *)
(* A request does not look at bookings when it takes its vehicle.  When    *)
(* calls may be cut short, a vehicle that is out may be given away again;  *)
(* what remains is that no trip starts on a vehicle that is on a trip.     *)
(*                                                                         *)
(* The status of a vehicle, in two tables, is not here: that looking at it *)
(* is enough to know who has the vehicle is the refinement.                *)
(***************************************************************************)
EXTENDS ApprovalRules

CONSTANTS Vehicles, Bookings, Approvals, Trips, Windows, NoVehicle, NoTrip, NoWindow,
          MayFail     \* whether calls may be cut short

VARIABLES bookings,   \* what is booked, and how far each booking is
          holds,      \* what each approved request holds, if anything
          onTrip      \* the ongoing trip of each vehicle

NoHold == [vehicle |-> NoVehicle, window |-> NoWindow]

Init ==
    /\ bookings = [b \in Bookings |-> [status |-> "absent", vehicle |-> NoVehicle, window |-> NoWindow]]
    /\ holds = [a \in Approvals |-> NoHold]
    /\ onTrip = [v \in Vehicles |-> NoTrip]

FreeOfBookings(v, x, b) ==
    \A c \in Bookings \ {b} :
        ~(/\ bookings[c].status \in {"reserved", "departed"}
          /\ bookings[c].vehicle = v
          /\ TooClose(bookings[c].window, x))

FreeOfRequests(v, x, others) == \A a \in others : ~(holds[a].vehicle = v /\ TooClose(holds[a].window, x))

\* A booking is taken, or taken differently.
Place(b, v, x) ==
    /\ bookings[b].status \in {"absent", "reserved"}
    /\ v # NoVehicle => FreeOfBookings(v, x, b) /\ FreeOfRequests(v, x, Approvals)
    /\ bookings' = [bookings EXCEPT ![b] = [status |-> "reserved", vehicle |-> v, window |-> x]]
    /\ UNCHANGED <<holds, onTrip>>

Move(b, from, to) ==
    /\ bookings[b].status = from
    /\ bookings' = [bookings EXCEPT ![b].status = to]
    /\ UNCHANGED <<holds, onTrip>>

NobodyHas(v) ==
    \/ MayFail
    \/ /\ onTrip[v] = NoTrip
       /\ \A b \in Bookings : ~(bookings[b].status = "departed" /\ bookings[b].vehicle = v)

Depart(b) == bookings[b].vehicle \in Vehicles /\ NobodyHas(bookings[b].vehicle) /\ Move(b, "reserved", "departed")

Return(b) == Move(b, "departed", "completed")

Cancel(b) == Move(b, "reserved", "cancelled")

Hold(a, v, x) ==
    /\ holds[a] = NoHold
    /\ FreeOfRequests(v, x, Approvals \ {a})
    /\ holds' = [holds EXCEPT ![a] = [vehicle |-> v, window |-> x]]
    /\ UNCHANGED <<bookings, onTrip>>

Release(a) == holds' = [holds EXCEPT ![a] = NoHold] /\ UNCHANGED <<bookings, onTrip>>

StartTrip(v, t) ==
    /\ NobodyHas(v) /\ onTrip[v] = NoTrip /\ \A u \in Vehicles : onTrip[u] # t
    /\ onTrip' = [onTrip EXCEPT ![v] = t]
    /\ UNCHANGED <<bookings, holds>>

EndTrip(v) == onTrip' = [onTrip EXCEPT ![v] = NoTrip] /\ UNCHANGED <<bookings, holds>>

Next ==
    \/ \E b \in Bookings : Depart(b) \/ Return(b) \/ Cancel(b)
                           \/ \E v \in Vehicles \cup {NoVehicle}, x \in Windows : Place(b, v, x)
    \/ \E a \in Approvals : Release(a) \/ \E v \in Vehicles, x \in Windows : Hold(a, v, x)
    \/ \E v \in Vehicles : EndTrip(v) \/ \E t \in Trips : StartTrip(v, t)

Spec == Init /\ [][Next]_<<bookings, holds, onTrip>>
=============================================================================
