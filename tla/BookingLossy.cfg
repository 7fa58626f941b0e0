CONSTANTS
    Vehicles = {v1, v2}
    Reporting = {v1, v2}
    Bookings = {b1, b2}
    Approvals = {a1}
    Trips = {t1}
    Workers = {w1}
    Windows <- MCTouching
    MayFail = TRUE
    NoTrip = NoTrip
    NoVehicle = NoVehicle
    NoBooking = NoBooking
    NoWindow = NoWindow
SPECIFICATION SerialSpec
SYMMETRY Symmetry
INVARIANTS
    TypeOK
    NoDoubleBooking
PROPERTIES
    TripKeepsVehicle
    FollowsContract
