CONSTANTS
    Vehicles = {v1, v2}
    Reporting = {v1}
    Approvals = {a1, a2}
    Trips = {t1, t2}
    Workers = {w1}
    ManualTargets = {"maintenance"}
    MayFail = FALSE
    NoTrip = NoTrip
    NoVehicle = NoVehicle
    NoApproval = NoApproval
SPECIFICATION FairSpec
INVARIANTS
    VehiclesInSyncWhenQuiet
    TripUsesApprovedVehicle
PROPERTY ClosedTripLeavesVehicle
