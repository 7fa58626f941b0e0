CONSTANTS
    Vehicles = {v1}
    Reporting = {v1}
    Approvals = {a1, a2}
    Trips = {t1, t2}
    Workers = {w1, w2}
    ManualTargets = {"idle", "maintenance"}
    MayFail = TRUE
    NoTrip = NoTrip
    NoVehicle = NoVehicle
    NoApproval = NoApproval
SPECIFICATION Spec
SYMMETRY Symmetry
INVARIANTS
    TypeOK
    InUseIffOngoing
    OneOngoingPerVehicle
    CompletedOnce
PROPERTIES
    FinalIsFinal
    FollowsContract
