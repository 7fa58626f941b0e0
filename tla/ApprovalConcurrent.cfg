CONSTANTS
    Approvals = {a1, a2}
    Vehicles = {v1, v2}
    Workers = {w1, w2}
    Windows <- MCTwoWindows
    NoVehicle = NoVehicle
    NoApproval = NoApproval
SPECIFICATION Spec
SYMMETRY Symmetry
INVARIANTS
    StepsMatchStatus
PROPERTIES
    ApprovedVehicleIsFixed
    FollowsContract
