CONSTANTS
    Approvals = {a1, a2}
    Vehicles = {v1, v2}
    Workers = {w1}
    Windows <- MCWindows
    NoVehicle = NoVehicle
    NoApproval = NoApproval
SPECIFICATION Spec
SYMMETRY Symmetry
INVARIANTS
    TypeOK
    NoDoubleHold
