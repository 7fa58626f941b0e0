CONSTANTS
    Approvals = {a1, a2}
    Vehicles = {v1}
    Workers = {w1, w2}
    Windows <- MCWindows
    NoVehicle = NoVehicle
    NoApproval = NoApproval
SPECIFICATION Spec
INVARIANT NoDoubleHold
