CONSTANTS
    Accounts <- MCAccounts
    Level <- MCLevel
    Trips = {t1}
    Workers = {w1, w2}
    NoAccount = NoAccount
    NoTrip = NoTrip
    Amounts = {0, 1}
    Credits = {0, 1}
    MaxEntries = 2
SPECIFICATION Spec
SYMMETRY Symmetry
INVARIANTS
    TypeOK
    BalanceMatchesBook
    TripBilledOnce
    NoLockCycle
PROPERTY FollowsContract
