CONSTANTS
    Sessions = {s1, s2}
    Connectors = {c1}
    Workers = {w1, w2, r1}
    Reviewers = {r1}
    NoSession = NoSession
    NoConnector = NoConnector
    FailAt = {"close", "lookup", "debit", "settle", "queue"}
    Mortal = {w1, w2, r1}
SPECIFICATION Spec
SYMMETRY Symmetry
INVARIANTS
    TypeOK
    OneSessionPerConnector
    DebitedOnce
PROPERTIES
    SettledForGood
    FollowsContract
\* The instance runs out of sessions to insert.
CHECK_DEADLOCK FALSE
