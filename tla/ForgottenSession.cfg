CONSTANTS
    Sessions = {s1}
    Connectors = {c1}
    Workers = {w1}
    Reviewers = {}
    NoSession = NoSession
    NoConnector = NoConnector
    FailAt = {"close", "lookup", "debit", "settle", "queue"}
    Mortal = {}
SPECIFICATION FairSpec
PROPERTY EndedIsAccountedFor
\* The instance runs out of sessions to insert.
CHECK_DEADLOCK FALSE
