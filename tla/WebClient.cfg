CONSTANTS
    Calls = {c1, c2}
    Tenants = {t1}
    Own = Own
    MaxPairs = 2
    MaxLosses = 1
    MaxSwitches = 1
    MaxDrops = 1
SPECIFICATION FairSpec
INVARIANTS
    TypeOK
    RefreshTokenUsedOnce
    FeedSpeaksForSession
PROPERTIES
    CallsComeToAnEnd
    FeedComesBack
\* Everybody may log out when no more pairs can be issued.
CHECK_DEADLOCK FALSE
