SPECIFICATION FairSpec
CONSTANTS
    r = r
    s = s
    a = a
    b = b
    Request = {r, s}
    Account = {a, b}
    Plans <- MCPlans
    BROADCAST_TIMEOUT = 1
    PROBE_TIMEOUT = 1
    LOCK_TTL = 2
    HAF_LAG = 2
    Bounds <- MCBounds
    None = None
INVARIANTS
    OneAccount
    LockHolds
PROPERTIES
    EveryBindEnds
CHECK_DEADLOCK FALSE
