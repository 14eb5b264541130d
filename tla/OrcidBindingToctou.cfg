SPECIFICATION Spec
CONSTANTS
    r = r
    s = s
    a = a
    b = b
    Request = {r, s}
    Account = {a, b}
    Plans <- MCPlans
    BROADCAST_TIMEOUT = 1
    PROBE_TIMEOUT = 1
    LOCK_TTL = 2
    HAF_LAG = 2
    Bounds <- MCCalm
    None = None
INVARIANT NotATOCTOU
CHECK_DEADLOCK FALSE
