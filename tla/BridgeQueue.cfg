SPECIFICATION FairSpec
CONSTANTS
    u = u
    v = v
    p = p
    q = q
    Request = {1, 2}
    User = {u, v}
    Permlink = {p, q}
    Submissions <- MCSubmissions
    BRIDGE_QUEUE_USER_CAP = 1
    BRIDGE_QUEUE_MAX_ATTEMPTS = 1
    BRIDGE_CHAIN_COOLDOWN = 2
    BRIDGE_QUEUE_LEASE = 1
    TX_EXPIRY = 1
INVARIANTS
    LimitsHold
    RowsSound
PROPERTIES EveryImportEnds
CHECK_DEADLOCK FALSE
