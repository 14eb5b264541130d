SPECIFICATION FairSpec
CONSTANTS
    p = p
    q = q
    r = r
    work = work
    Home = Home
    Request = {p, q, r}
    Mailbox = {Home, work}
    First = First
    None = None
INVARIANTS
    ResetTokenFits
PROPERTIES
    EvictedResetDead
    EmailProven
    StagedRowsGo
CHECK_DEADLOCK FALSE
