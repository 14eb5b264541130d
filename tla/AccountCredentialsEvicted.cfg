SPECIFICATION Spec
CONSTANTS
    p = p
    q = q
    r = r
    work = work
    Home = Home
    Request = {p, q, r}
    Mailbox = {Home, work}
    First = First
    None = None
INVARIANT EvictedChangeStaysDead
CHECK_DEADLOCK FALSE
