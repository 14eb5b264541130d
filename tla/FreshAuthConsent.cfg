SPECIFICATION FairSpec
CONSTANTS
    r1 = r1
    r2 = r2
    Request = {r1, r2}
    Wrong = {r2}
    TTL = 1
    MaxNow = 2
    MaxPipe = 3
    Issuer = Issuer
    Drain = Drain
    Nobody = Nobody
INVARIANTS SingleUse LedgerGuards NoSpuriousRefusal
PROPERTIES PresentationEnds LedgerDrains ImplementsOneShotProof
