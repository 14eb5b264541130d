SPECIFICATION ServicesSpec
CONSTANTS
  None = None
  r1 = r1
  r2 = r2
  Req = {r1, r2}
  Jwt = {1, 2}
  Win = {1}
  PerSecond = 2
  Idle = 2
  Cap = 3
  MaxNow = 3
  MaxCuts = 1
  MaxFaults = 1
  Rated = {r1, r2}
  Weights = {"w1", "w2"}
  MaxCycle = 1
  MaxGov = 2
  MaxHands = 1
  MaxBatchFaults = 2
  Call = {1, 2}
  MaxSent = 2
  Key = {"k"}
  Target = {"t1", "t2"}
  Proof = {"p1"}
  ProofTarget <- OneProof
  MaxTxOps = 2
  Person = {r1, r2}
  Choice <- TwoKeys
  Foreign = "k3"
  MaxTok = 3
  MailCap = 1
  Account = {"root", "a", "b"}
  Root = "root"
  Acts = {"grant"}
  Ttl = 1
  FirstOps <- TwoAdmins
  MaxOps = 4
  MaxRosterNow = 0
  MaxRosterFaults = 0
  Header = {"h"}
  Signed <- OneHeader
  Limiter <- OneSlot
  MaxEras = 1
INVARIANTS ServicesTypeOK BroadcastOnce SignupsSound MailAccreditsOnce ScoresWhole AnnouncedOnce RosterSound RequestsHold
PROPERTIES SessionsHold
SYMMETRY Symmetry
CHECK_DEADLOCK FALSE
