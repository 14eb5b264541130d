SPECIFICATION ContentSpec
CONSTANTS
  None = None
  Caller = {1}
  Fetch = {1, 2}
  Key = {"k"}
  Stable = {}
  Swr = {"k"}
  Periodic = {}
  MaxVer = 2
  MaxFaults = 1
  Upload = {1, 2}
  Kubo = "kubo"
  Pinata = "pinata"
  MaxTok = 2
  MaxUploadFaults = 2
  Hasher = {1, 2, 3, 4, 5}
  Cap = 2
  MaxQueue = 3
  MaxAborts = 3
  Flow = {1}
  Try = {1, 2}
  Code = {"c"}
  Account = {"a", "b"}
  Orcid = {"x", "y"}
  Mode = {"accredit", "link"}
  Signer = {1, 2}
  MaxTripFaults = 1
  Claimant = {"admin", "x", "y"}
  Admin = "admin"
  Bridge = "bridge"
  Paper = {"bridge", "x"}
  FirstOps <- Claimed
  MaxOps = 7
  MaxFlight = 2
  Post = {"p"}
  Vote = {"v"}
  Notice = {"n"}
  Tab = {1, 2}
  Enrols = FALSE
  FetchCap = 2
  Limit = 1
  Window = 2
  MaxBlock = 2
  MaxNoticeFaults = 1
INVARIANT NoUnmaking
CHECK_DEADLOCK FALSE
