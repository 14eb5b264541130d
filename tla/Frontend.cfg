SPECIFICATION FrontendSpec
CONSTANTS
  None = None
  Account = {"a", "b"}
  Passworded = {"a"}
  Act = {1, 2}
  Flight = {1, 2}
  MaxLogins = 2
  MaxGen = 2
INVARIANTS FrontendTypeOK ActsAsSubject PromptsSound  LandedStays VersionsStand
CHECK_DEADLOCK FALSE
