SPECIFICATION Spec
CONSTANTS
  Account = {"a", "b"}
  Passworded = {"a"}
  None = None
  Act = {1, 2}
  Flight = {1, 2}
  MaxLogins = 2
  MaxGen = 2
INVARIANT ScrubHolds
CHECK_DEADLOCK FALSE
