SPECIFICATION Spec
CONSTANTS
  Req = {1, 2}
  Kubo = Kubo
  Pinata = Pinata
  None = None
  MaxTok = 2
  MaxFaults = 1
PROPERTY CompensationSparesPublished
CHECK_DEADLOCK FALSE
