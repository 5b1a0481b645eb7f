CONSTANTS
  Req = {r1, r2, r3}
  Quiet = 2
  Timeout = 5
  MaxHops = 1
SPECIFICATION IdleSpec
CHECK_DEADLOCK FALSE
PROPERTY QuietIsSeen
