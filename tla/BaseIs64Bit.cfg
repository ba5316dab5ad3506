SPECIFICATION Spec
CONSTANTS
  Kinds = {"none", "ahci"}
  NFunctions = 2
  Slack = 0
  Half = 4
  Halves = {0, 1, 2, 3}
  Hhdm = 5
  Null = null
INVARIANT BaseIs64Bit
CHECK_DEADLOCK FALSE
