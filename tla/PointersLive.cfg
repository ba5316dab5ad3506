SPECIFICATION Spec
CONSTANTS
  Kinds = {"none", "ahci", "nvm"}
  NFunctions = 3
  Slack = 1
  Half = 4
  Halves = {1}
  Hhdm = 5
  Null = null
INVARIANT PointersLive
CHECK_DEADLOCK FALSE
