SPECIFICATION Spec
CONSTANTS
  Millis = 2
  Seconds = 2
  Minutes = 2
  Hours = 4
  Beyond = {0, 31}
  BootTimes = {6256, 6311, 6992, 11648, 12596}
  MaxTicks = 8
  MaxUpdates = 3
INVARIANT CurrentTime
