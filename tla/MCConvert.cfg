SPECIFICATION Spec
CONSTANTS
  Bits = 16
  IntLenU = 5
  IntLenI = 6
  Arguments <- ArgumentsDef
INVARIANTS Converted ReadBack
CHECK_DEADLOCK FALSE
