SPECIFICATION FairSpec
CONSTANTS
  Callers = {c}
  Vectors = {v}
  Blocks = {b1, b2}
  Functions = {"push", "pop", "insert"}
  Null = null
  MaxLen = 2
PROPERTIES InsertReturns
