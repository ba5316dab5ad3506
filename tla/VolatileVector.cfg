SPECIFICATION VvecSpec
CONSTANTS
  Callers = {c, d}
  Vectors = {v, w}
  Blocks = {b1, b2, b3, b4}
  Functions = {"resize", "push", "pop", "free", "take_over", "insert"}
  Null = null
  MaxLen = 2
INVARIANTS Exclusive OwnBlocks
PROPERTIES LockReturned
