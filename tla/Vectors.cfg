SPECIFICATION Spec
CONSTANTS
  HeapStart = 1000
  HeaderSize = 24
  SplitSlack = 8
  InitialBlock = 32
  Kinds = {"multi", "multi_cd"}
  Marks = {m, n}
  ElementSize = 16
  ReallocAdd = 4
  Slack = 1
  MaxLen = 2
  MaxExtent = 200
INVARIANTS ResizeConstructs
PROPERTIES InsertedAt
