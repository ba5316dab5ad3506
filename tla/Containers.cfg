SPECIFICATION Spec
CONSTANTS
  HeapStart = 1
  HeaderSize = 2
  SplitSlack = 1
  InitialBlock = 3
  Kinds = {"string", "type", "instance", "type_cd", "instance_cd", "multi", "multi_cd"}
  Marks = {m}
  ElementSize = 2
  ReallocAdd = 1
  Slack = 2
  MaxLen = 5
  StringReallocAdd = 1
  Names = {s, t}
  Lengths = {1, 5}
  MaxSize = 6
  MaxExtent = 16
SYMMETRY Symmetry
INVARIANTS BlockHolds EachBuiltOnce OneBlockEach
