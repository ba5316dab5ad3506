SPECIFICATION Spec
CONSTANTS
  HeapStart = 1000
  HeaderSize = 24
  SplitSlack = 8
  InitialBlock = 32
  StringReallocAdd = 4
  ReallocAdd = 4
  ElementSize = 16
  Foreign = 32
  Lines <- LongLinesDef
  Cmds <- CmdsDef
  TimeParts <- TimePartsDef
  Chars <- CharsDef
  HasDevices = FALSE
  Start = 2
  Width = 20
  MaxCommands = 3
INVARIANTS LineIsRead
