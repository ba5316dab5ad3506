SPECIFICATION Spec
CONSTANTS
  HeapStart = 1000
  HeaderSize = 24
  SplitSlack = 8
  InitialBlock = 32
  StringReallocAdd = 4
  ReallocAdd = 4
  ElementSize = 16
  Foreign = 32
  Chars <- CharsDef
  Lines <- LinesDef
  Cmds <- CmdsDef
  TimeParts <- TimePartsDef
  HasDevices = FALSE
  Start = 2
  Width = 9
  MaxCommands = 2
INVARIANTS TokensAreWords BlocksSound NothingLeaks EditorFollows
