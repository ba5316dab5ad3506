SPECIFICATION Spec
CONSTANTS
  Clients = {c1, c2, c3}
  Sizes = {8, 41}
  Adds = {8}
  HeapStart = 1000
  HeaderSize = 24
  SplitSlack = 8
  InitialBlock = 32
  MaxExtent = 200
SYMMETRY Symmetry
INVARIANT EndIsLast
