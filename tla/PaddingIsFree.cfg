SPECIFICATION AlignedSpec
CONSTANTS
  Clients = {a1, a2, p}
  Plain = {p}
  Aligns = {64}
  Bits = 16
  Word = 65536
  Sizes = {8, 100}
  Adds = {8}
  HeapStart = 1008
  HeaderSize = 24
  SplitSlack = 8
  InitialBlock = 32
  MaxExtent = 330
INVARIANT PaddingIsFree
