SPECIFICATION Spec
CONSTANTS
  Kinds = {"usable", "reserved"}
  Lengths = {2, 6}
  Gaps = {0, 2}
  MaxEntries = 4
  HeapSize = 4
  PageSize = 2
  PageCount = 3
  HeaderLen = 1
  Word = 1024
INVARIANTS
  HeapSeparate
  Joined
  HeapsApart
