SPECIFICATION Spec
CONSTANTS
  a = a
  lshift = lshift
  lctrl = lctrl
  rctrl = rctrl
  iso = iso
  Keys <- KeysDef
  Extended <- ExtendedDef
  Entries <- EntriesDef
  Entry <- EntryDef
  ShiftEntries = {"lshift"}
  PrefixEntry = "super"
  Null = "null"
  Code <- CodeDef
  Shifted <- ShiftedDef
  MaxPresses = 3
  WireLength = 3
INVARIANTS LatestKept NeverMoreThanTyped Faithful StateFollows
PROPERTIES HitIsTaken
