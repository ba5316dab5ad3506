SPECIFICATION Spec
CONSTANTS
  Callers = {c1, c2}
  Tables = {1, 2, 3}
  Base = 10
  Foreign = {1, 100}
  SizeMax = 12
  MaxTables = 6
INVARIANTS Sound OwnedIsUsed
PROPERTIES KeepsPromise LockReturned
