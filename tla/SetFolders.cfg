SPECIFICATION Spec
SYMMETRY MCSymmetry
CONSTANTS
  d1 = d1
  d2 = d2
  n1 = n1
  n2 = n2
  n3 = n3
  Docs = {d1, d2}
  Slots = {n1, n2, n3}
  MaxLives = 2
  MaxDrops = 2
  MaxTries = 2
  MaxFaults = 1
  None = None
INVARIANTS
  TypeOK
  NotesAreTrue
PROPERTIES
  LastCopyIsKept
  RemovalIsComplete
  NothingStaysBehind
  FoldersAreNotShared
CHECK_DEADLOCK FALSE
