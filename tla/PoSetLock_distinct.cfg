SPECIFICATION Spec
CONSTANTS
  merge = merge
  redo = redo
  sweep = sweep
  NoAction = NoAction
  Clients <- MCClients
  Actions <- MCActions
  ActionOf <- MCDistinct
  Timeout = 2
  MaxTime = 7
INVARIANTS
  InTimeHolderKeepsLock
  OneInTimeHolder
PROPERTIES
  CleanupSparesFreshLocks
CHECK_DEADLOCK FALSE
