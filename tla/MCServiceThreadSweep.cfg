CONSTANTS
  MaxTunes = 2
  Faults = {}
SPECIFICATION Spec
INVARIANT LockIsCurrent
CHECK_DEADLOCK FALSE
