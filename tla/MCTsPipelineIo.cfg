SPECIFICATION Spec
CONSTANTS
  MaxNodes = 1
  MaxSessions = 1
  NodeSizes = {0, 1, 2}
  ReadSizes = {1, 3}
  SizeMax = 2
  EventThreads = {"usb", "io"}
  Faults = {}
CHECK_DEADLOCK FALSE
INVARIANTS
  NoUseAfterFree
