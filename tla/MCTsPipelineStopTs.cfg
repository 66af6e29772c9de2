SPECIFICATION FairSpec
CONSTANTS
  MaxNodes = 1
  MaxSessions = 1
  NodeSizes = {0, 2}
  ReadSizes = {1, 3}
  SizeMax = 2
  EventThreads = {"usb"}
  Faults = {}
CHECK_DEADLOCK FALSE
PROPERTIES
  StopReturns
