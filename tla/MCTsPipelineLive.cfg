SPECIFICATION FairSpec
CONSTANTS
  MaxNodes = 3
  MaxSessions = 2
  NodeSizes = {0, 2}
  ReadSizes = {1, 3}
  SizeMax = 2
  EventThreads = {"usb"}
  Faults = {"start", "usb_thread", "ts_thread"}
CHECK_DEADLOCK FALSE
INVARIANTS
  NoUseAfterFree
PROPERTIES
  FreshSession
  EventuallyParsed
  ReaderWakes
  StopOnlyWaitsForTs
  FailedStartStopsUsb
