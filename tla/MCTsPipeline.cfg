SPECIFICATION Spec
CONSTANTS
  MaxNodes = 3
  MaxSessions = 2
  NodeSizes = {0, 1, 2}
  ReadSizes = {1, 3}
  SizeMax = 2
  EventThreads = {"usb", "io"}
  Faults = {"start", "usb_thread", "ts_thread", "release"}
CHECK_DEADLOCK FALSE
INVARIANTS
  TypeOK
  IInv
  SizeIsSum
  MemoryBound
  ParsedBeforeRead
PROPERTIES
  InOrder
  NoSpuriousLoss
  ImplementsStream
