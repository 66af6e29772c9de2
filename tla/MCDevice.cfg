SPECIFICATION Spec
CONSTANTS
  Threads = {"fe", "ci"}
  NoThread = "none"
  MaxFails = 1
  CleanupReads = 1
  Depth = 2
  MaxOps <- MCMaxOps
  MaxCalls = 2
  MaxKilled = 1
  MaxSessions = 2
  PollBudget = 4
  MaxSize = 1
CHECK_DEADLOCK FALSE
INVARIANTS
  IInv
  SkewBounded
  HardwareAsAsked
  I2cTruth
PROPERTIES
  ImplementsChannel
  EveryCallReturns
