SPECIFICATION Spec
CONSTANTS
  MaxConn = 2
  MaxSess = 2
  MaxFails = 1
  MaxTimeouts = 1
  MaxPmts = 1
  Tries = 1
  Polls = 1
  MaxActs = 3
  MaxEvents = 3
CHECK_DEADLOCK FALSE
INVARIANTS
  IInv
  CaNumberValid
  PeersAgree
  NoUseAfterClose
PROPERTIES
  CaMessagesToCa
  Delivered
  CloseTerminates
