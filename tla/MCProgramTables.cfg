SPECIFICATION Spec
CONSTANTS
  Programs = {1, 2}
  PmtPids = {32, 33}
  StreamPids = {64, 65}
  Pats <- MCPats
  Pmts <- MCPmts
  Services <- MCServices
  Cats <- MCCats
  Selections <- MCSelections
  Waits = 2
  MaxChanges = 1
  MaxFails = 1
CHECK_DEADLOCK FALSE
INVARIANTS
  FilterMatches
  PatComplete
  Named
