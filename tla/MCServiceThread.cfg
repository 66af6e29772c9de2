CONSTANTS
  MaxTunes = 3
  Faults = {"thread", "frontend"}
SPECIFICATION FairSpec
INVARIANTS IInv FrontendExclusive
PROPERTIES Monitored StaleStatusPasses TuneGetsFrontend StopOnlyWaitsForPaused
CHECK_DEADLOCK FALSE
