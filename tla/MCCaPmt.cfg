CONSTANTS
  Programs = {1, 2, 3}
  Sections <- MCSections
  NoPmt = NoPmt
  Faults = {}
SPECIFICATION FairSpec
INVARIANTS IInv SentIsInside
PROPERTIES OnlyIntended CamIsServed
