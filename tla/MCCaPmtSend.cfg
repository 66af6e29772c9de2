CONSTANTS
  Programs = {1, 2}
  Sections <- MCSections
  NoPmt = NoPmt
  Faults = {"send"}
SPECIFICATION Spec
INVARIANTS SentIsInside
