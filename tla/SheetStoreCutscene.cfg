SPECIFICATION Spec
CONSTANTS
  Raw <- MCRaw
  Frd <- MCFrd
  End = 416
  FrdSlots = 16
  MaxFaults = 3
INVARIANTS ResidentsConsistent
