SPECIFICATION Spec
CONSTANTS
  Zones = {"GHZ1", "GHZ2"}
  NLayers = 2
  FGLow = 0
  FGHigh = 1
  Fits = {0}
  XSize = 2
  YSize = 3
  WinCols = 1
  WinRows = 2
  BandRows = 2
  Probes <- MCProbes
  Breakable <- MCBreakable
  NoZone = "none"
INVARIANTS TypeOK WindowsExact WindowsOfLayer
PROPERTIES KeepsJustRead
