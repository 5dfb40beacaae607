SPECIFICATION FairSpec
CONSTANTS
  Handles = {0, 1}
  Files = {"DATA.RSDK", "P6IO.BIN"}
  SizeOf <- MCSizeOf
  Sector = 2
  WinSects = 2
  SeekSects = 1
  FailedPrefix = {0}
  ReadSizes = {1, 3, 6}
INVARIANTS TypeOK PosTracked WindowFaithful
PROPERTIES RefinesStdio ReadReturns
