SPECIFICATION FairSpec
CONSTANTS
  r1 = r1  r2 = r2  r3 = r3
  bucket = bucket
  Sheets = {s1, s2}
  NSheets = 1
  Rects = {r1, r2, r3}
  Slots = {1, 2}
  Buckets = {bucket}
  BucketOf <- MCBucketOf
  SlotBucket <- MCSlotBucket
  DLMax = 2
  MaxClock = 3
  SwapWait = TRUE
  FreeRunSwap = FALSE
INVARIANTS
  TypeOK
  SlotCoherent
  BuildIsPrivate
  GateHolds
  MemoProvesIdle
  BuiltListIntact
  ShownIntact
  WholeFrame
PROPERTIES
  MissIsStaged
  ListIsShown
