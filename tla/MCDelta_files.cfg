SPECIFICATION FairSpec
CONSTANTS
  Byte = {0, 1}
  MaxBase = 5
  MaxSource = 5
  WeakMod = 2
  SmallBlock = 2
  LargeBlock = 3
  LargeFile = 4
  DeltaMinSize = 2
  SigCost = 1
  Chunk = 2
  ReadChunk = 2
  MayChange = TRUE
  MayFail = TRUE
INVARIANTS
  TypeOK
  RollExact
  StreamExact
  FramesFit
  OneCopyForPrefix
  RefusedOnlyOnChange
PROPERTIES
  Ends
