SPECIFICATION FairSpec
CONSTANTS
  DownCap = 4
  UpCap = 4
  InCap = 4
  MayFail = TRUE
  MayStop = TRUE
INVARIANTS
  TypeOK
  OnlyWedge
PROPERTIES
  LockReleased
  CancelArrives
CHECK_DEADLOCK FALSE
