SPECIFICATION Spec
CONSTANTS
  DownCap = 2
  UpCap = 2
  InCap = 2
  MayFail = TRUE
  MayStop = FALSE
INVARIANT
  NoWedge
