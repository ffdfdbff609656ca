SPECIFICATION Spec
CONSTANTS
  NDirs = 0
  NLinks = 0
  NFiles = 1
  Size = 3
  SigFrames = 1
  UpCap = 1
  InCap = 1
  DownCap = 1
  EvCap = 1
  OtherAgents = 0
  AgentMayDie = TRUE
  MayFail = FALSE
INVARIANT
  NoGridlock
