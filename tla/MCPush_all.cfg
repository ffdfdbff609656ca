SPECIFICATION FairSpec
CONSTANTS
  NDirs = 1
  NLinks = 1
  NFiles = 2
  Size = 1
  SigFrames = 2
  UpCap = 1
  InCap = 1
  DownCap = 1
  EvCap = 2
  OtherAgents = 0
  AgentMayDie = TRUE
  MayFail = TRUE
INVARIANTS
  TypeOK
  PhasesDoNotBlock
PROPERTIES
  ImplementsPublish
  Terminates
