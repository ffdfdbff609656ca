SPECIFICATION FairSpec
CONSTANTS
  NDirs = 1
  NLinks = 1
  NFiles = 2
  Size = 2
  SigFrames = 2
  UpCap = 1
  InCap = 2
  DownCap = 2
  EvCap = 2
  OtherAgents = 0
  AgentMayDie = TRUE
  MayFail = TRUE
INVARIANTS
  TypeOK
  PlanHonoured
  PhasesDoNotBlock
PROPERTIES
  ImplementsPublish
  Terminates
