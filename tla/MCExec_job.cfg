SPECIFICATION FairSpec
CONSTANTS
  MaxChunks = 1
  PipeCap = 1
  QueueCap = 1
  MayLeave = TRUE
  MayLinger = TRUE
  MayBreak = TRUE
INVARIANTS
  TypeOK
  OutputComplete
  ExitFaithful
PROPERTIES
  CommandStopped
  WorkerEnds
  ControllerTold
