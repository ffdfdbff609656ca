SPECIFICATION FairSpec
CONSTANTS
  c1 = c1
  c2 = c2
  NoCtrl = NoCtrl
  Ctrls = {c1, c2}
  JobFrames = 2
  QueueCap = 1
  LinkMayBreak = TRUE
INVARIANTS
  TypeOK
  FlushMeansWritten
  ObeyedNotRefused
PROPERTIES
  StopEndsAgent
