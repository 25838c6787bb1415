CONSTANTS
  c1 = c1
  c2 = c2
  SysWorker = SysWorker
  NoThread = NoThread
  Clients <- OneClient
  MaxSessions = 1
  Events <- SoloFaults
  MaxFaults = 6
  MaxDone = 1
  MaxRegions = 2
  Timely = TRUE
SPECIFICATION FairSpec
INVARIANTS
  PowerBalanced
  DeinitHoldsNothing
PROPERTIES
  RecoveryRuns
  ClientsFinish
