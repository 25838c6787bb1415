CONSTANTS
  c1 = c1
  c2 = c2
  SysWorker = SysWorker
  NoThread = NoThread
  Clients <- OneClient
  MaxSessions = 2
  Events <- WakePower
  MaxFaults = 1
  MaxDone = 1
  MaxRegions = 2
  Timely = TRUE
SPECIFICATION Spec
INVARIANTS
  PowerBalanced
