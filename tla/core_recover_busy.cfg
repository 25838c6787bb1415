CONSTANTS
  c1 = c1
  c2 = c2
  SysWorker = SysWorker
  NoThread = NoThread
  Clients <- TwoClients
  MaxSessions = 2
  Events <- SessionFaults
  MaxFaults = 1
  MaxDone = 1
  MaxRegions = 2
  Timely = TRUE
SPECIFICATION Spec
SYMMETRY Symmetry
PROPERTIES
  RecoverOnlyIdle
