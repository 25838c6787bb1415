CONSTANTS
  c1 = c1
  c2 = c2
  SysWorker = SysWorker
  NoThread = NoThread
  Clients <- TwoClients
  MaxSessions = 1
  Events <- SessionFaults
  MaxFaults = 2
  MaxDone = 1
  MaxRegions = 2
  Timely = TRUE
SPECIFICATION Spec
SYMMETRY Symmetry
INVARIANTS
  AdmissionBound
  WedgeRemembered
  IdleArmed
  VpuAwake
