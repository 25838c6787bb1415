CONSTANTS
  i1 = i1
  i2 = i2
  o1 = o1
  o2 = o2
  None = None
  Eos = Eos
  InBufs <- OneInput
  OutBufs <- TwoOutputs
  Codecs <- AllCodecs
  Events <- AllButCorrupt
  MaxFaults = 1
  MaxOns <- Ons
  MaxStops = 1
  MaxChanges = 1
  MaxDrops = 1
  MaxDone = 2
  Careless = FALSE
SPECIFICATION Spec
SYMMETRY Symmetry
CHECK_DEADLOCK FALSE
INVARIANTS
  TypeOK
  Healthy
  FlushCounted
  CaptureNeverInit
  Ownership
  
  
  
  OnePool
  ClosedEmpty
  PauseKnown
PROPERTIES
  PoolReturned
