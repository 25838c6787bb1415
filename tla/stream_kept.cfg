CONSTANTS
  i1 = i1
  i2 = i2
  o1 = o1
  o2 = o2
  None = None
  Eos = Eos
  InBufs <- OneInput
  OutBufs <- TwoOutputs
  Codecs <- Vp9
  Events <- AllFaults
  MaxFaults = 0
  MaxOns <- Ons
  MaxStops = 0
  MaxChanges = 0
  MaxDrops = 1
  MaxDone = 2
  Careless = FALSE
SPECIFICATION Spec
SYMMETRY Symmetry
CHECK_DEADLOCK FALSE
INVARIANTS
  NothingKept
