SPECIFICATION Spec
CONSTANTS
  s1 = s1
  s2 = s2
  Platforms <- AllPlatforms
  Sessions <- TwoSessions
  CanFail <- Unwound
  Answers <- Always
  MaxFails = 1
  MaxCycles = 2
  MaxIrqs = 2
  MaxOpp = 3
  MaxBw = 5
  Threshold = 2
  Freqs <- SomeFreqs
  Bws <- SomeBws
  Careless = FALSE
INVARIANTS
  TypeOK
  Balanced
  Ordered
  IrqBalanced
  CacheTrue
  VotesCovered
SYMMETRY Symmetry
CHECK_DEADLOCK FALSE
