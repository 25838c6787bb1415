SPECIFICATION Spec
CONSTANTS
  f1 = f1
  f2 = f2
  Instances <- TwoFiles
  Frames <- TwoFrames
  Used <- TwoCodecs
  Limits <- Platforms
  Fps <- TwoRates
  Counts <- OneCount
  Minimums <- OneMin
  Pipes = 2
  Careless = FALSE
INVARIANTS
  TypeOK
  ReservedFits
  
  ToldAgrees
  
  ReleasedClean
  CoresApart
  
SYMMETRY Symmetry
CHECK_DEADLOCK FALSE
