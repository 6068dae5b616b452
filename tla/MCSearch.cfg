SPECIFICATION Spec
SYMMETRY MCSymmetry
CHECK_DEADLOCK FALSE
CONSTANTS
  d1 = d1
  d2 = d2
  NoKey = NoKey
  NoVec = NoVec
  Docs <- MCDocs
  Contents <- MCContents
  Kinds <- MCKinds
  Queries <- MCQueries
  Comparands <- MCComparands
  Words <- MCWords
  StopWords <- MCStopWords
  Stem <- MCStem
  LevelsOf <- MCLevelsOf
  M = 2
  EfConstruction = 2
  Rerank = 2
  Centroids = 2
  TrainAt = 3
  Small = 1
  Oversample = 1
  RrfK = 60
  MaxKeys = 4
  MaxCodes = 3
INVARIANTS
  LockStep
  HitsAreStored
  
  
  CodesCurrent
  TextIndexExact
  FusionMonotone
  FilterDuals
