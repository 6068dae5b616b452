SPECIFICATION Spec
SYMMETRY MCSymmetry
CONSTANTS
  k1 = k1
  k2 = k2
  v1 = v1
  v2 = v2
  Keys <- MCKeys
  Values <- MCTwoValues
  Tombstone = Tombstone
  NoKey = NoKey
  MemtableMax = 2
  CompactionTrigger = 2
  StrictClock = TRUE
  AppendFaults = FALSE
  MaxSeq = 4
  MaxCrashes = 1
  MaxFaults = 1
  MaxWal = 1
INVARIANTS
  TypeOK
  NothingLost
  ManifestFilesExist
  SeqNotReused
PROPERTIES
  
  ImplementsDurableMap
