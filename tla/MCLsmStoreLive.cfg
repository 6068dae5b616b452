SPECIFICATION FairSpec
CONSTANTS
  k1 = k1
  k2 = k2
  v1 = v1
  v2 = v2
  Keys <- MCKeys
  Values <- MCOneValue
  Tombstone = Tombstone
  NoKey = NoKey
  MemtableMax = 2
  CompactionTrigger = 2
  StrictClock = TRUE
  AppendFaults = TRUE
  MaxSeq = 3
  MaxCrashes = 1
  MaxFaults = 1
  MaxWal = 1
PROPERTIES
  CallsEnd
