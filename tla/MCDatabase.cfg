SPECIFICATION Spec
SYMMETRY MCSymmetry
CHECK_DEADLOCK FALSE
CONSTANTS
  t1 = t1
  t2 = t2
  d1 = d1
  d2 = d2
  Threads <- MCThreads
  Names <- MCNames
  Docs <- MCDocs
  Overlaps = FALSE
  MaxObjects = 3
  MaxCrashes = 1
INVARIANTS
  CreatedOpens
  
  
  
