SPECIFICATION Spec
SYMMETRY MCSymmetry
CHECK_DEADLOCK FALSE
CONSTANTS
  r1 = r1
  r2 = r2
  d1 = d1
  d2 = d2
  v1 = v1
  v2 = v2
  NoVal = NoVal
  Bad = Bad
  Replicas <- MCReplicas
  Docs <- MCDocs
  Values <- MCValues
  StaleInstalls = FALSE
  MaxLog = 3
  MaxSnapshots = 2
  MaxRestarts = 1
  MaxFaults = 1
INVARIANTS
  TypeOK
  Converging
  SnapshotCovers
