SPECIFICATION Spec
SYMMETRY MCSymmetry
CHECK_DEADLOCK FALSE
CONSTANTS
  d1 = d1
  d2 = d2
  v1 = v1
  r1 = r1
  t1 = t1
  NoVal = NoVal
  Docs <- MCDocs
  Values <- MCValues
  Readers <- MCReaders
  Txns <- MCTxns
  StoreFaults = TRUE
  MaxSeq = 3
  INF = 9
  MaxBatch = 2
  MaxRebuilds = 1
  MaxCrashes = 1
INVARIANTS
  TypeOK
  SnapshotConsistent
  FoundStaysThere
  TablesMatchStore
  OneVersionPerDoc
PROPERTIES
  FirstCommitterWins
