SPECIFICATION Spec
SYMMETRY MCPairSymmetry
CHECK_DEADLOCK FALSE
CONSTANTS
  n1 = n1
  n2 = n2
  n3 = n3
  c1 = c1
  Nobody = Nobody
  Nodes <- MCNodes
  InitialMembers <- MCPair
  Commands <- MCCommands
  MaxTerm = 2
  MaxLog = 2
  MaxInFlight = 0
  MaxCopies = 0
  MaxTicks = 2
  MaxCompactions = 1
  MaxReconfigs = 1
  MaxRestarts = 1
INVARIANTS
  TypeOK
  LeaderTracksPeers
  OnlyAppliedCompacted
PROPERTIES
  LeaderAppendOnly
