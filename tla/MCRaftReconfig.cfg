SPECIFICATION Spec
SYMMETRY MCSymmetry
CHECK_DEADLOCK FALSE
CONSTANTS
  n1 = n1
  n2 = n2
  n3 = n3
  c1 = c1
  Nobody = Nobody
  Nodes <- MCNodes
  InitialMembers <- MCNodes
  Commands <- MCCommands
  MaxTerm = 3
  MaxLog = 2
  MaxInFlight = 0
  MaxCopies = 0
  MaxTicks = 5
  MaxCompactions = 0
  MaxReconfigs = 2
  MaxRestarts = 0
INVARIANTS
  ElectionSafety
