SPECIFICATION Spec
SYMMETRY MCSymmetry
CHECK_DEADLOCK FALSE
CONSTANTS
  n1 = n1
  n2 = n2
  n3 = n3
  c1 = c1
  Nobody = Nobody
  Nodes <- MCNodes
  InitialMembers <- MCNodes
  Commands <- MCCommands
  MaxTerm = 2
  MaxLog = 1
  MaxInFlight = 2
  MaxCopies = 0
  MaxTicks = 3
  MaxCompactions = 0
  MaxReconfigs = 0
  MaxRestarts = 0
INVARIANTS
  CommittedOnQuorum
