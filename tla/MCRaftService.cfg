SPECIFICATION FairSpec
CONSTANTS
  n1 = n1
  n2 = n2
  c1 = c1
  c2 = c2
  l1 = l1
  l2 = l2
  Free = Free
  NoLoop = NoLoop
  Nodes <- MCNodes
  Clients <- MCClients
  Loops <- MCLoops
  Home <- MCHome
  MaxPumpRounds = 2
  JoinTimesOut = FALSE
  MaxCuts = 1
INVARIANTS
  
  HandlersExclusive
  WaitsEmptyHanded
PROPERTIES
  CallsReturn
  StopEnds
