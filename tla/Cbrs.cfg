SPECIFICATION FairSpec
CONSTANTS
  Agents = {a1}
  Others = {o1}
  MaxAllocations = 2
  MaxSasCrashes = 1
INVARIANTS
  TypeOK
  AgentAgrees
  GrantsDistinct
  GoneIsForgotten
PROPERTIES
  GainsInOrder
  RequestEnds
CHECK_DEADLOCK FALSE
