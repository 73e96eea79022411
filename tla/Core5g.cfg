SPECIFICATION FairSpec
CONSTANTS
  Gnbs = {g1, g2}
  Ues = {1, 2}
  PoolSize = 1
  Running = {"NRF", "UPF", "UDM"}
  DefaultFinds = {"UPF"}
  MaxCommands = 2
  MaxCrashes = 1
INVARIANTS TypeOK VerdictsRight AmfKeptWithoutKill SharedAddressExplained
PROPERTIES CommandEnds
CHECK_DEADLOCK FALSE
