SPECIFICATION Spec
CONSTANTS
  RingSize = 4
  BurstSize = 2
  PoolSize = 7
  MaxPackets = 9
  MaxRetries = 0
  NoPdr = {}
  FarDrop = {}
INVARIANT AllocGivesFree
CHECK_DEADLOCK FALSE
