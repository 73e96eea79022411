SPECIFICATION FairSpec
CONSTANTS
  RingSize = 4
  BurstSize = 2
  PoolSize = 7
  MaxPackets = 6
  MaxRetries = 3
  NoPdr = {2}
  FarDrop = {3}
INVARIANTS TypeOK Conserved Drained
PROPERTIES ImplementsFifo BenchmarkEnds
CHECK_DEADLOCK FALSE
