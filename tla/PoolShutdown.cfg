SPECIFICATION FairSpec
CONSTANTS
  Workers = {w1, w2}
  MaxTasks = 1
PROPERTIES
  ShutdownCompletes
CHECK_DEADLOCK FALSE
