SPECIFICATION FairSpec
CONSTANTS
  MaxUe = 2
  MaxMobility = 1
  MaxTimeouts = 0
  MaxDrops = 0
PROPERTY ProceduresEnd
CHECK_DEADLOCK FALSE
