SPECIFICATION Spec
CONSTANTS
  MaxUe = 2
  MaxMobility = 1
  MaxTimeouts = 0
  MaxDrops = 0
INVARIANT PathSwitchToOwnTeid
CHECK_DEADLOCK FALSE
