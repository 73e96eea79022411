SPECIFICATION Spec
CONSTANTS
  MaxUe = 2
  MaxMobility = 2
  MaxTimeouts = 1
  MaxDrops = 1
INVARIANTS
  TypeOK
  IdsAgree
  RegisteredIsServed
  SessionsDisjoint
  OwnSession
  StoredTeidOwned
  LatestTeidStored
  OnlyDropsCost
PROPERTY EmmForward
CHECK_DEADLOCK FALSE
