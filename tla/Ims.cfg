SPECIFICATION Spec
CONSTANTS
  Ues = {"A", "B", "C"}
  Registered = {"A", "B"}
  Prefix <- AlikeAC
  Vocabulary <- Users
  MaxCommands = 4
  MaxQuits = 1
  MaxTimeouts = 1
INVARIANTS TypeOK ConnectsTheCaller NobodyStuck RegisterEnds CallRings
CHECK_DEADLOCK FALSE
