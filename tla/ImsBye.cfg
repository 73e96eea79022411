SPECIFICATION Spec
CONSTANTS
  Ues = {"A", "B", "C"}
  Registered = {"A", "B"}
  Prefix <- Distinct
  Vocabulary <- Users
  MaxCommands = 4
  MaxQuits = 1
  MaxTimeouts = 1
INVARIANT ByeEndsCall
CHECK_DEADLOCK FALSE
