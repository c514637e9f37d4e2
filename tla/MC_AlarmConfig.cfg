CONSTANTS
  Bogus = {"bogus"}
  MaxOptLen = 3
  MaxConfigure = 1
SPECIFICATION Spec
CHECK_DEADLOCK FALSE
INVARIANTS TypeOK SelectsFirstStartable
