CONSTANTS
  Bogus = {"bogus"}
  MaxOptLen = 3
  MaxConfigure = 2
SPECIFICATION Spec
CHECK_DEADLOCK FALSE
INVARIANT UnknownNamesWarned
