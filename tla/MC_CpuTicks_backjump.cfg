CONSTANTS
  MaxHost = 3
  MaxClock = 3
  MaxSuspends = 2
SPECIFICATION Spec
PROPERTIES TicksRefinement
