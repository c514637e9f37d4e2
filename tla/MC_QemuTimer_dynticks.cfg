CONSTANTS
  a = a
  b = b
  r = r
  Timers = {a, b, r}
  ClockOf <- MCClockOf
  Dynticks = TRUE
  PERIOD = 1
  MIN_TIMER_REARM = 1
  Delays = {0, 1, 2}
  CallbackDelays = {0, 1, 2}
  MaxTime = 2
SYMMETRY MCSymmetry
SPECIFICATION Spec
VIEW StateView
INVARIANTS
  TypeOK
  ListsWellFormed
PROPERTIES
  FiresOncePerPass
  ServiceRefinement
