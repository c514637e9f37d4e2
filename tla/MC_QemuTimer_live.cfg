CONSTANTS
  a = a
  b = b
  r = r
  Timers = {a, r}
  ClockOf <- MCClockOfPair
  Dynticks = TRUE
  PERIOD = 1
  MIN_TIMER_REARM = 1
  Delays = {0, 1, 2}
  CallbackDelays = {1, 2}
  MaxTime = 2
SPECIFICATION FairSpec
VIEW StateView
PROPERTIES
  DueTimerRuns
