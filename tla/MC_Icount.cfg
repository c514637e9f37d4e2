CONSTANTS
  MAX_ICOUNT_SHIFT = 10
  ICOUNT_WOBBLE = 20
  MAX_ADVANCE = 5
  InitShift = 3
  FixedShifts = {0, 2}
  HostDeadlines = {0, 1}
  HostSteps = {1, 10}
  MaxIcount = 4
  MaxHost = 30
SPECIFICATION Spec
INVARIANTS TypeOK RoundIsCeiling
PROPERTIES VirtualTimeNeverBack AdvanceStopsAtTimer
