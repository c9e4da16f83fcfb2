CONSTANTS
  w1 = w1  w2 = w2
  r1 = r1  r2 = r2
  MaxTimers = 2
  Intervals <- MCIntervals
  Delays <- MCDelays
  MaxTime = 4
  MaxCancels = 2
SPECIFICATION MCSpec
INVARIANTS
  TimersAreKept
PROPERTIES
  CancelledNeverFires
  DueTimersLeave
  RetentionIsKept
  OldRowsGo
  StopFlushes
CHECK_DEADLOCK FALSE
