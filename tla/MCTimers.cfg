SPECIFICATION MCSpec
CONSTANTS
  Thread = {t1}
  MaxTimers = 2
  MaxTime = 4
  Delays = {0, 2}
  Intervals = {0, 1}
  Tags = {"normal"}
  Conn = {c1}
  MaxTimeout = 12
  TickInterval = 1
  BucketsNum = 3
  WheelDelays = {1, 2, 3, 4, 5, 6, 7, 8, 9, 10, 11, 12}
  MaxTicks = 24
INVARIANTS HeapIsArmed 
PROPERTIES RunsAsAsked TimerEventuallyRuns
CHECK_DEADLOCK FALSE
