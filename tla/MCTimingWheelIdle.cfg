SPECIFICATION Spec
CONSTANTS
  Conn = {c1}
  MaxTimeout = 4
  TickInterval = 1
  BucketsNum = 5
  Delays = {4}
  MaxTicks = 6
INVARIANTS OnlyIdleKicked
CHECK_DEADLOCK FALSE
