SPECIFICATION Spec
CONSTANTS
  Thread = {t1}
  Kinds = {"file"}
  Size = 2
  MaxSends = 1
  MaxIn = 0
  HighWaterMark = 1
INVARIANTS PendingIsWatched
CHECK_DEADLOCK FALSE
