SPECIFICATION MCSpec
CONSTANTS
  Thread = {t1}
  Kinds = {"msg", "file", "stream"}
  Size = 2
  MaxSends = 2
  MaxIn = 1
  HighWaterMark = 1
INVARIANTS  SendsInOrder WritingHasWork
PROPERTIES MessagesFlushed MessagesDrain
CHECK_DEADLOCK FALSE
