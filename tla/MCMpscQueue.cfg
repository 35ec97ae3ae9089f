SPECIFICATION FairSpec
CONSTANTS
  Producer = {p1, p2}
  Node = {n1, n2, n3}
  Item = {a, b}
  NULL = NULL
  NoData = NoData
  MaxEnqueues = 4
INVARIANTS MemorySafe NoLeak
PROPERTIES ImplementsFifo EventuallyTaken
CHECK_DEADLOCK FALSE
