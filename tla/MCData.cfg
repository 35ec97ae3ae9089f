INIT MCInit
NEXT MCNext
CONSTANTS
  N = 6
  Q = 3
  Offset = 2
  Caps = {2, 3}
  Radix = 3
  Widths = {1, 2}
  ExtBuffer = 2
  MaxText = 5
  MaxPath = 5
  MaxArg = 3
  Names = {"a", "b"}
  MaxDepth = 2
  Contents = {1}
  Creators = {c1, c2}
  Halves = {0, 1, 2559, 2560, 2815, 2816, 32512, 44047, 44048, 44063, 44064, 49319, 49320, 49321, 65151, 65152, 65215, 65216, 65279, 65280, 65535}
  Ports = {0, 80, 8080, 65535}
  Clients = {k1, k2}
  Prefix = 2
  MaxPolls = 2
  MaxDown = 1
SYMMETRY CreatorsAlike
INVARIANTS Containers BufferIsDeque    InetLaws ChatDelivers
CHECK_DEADLOCK FALSE
