SPECIFICATION MCSpec
CONSTANTS
  Waiters = {t1, t2}
  Caller = c
  Closer = c
  Sockets = {s1, s2}
  Masks = {{"IN"}, {"OUT", "ONESHOT"}}
  GroupSize = 1
  MaxEvents = 2
  MaxCalls = 3
  MaxChanges = 1
  Fds = {f1, f2}
  Kinds = {"epoll", "poll", "kqueue"}
  InitEvents = 1
  MaxList = 4
INVARIANTS WepollMemorySafe SocketsArePolled 
PROPERTY ReadyIsHandled
