SPECIFICATION FairSpec
CONSTANTS
  MaxFds = 3
  MaxConnects = 2
  MaxAgain = 1
  MaxStops = 2
INVARIANTS SocketsOwned AnnouncedIsEstablished
PROPERTIES Reconnects
CHECK_DEADLOCK FALSE
