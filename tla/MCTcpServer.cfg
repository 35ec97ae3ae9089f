SPECIFICATION FairSpec
CONSTANTS
  MaxClients = 3
  PoolSize = 2
  MaxFds = 2
  MaxStops = 2
INVARIANTS NothingDangles
PROPERTIES StopFinishes 
CHECK_DEADLOCK FALSE
