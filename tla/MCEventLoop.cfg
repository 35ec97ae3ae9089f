SPECIFICATION MCSpec
CONSTANTS
  Thread = {t1, t2}
  Kind = {"spawn", "quit", "throw"}
  MaxFuncs = 2
  MaxQuitFuncs = 1
  MaxLoops = 2
INVARIANTS NoLostWakeup NoLoopAfterDestruction
PROPERTIES QuitEndsLoop FuncEventuallyRuns QuitFuncsAllRun
CHECK_DEADLOCK FALSE
