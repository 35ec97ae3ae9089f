SPECIFICATION MCSpec
CONSTANTS
  Thread = {t1, t2}
  Main = main
  Kind = {"plain", "quit"}
  MaxFuncs = 2
  MaxQuitFuncs = 0
  MaxLoops = 1
  Workers = {w1}
  Callers = {c1, c2}
  Hosts = {h1}
  NoHost = NoHost
  m_timeout = 1
  MaxCalls = 2
  MaxClock = 2
  N = 3
  MaxDialers = 3
INVARIANTS LoopsAreLive AnsweredOnceInOrder
PROPERTIES LoopThreadFinishes TasksFinish ServeFinishes
CHECK_DEADLOCK FALSE
