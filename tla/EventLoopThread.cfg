CONSTANTS
  loop = loop  main = main  t1 = t1  t2 = t2
  LoopThread = loop
  Owner = main
  Callers <- MainOnly
  Tasks <- TwoTasks
  SetupTasks <- TwoTasks
  Quitters <- MainOnly
SPECIFICATION ThreadSpec
INVARIANTS StartedLoopIsReady
PROPERTIES StartLoopReturns LateDtorJoins
CHECK_DEADLOCK FALSE
