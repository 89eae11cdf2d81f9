\* Two foreign threads, three functors, quit() from the loop thread and from
\* one of the others.
CONSTANTS
  loop = loop  a = a  b = b  t1 = t1  t2 = t2  t3 = t3
  LoopThread = loop
  Callers <- TwoCallers
  Tasks <- ThreeTasks
  SetupTasks <- NoTasks
  Quitters <- QuitFromBothSides
SPECIFICATION Spec
INVARIANTS TypeOK NoLostWakeup
PROPERTIES RefinesTaskQueue QuitStops
CHECK_DEADLOCK FALSE
