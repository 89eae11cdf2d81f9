CONSTANTS
  w1 = w1  w2 = w2  p1 = p1  p2 = p2  user = user  main = main  a = a  b = b
  Waiters <- TwoWorkers
  Pushers <- TwoPushers
  Pollers <- OnePoller
  Stoppers <- OwnerOnly
  Owner = main
  Tasks <- TwoTasks
  Nodes <- ThreeNodes
  NoTask = noTask
  Null = null
  Unlocked = unlocked
SPECIFICATION Spec
INVARIANTS NodesApart StrandedOnlyInWindow
PROPERTIES QueueIsFifo TasksAreTaken AddTaskReturns
CHECK_DEADLOCK FALSE
