\* The same instance, with the promise that acceptHandRead always returns.
CONSTANTS
  c1 = c1  c2 = c2  c3 = c3  o1 = o1
  NullFile = nullFile  NoFile = noFile
  Clients <- SomeClients  Others <- SomeOthers
  MaxThreads = 2  MaxFds = 3
SPECIFICATION Spec
PROPERTY AcceptorReturns
CHECK_DEADLOCK FALSE
