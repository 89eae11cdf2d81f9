\* Three clients, one other file and room for two of these beside the spare
\* descriptor: the table fills with connections alone, and the file can take the
\* spare one's place.
CONSTANTS
  c1 = c1  c2 = c2  c3 = c3  o1 = o1
  NullFile = nullFile  NoFile = noFile
  Clients <- SomeClients  Others <- SomeOthers
  MaxThreads = 2  MaxFds = 3
SPECIFICATION Spec
INVARIANTS NobodyForgotten NoDescriptorLeaks Balanced SpareKept
PROPERTY EveryClientAnswered
\* When every client has come and gone, the server waits in epoll_wait.
CHECK_DEADLOCK FALSE
