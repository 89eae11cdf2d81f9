\* Three peers, two descriptors: a socket is accepted on a recycled descriptor
\* and gets a recycled object.  The user's code sends, shuts down and forceCloses
\* from its message callback; or it stops reading there and starts again in the
\* write-complete callback, with peers that do not reset.
CONSTANTS
  c1 = c1  c2 = c2  f1 = f1  f2 = f2  s1 = s1  s2 = s2  s3 = s3
  NoObject = NoObject  NoFd = NoFd  NoSocket = NoSocket
  Objects <- TwoObjects  Fds <- TwoFds  Sockets <- ThreeSockets
  Usages <- Served
SPECIFICATION Spec
SYMMETRY Alike
INVARIANTS OneHome EpollAgrees OwnSocket NoCollateralClose ShutdownReachesKernel EndedIsReported
CHECK_DEADLOCK FALSE
