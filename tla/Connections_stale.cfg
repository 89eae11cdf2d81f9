\* The user's code refuses connections: forceClose() in the connection callback.
CONSTANTS
  c1 = c1  c2 = c2  f1 = f1  f2 = f2  s1 = s1  s2 = s2  s3 = s3
  NoObject = NoObject  NoFd = NoFd  NoSocket = NoSocket
  Objects <- TwoObjects  Fds <- TwoFds  Sockets <- ThreeSockets
  Usages <- Rejected
SPECIFICATION Spec
INVARIANT NoCollateralClose
CHECK_DEADLOCK FALSE
