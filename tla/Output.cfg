\* A kernel buffer of two units.  Streaming: messages of one to three units, from
\* the loop thread and from another one, each completion reported.  Downloads:
\* the next message, with or without a file that the kernel takes whole, is sent
\* when the peer has read the one before; no completion callback.
CONSTANTS
  Room = 2  FileLen = 1  MaxSends = 3
  Usages <- Healthy
SPECIFICATION Spec
INVARIANTS Conserved WatchedWhilePending
PROPERTIES CompletionMeansSent Delivered SendIsReported
CHECK_DEADLOCK FALSE
