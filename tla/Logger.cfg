CONSTANTS
  t1 = t1  t2 = t2
  Threads <- TwoThreads
  Owner = owner
  None = none
  LargeBuffer = 21
  MaxBuffers = 3
  FlushEveryN = 3
  Size <- Sizes
  Buffers <- NineBuffers
  Lines <- SevenLines
  Stamp <- OneChar
  FileName <- OneChar
  SmallBuffer = 20
  MaxNumericSize = 6
SPECIFICATION Spec
INVARIANTS OneOwner SparesReturn RecordsReadBack
PROPERTIES RefinesRecordLog StopWritesTheRest LoggingReturns
CHECK_DEADLOCK FALSE
