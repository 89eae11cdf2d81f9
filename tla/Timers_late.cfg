\* A timer whose functor waits, or whose callback takes longer than its interval.
CONSTANTS
  MaxTimers = 1  MaxLate = 2
  Delays <- OneUnit  Intervals <- OneUnit
  Promptness <- SlowLoop
SPECIFICATION Spec
PROPERTY TimersExpire
