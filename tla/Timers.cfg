\* Two timers, that may repeat, of one or two units; the loop may be up to two
\* units late, which is as long as the longest interval.
CONSTANTS
  MaxTimers = 2  MaxLate = 2
  Delays <- OneOrTwoUnits  Intervals <- TwoUnits
  Promptness <- PromptOrNot
SPECIFICATION Spec
INVARIANTS ArmedForTop NeverLate
PROPERTIES RunsAreDue PromptTimersExpire
