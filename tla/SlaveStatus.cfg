CONSTANTS
  i1 = i1 i2 = i2 i3 = i3 e1 = e1
  Important = {i1, i2}
  Experimental = {e1}
  WaitTimeout = 3
  Fallback = 1
  Period = 1
  StartDeadline = 1
  MainThread = TRUE
SPECIFICATION Spec
INVARIANT TypeOK StopsWhenDone DeadlineSparesRunning EndedAreCounted
PROPERTY LoopEnds
CHECK_DEADLOCK FALSE
