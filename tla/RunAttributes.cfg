CONSTANTS
  s1 = s1 g1 = g1 g2 = g2
  NoProc = NoProc
  Procs = {s1, g1, g2}
  Setters = {s1}
  Defaulters = {g1}
  Testers = {g2}
  Getters = {g1, g2}
  MaxCalls = 2
  MaxKills = 1
SPECIFICATION Spec
INVARIANT TypeOK OneValueAtMost NeverLost
PROPERTY ReaderServed RegisterForOneReader
CHECK_DEADLOCK FALSE
