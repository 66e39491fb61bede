CONSTANTS
  s1 = s1 g1 = g1 g2 = g2
  NoProc = NoProc
  Procs = {s1, g1, g2}
  Setters = {s1}
  Defaulters = {}
  Testers = {}
  Getters = {g1, g2}
  MaxCalls = 2
  MaxKills = 0
SPECIFICATION Spec
INVARIANT RequeuesUpdatedValue
CHECK_DEADLOCK FALSE
