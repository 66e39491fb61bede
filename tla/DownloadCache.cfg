CONSTANTS
  p1 = p1 p2 = p2 p3 = p3
  u1 = u1 u2 = u2
  Procs = {p1, p2, p3}
  Uris = {u1}
  RetryCount = 2
  MaxCrashes = 1
SPECIFICATION Spec
INVARIANT TypeOK PurgeExcludes ReadersKeepFile SetupBeforeUse
PROPERTY KeptWhileUsed GetEnds
