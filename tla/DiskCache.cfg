CONSTANTS
  p1 = p1 p2 = p2 p3 = p3
  None = None
  Procs = {p1, p2}
  Inodes <- MCInodes
  MaxFailures = 1
  MaxCrashes = 2
SPECIFICATION Spec
INVARIANT TypeOK DefaultKeepsEntry NoCircularWait
PROPERTY ReadersKeepEntry NeverStuck
CHECK_DEADLOCK FALSE
