CONSTANTS
  p1 = p1 p2 = p2 p3 = p3
  None = None
  Procs = {p1, p2}
  Inodes <- MCInodes
  MaxFailures = 0
  MaxCrashes = 0
SPECIFICATION Spec
PROPERTY ReadLockMaintained
