CONSTANTS
  N = 2
  Limits = {1}
  MaySilent = {}
  MayHang = {}
  MayRaise = FALSE
  ForkMayFail = FALSE
  MaxCrashes = 0
SPECIFICATION Spec
INVARIANT NoOrphans
