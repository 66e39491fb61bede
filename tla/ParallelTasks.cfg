CONSTANTS
  N = 3
  Limits = {0, 1}
  MaySilent = {2}
  MayHang = {1}
  MayRaise = TRUE
  ForkMayFail = TRUE
  MaxCrashes = 1
SPECIFICATION Spec
INVARIANT TypeOK NoSilentLoss NoFalseAlarm AllErrorsReported PermitsBounded
PROPERTY Termination ImplementsStepRunner
