CONSTANTS
  Updaters <- AllUpdaters
  NoReboot = FALSE
SPECIFICATION Spec
INVARIANT FailedInstallReverted
CHECK_DEADLOCK FALSE
