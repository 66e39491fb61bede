CONSTANTS
  k1 = k1 k2 = k2 k3 = k3
  NInputs = 3
  Workers = {k1, k2, k3}
  BodyMayRaise = TRUE
  OnExitMayRaise = TRUE
  MaxCrashes = 2
SPECIFICATION Spec
INVARIANT TypeOK Accounted CollectFindsAll SentinelForEach
PROPERTY ImplementsStepRunner WorkShrinks Termination
