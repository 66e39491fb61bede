CONSTANTS
  c1 = c1 c2 = c2 c3 = c3
  NoClient = NoClient
  Clients = {c1, c2, c3}
  Generations <- MCGenerations
  Timeout = 1
  MaxErrors = 1
  MaxCrashes = 1
SPECIFICATION Spec
INVARIANT TypeOK HoldersExclusive NoLockForgotten
PROPERTY OrphanReclaimed ImplementsLease
