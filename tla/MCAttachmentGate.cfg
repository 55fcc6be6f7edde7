SPECIFICATION FairSpec
CONSTANTS
  Clients = {1, 2}
  Sessions = {1, 2}
  Workers = {11, 12, 13}
  Workloads <- MCWorkloads
  Effects = {"e"}
INVARIANTS
  GateConsistent
  EffectsKeepAuthority
PROPERTIES
  IdentityUnderFreeze
  GateProgress
\* Every job ends.
CHECK_DEADLOCK FALSE
