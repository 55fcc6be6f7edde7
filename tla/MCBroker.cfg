SPECIFICATION MCSpec
CONSTANTS
  c1 = c1
  c2 = c2
  Conn = {c1, c2}
  Scenes <- MCScenes
  Demands <- MCDemands
  Client = {"c1", "c2"}
  Req = {"r1", "r2", "r3"}
  Probe = {"p1"}
  Key = {"k1", "k2"}
  Fence = {"f1", "f2"}
  None = None
  BrokerStreamWindowSize = 2
INVARIANTS
  ServiceExact
  ShutdownJoins
  ReservationsExact
  PoolConsistent
PROPERTIES
  IdleCommitEarned
  BrokerProgress
\* The process exits, and every stream may be closed.
CHECK_DEADLOCK FALSE
