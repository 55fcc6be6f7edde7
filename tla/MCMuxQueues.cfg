SPECIFICATION MCSpec
CONSTANTS
  MaxId = 2
  MaxAggregateBytes = 4
  SchedulerQuantum = 1
  MaxEnvelopeBytes = 3
  MaxRetiredSchedulerRecords = 1
  MaxMuxSchedulerControlBurst = 1
  DataSize = {2}
  OpenSize = {3}
  MaxQueue = 1
  Child = {c1, c2}
  Limit = 2
  MaxConn = 2
INVARIANTS
  RecordsExact
  
  ConnectionsConsistent

  
\* A settled connection writes nothing more; everything may be closed.
CHECK_DEADLOCK FALSE
