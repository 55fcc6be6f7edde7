SPECIFICATION Spec
CONSTANTS
  MaxMuxChunkBytes = 2
  MaxMuxStreams = 2
  MaxMuxAggregateBytes = 9
  MaxMuxStreamWindowBytes = 5
  MuxChunkCreditOverhead = 1
  Ceilings <- MCCeilings
  MaxId = 3
  MaxRetiredStreamRecords = 1
  Ref = {r1, r2}
  Policy = {p1, p2}
  Chunk = {2, 3}
  ChunkLen <- MCChunkLen
  MaxAccepted = 2
CONSTRAINT DataOrThirdStream
INVARIANTS
  SlotsAccounted
  EngineConsistent
  OrderlyCloseDrains
PROPERTIES
  NeverRevived
\* An engine whose streams all settled may receive nothing more.
CHECK_DEADLOCK FALSE
