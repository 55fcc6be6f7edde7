SPECIFICATION MCSpec
CONSTANTS
  MaxMuxChunkBytes = 2
  MaxMuxStreams = 2
  MaxMuxAggregateBytes = 10
  MaxMuxStreamWindowBytes = 5
  MuxChunkCreditOverhead = 1
  Ceilings <- MCCeilings
  Chunk = {1, 2}
  ChunkLen <- MCChunkLen
  MaxSend <- TwoChunks
  MayClose = {"broker", "daemon"}
  MayAbort = {"daemon"}
  Opener = {o1, o2}
  MaxStreams = 1
  MayCancel = TRUE
  Answers = {"Opened", "Refused"}
INVARIANTS
  OpenResults
  EndsAgree
  InOrderAndWhole
PROPERTIES
  StreamsProgress
\* Calls return and streams settle.
CHECK_DEADLOCK FALSE
