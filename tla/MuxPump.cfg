SPECIFICATION FairSpec
CONSTANTS
  MaxFrames = 2
  Flusher = {f1}
INVARIANTS
  SettledInOrder
PROPERTIES
  FlushIsBarrier
  PumpProgress
\* A closed pump moves no more.
CHECK_DEADLOCK FALSE
