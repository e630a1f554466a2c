SPECIFICATION FairSpec
CONSTANTS
  RingSize = 3
  BatchSize = 3
  MaxCap = 2
  HighWaterMark = 2
  EnableWritev = TRUE
  MaxFrames = 4
  MaxSockets = 2
INVARIANTS TypeOK InOrder PendingIntact NoLeak
PROPERTIES NothingLost EventuallyWritten
