SPECIFICATION FairSpec
CONSTANTS
  Options <- AllOptions
  Reactions = {"none", "connect", "disconnect"}
  MaxAttempts = 1
  BatchSize = 2
  MaxSockets = 2
  MaxSends = 2
  MaxPings = 1
INVARIANTS TypeOK CloseOnce StaysDown KeepsTrying AttachedIsCurrent SentInOrder
PROPERTIES FirstConnectionSends ReconnectsWhenIdle
CHECK_DEADLOCK FALSE
