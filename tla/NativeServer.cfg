SPECIFICATION FairSpec
CONSTANTS
  c1 = c1
  Conns = {c1}
  Options <- AllOptions
  TxLimit = 2
  MsgLen = 2
  MaxBackpressure = 2
  MaxWrites = 2
  Scripts <- AllScripts
  Reentrant = {FALSE, TRUE}
  MaxPosts = 2
  MaxListens = 1
INVARIANTS TypeOK NoGapOnWire BackpressureTrue MirrorInSync HeardInOrder
PROPERTY CloseReported
CHECK_DEADLOCK FALSE
