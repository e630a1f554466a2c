SPECIFICATION Spec
CONSTANTS
  c1 = c1
  Conns = {c1}
  Options <- Plain
  TxLimit = 2
  MsgLen = 2
  MaxBackpressure = 9
  MaxWrites = 2
  Scripts = {}
  Reentrant = {FALSE}
  MaxPosts = 2
  MaxListens = 1
INVARIANT WireIntact
CHECK_DEADLOCK FALSE
