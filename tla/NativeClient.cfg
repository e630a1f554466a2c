SPECIFICATION FairSpec
CONSTANTS
  Owners = {"adapter", "bare"}
  TxLimit = 2
  MsgLen = 2
  MaxWrites = 2
  MaxConnects = 2
  MaxSends = 2
  MaxChunks = 2
  MaxTraffic = 2
INVARIANTS TypeOK HeardInOrder
PROPERTIES ConnectSettles SentIsWritten EndHeard
CHECK_DEADLOCK FALSE
