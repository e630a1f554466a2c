SPECIFICATION Spec
CONSTANTS
  SndWnd = 2
  RcvWnd = 2
  InitCwnd = 2
  InitSsthresh = 2
  WireMod = 3
  Repeats = {TRUE}
  FragCounts = {1, 2}
  MaxSeq = 4
  MaxEcho = 2
  MaxCwnd = 2
  MaxExpiries = 1
INVARIANTS TypeOK EchoInOrder NoneStranded InOrderDelivery AckedWasDelivered
PROPERTY ImplementsChannel
CHECK_DEADLOCK FALSE
