SPECIFICATION FairSpec
CONSTANTS
  SndWnd = 3
  RcvWnd = 2
  InitCwnd = 3
  InitSsthresh = 3
  WireMod = 16
  Repeats = {FALSE}
  FragCounts = {1}
  MaxSeq = 3
  MaxEcho = 0
  MaxCwnd = 3
  MaxExpiries = 0
INVARIANT WindowsRespected
PROPERTY QueuedIsDelivered
CHECK_DEADLOCK FALSE
