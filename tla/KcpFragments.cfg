SPECIFICATION FairSpec
CONSTANTS
  SndWnd = 2
  RcvWnd = 2
  InitCwnd = 2
  InitSsthresh = 2
  WireMod = 16
  Repeats = {FALSE}
  FragCounts = {2}
  MaxSeq = 2
  MaxEcho = 0
  MaxCwnd = 2
  MaxExpiries = 0
PROPERTY QueuedIsDelivered
CHECK_DEADLOCK FALSE
