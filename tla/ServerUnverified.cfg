SPECIFICATION Spec
CONSTANTS
  c1 = c1
  c2 = c2
  Conns = {c1, c2}
  None = None
  MaxClients = 0
  Versioned = TRUE
  Options <- SyncOptions
  Kinds = {"good", "text"}
  MaxFrames <- OneTalks
INVARIANTS OnlyVerifiedAreHeard
CHECK_DEADLOCK FALSE
