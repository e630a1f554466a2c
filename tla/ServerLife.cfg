SPECIFICATION FairSpec
CONSTANTS
  c1 = c1
  c2 = c2
  Conns = {c1, c2}
  None = None
  MaxClients = 1
  Versioned = TRUE
  Options <- AllOptions
  Kinds = {"text", "schema", "version", "pin", "sig", "good"}
  MaxFrames <- OneTalks
INVARIANTS TypeOK RegisteredIsLive DeparturesAnnounced
  GoodbyeIsFinal UnverifiedAreDropped KeptUnlessRefused
PROPERTY CloseCompletes
CHECK_DEADLOCK FALSE
