CONSTANTS
  tom = tom
  jo = jo
  Peers <- MCPeers
  Keyed = TRUE
  InOrder = TRUE
  MaxVisits = 2
  MaxOps = 2
  MaxTexts = 1
  MaxTimeouts = 1
SPECIFICATION FairSpec
PROPERTIES ShowsCurrent
CHECK_DEADLOCK FALSE
