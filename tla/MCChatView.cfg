CONSTANTS
  tom = tom
  jo = jo
  Peers <- MCPeers
  Keyed = FALSE
  InOrder = FALSE
  MaxVisits = 2
  MaxOps = 2
  MaxTexts = 1
  MaxTimeouts = 1
SYMMETRY Symmetry
SPECIFICATION Spec
INVARIANTS ViewIsOfPeer LockedWhileBusy
PROPERTIES PunishesConfirmed NeverOlder DraftsKept
CHECK_DEADLOCK FALSE
