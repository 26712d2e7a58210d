CONSTANTS
  tom = tom
  jo = jo
  Peers <- MCPeers
  Seeds <- MCPeers
  Online <- MCOnline
  SeedSender = tom
  SeedRelease = "released"
  Slots = 3
  MaxMessages = 3
SPECIFICATION FairSpec
INVARIANTS TypeOK OpenNeedsRelation SlotConservation
PROPERTIES TimersServe OpensOnlyByAnswer HistoryKept
