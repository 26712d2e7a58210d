CONSTANTS
  tom = tom
  jo = jo
  Peers <- MCPeers
  Seeds <- MCPeers
  Online <- MCOnline
  SeedSender = tom
  SeedRelease = "released"
  Slots = 1
  MaxMessages = 2
SPECIFICATION FairSpec
PROPERTIES ClosedWaveReturnsSlot
