CONSTANTS
  Seeds = {garden, choir}
  JoinedSeeds = {garden}
  AskingSeeds = {choir}
  Others = 1
  MaxForks = 1
  GroupVisits = 3
  GroupAsks = 3
  N = 3
  Offline = {}
  FilterSets = {{1, 2, 3}, {1, 3}}
  RuleSets = {{1, 2, 3}, {2, 3}}
  ValueSets = {{1, 2, 3}, {}}
  Invalid = {{}}
  PageSize = 2
  Slots = 1
  ForumVisits = 2
  ForumAsks = 3
  Communities = {garden, choir}
  Own = garden
  People = {ana}
  AdminVisits = 2
  AdminAsks = 5
  Peers = {tom, jo}
  Online = {tom}
  SeedSender = tom
  Names = {laptop}
  MaxDevices = 2
  ListVisits = 2
  ListAsks = 2
  MaxTimeouts = 1
SPECIFICATION Spec
INVARIANTS SizeCounts OneGroupPerFork OneChangeAtATime GroupsShown BusyIsAwaited ForumShown SavedIsStored RootShown ListsShown WavesOfOneMoment
PROPERTIES NoLostUpdate
CHECK_DEADLOCK FALSE
