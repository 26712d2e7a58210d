CONSTANTS
  Seeds = {garden}
  JoinedSeeds = {garden}
  AskingSeeds = {}
  Others = 1
  MaxForks = 1
  MaxVisits = 3
  MaxAsks = 4
  MaxTimeouts = 1
SPECIFICATION Spec
PROPERTIES OnlyMembersMove
CHECK_DEADLOCK FALSE
