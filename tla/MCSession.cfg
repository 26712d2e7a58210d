CONSTANTS
  MaxStarts = 3
  MaxJoins = 1
  MaxChanges = 1
  MaxTimeouts = 1
SPECIFICATION FairSpec
PROPERTIES PhasesInOrder StoppedIsQuiet StartsEnd ShowsClient
CHECK_DEADLOCK FALSE
