CONSTANTS
  MaxRequests = 2
  MaxWindows = 3
SPECIFICATION CeremonySpec
PROPERTIES OpenPopupNotCancelled
CHECK_DEADLOCK FALSE
