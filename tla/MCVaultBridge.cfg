CONSTANTS
  MaxRequests = 3
  MaxWindows = 3
  MaxCalls = 2
SPECIFICATION FairSpec
INVARIANTS RunsWhenGranted RequestBounded OpenIsWatched
PROPERTIES ImplementsRemoteCalls EveryCallEnds GrantedByOwnApproval EveryRequestSettles
CHECK_DEADLOCK FALSE
