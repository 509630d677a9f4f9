SPECIFICATION FocusSpec
CONSTANTS
  MaxJobs = 2
  PageSize = 1
  MaxDrops = 1
  MaxRequests = 2
  MaxFailures = 1
  GiveUp = 2
  MaxRounds = 2
  MaxErrors = 1
INVARIANTS
  RowsAreContiguous
  BusyWhileAwaited
  SocketServesItsUsers
PROPERTIES
  FollowedToItsEnd
  PollingSettles
  Reconnects
CHECK_DEADLOCK FALSE
