CONSTANTS
  a = a
  b = b
  Ids = {a, b}
  MaxWorkers = 2
  MaxSubs = 2
  ChannelSize = 2
  Requests <- MCRequests
  Withdrawn <- MCWithdrawn
CHECK_DEADLOCK FALSE
SPECIFICATION SupervisorSpec
PROPERTY
  ShutdownStops
