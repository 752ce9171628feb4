CONSTANTS
  a = a
  b = b
  Ids = {a, b}
  MaxWorkers = 2
  MaxSubs = 2
  ChannelSize = 2
  Requests <- MCRequests
  Withdrawn <- MCWithdrawn
CHECK_DEADLOCK FALSE
SPECIFICATION ReachableSpec
INVARIANTS
  SupervisorTypeOK
  ConnectedIsSubscribed
  CapacityRespected
  NoExtraCopies
  BeliefIsPending
PROPERTIES
  SubscriptionsReachExchange
  StopCompletes
