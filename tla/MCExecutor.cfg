CONSTANTS
  Platforms = {polymarket, kalshi}
  polymarket = polymarket
  kalshi = kalshi
  Executable = polymarket
  Registered <- MCRegistered
  NoPlatform = NoPlatform
  Missing = Missing
  MaxPrice = 1
  Sizes = {0, 1}
  NoPrice = NoPrice
  Unparsable = Unparsable
  MaxInFlight = 2
  MaxBuyAmount = 5
  MaxOrders = 2
  PageSize = 1
  Messages <- AllMessages
  Requests <- MCRequests
SPECIFICATION MCSpec
INVARIANTS
  ExecutorTypeOK
  AnswersTellTheTruth
  OrdersGoToExecutors
  CancelledWasDecided
  CacheNeverPessimistic
  CachedPricesWereQuoted
  ViewConverges
PROPERTIES
  OnlySnapshotsAndFailuresAreSilent
