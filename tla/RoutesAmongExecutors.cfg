CONSTANTS
  Platforms = {polymarket, kalshi}
  polymarket = polymarket
  kalshi = kalshi
  Executable = polymarket
  Registered <- MCRegistered
  NoPlatform = NoPlatform
  Missing = Missing
  MaxPrice = 1
  Sizes = {0, 1}
  NoPrice = NoPrice
  Unparsable = Unparsable
  MaxInFlight = 1
  MaxBuyAmount = 5
  MaxOrders = 2
  PageSize = 1
  Messages <- OrderMessages
  Requests <- MCRequests
SPECIFICATION OrdersSpec
PROPERTY
  RoutesAmongExecutors
