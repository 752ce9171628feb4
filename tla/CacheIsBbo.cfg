CONSTANTS
  Platforms = {polymarket, kalshi}
  polymarket = polymarket
  kalshi = kalshi
  Executable = polymarket
  Registered <- MCRegistered
  NoPlatform = NoPlatform
  MaxPrice = 1
  Sizes = {0, 1}
  NoPrice = NoPrice
  Unparsable = Unparsable
  MaxInFlight = 1
  Messages <- MCMessages
SPECIFICATION RoutingSpec
INVARIANT
  CacheIsBbo
