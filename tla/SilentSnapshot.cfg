CONSTANTS
  Platforms = {polymarket, kalshi}
  polymarket = polymarket
  kalshi = kalshi
  MaxPrice = 1
  Sizes = {0, 1}
  NoPrice = NoPrice
  Unparsable = Unparsable
  MaxInFlight = 2
  Messages <- MCMessages
SPECIFICATION ViewSpec
PROPERTY
  EveryChangeIsAnnounced
