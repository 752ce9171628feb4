CONSTANTS
  Platforms = {polymarket, kalshi}
  polymarket = polymarket
  kalshi = kalshi
  MaxPrice = 1
  Sizes = {0, 1}
  NoPrice = NoPrice
  NoBook = NoBook
  Unparsable = Unparsable
  Messages <- MCMessages
SPECIFICATION Spec
INVARIANTS
  TypeOK
  KeysAreLiveLevels
  SystemBboIsBest
  ContributorsAreKnown
  CrossPlatformOrderIrrelevant
  SnapshotForgetsHistory
  LoopsComputeSizesAfter
  ReadersAgree
PROPERTIES
  ImplementsPlatformBooks
