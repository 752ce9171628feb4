CONSTANTS
  Platforms = {polymarket}
  Platform = polymarket
  MaxPrice = 0
  Sizes = {0, 1}
  NoPrice = NoPrice
  Unparsable = Unparsable
  Messages = {}
  traced = traced
  other = other
  Assets = {traced, other}
  Traced = traced
  Batches <- MCBatches
  MaxWire = 1
  MaxPending = 2
SPECIFICATION IngestSpec
INVARIANTS
  IngestionTypeOK
  BookFollowsExchange
