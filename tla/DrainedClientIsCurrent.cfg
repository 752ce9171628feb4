CONSTANTS
  Clients = {c1}
  c1 = c1
  Assets <- MCAssets
  Patterns <- MCPatterns
  Requests <- MCRequests
  Buffer = 2
  MaxVersion = 2
SPECIFICATION ShownSpec
INVARIANT
  DrainedClientIsCurrent
