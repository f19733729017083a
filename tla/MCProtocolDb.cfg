CONSTANTS
  MaxHandles = 2
  MaxProtocols = 3
  Guid = {g1, g2}
  Interface = {p1, p2}
  NoEntry = NoEntry
SPECIFICATION DbSpec
INVARIANTS LookupsAgree
PROPERTIES RefinesRegistry
