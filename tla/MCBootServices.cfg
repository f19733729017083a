CONSTANTS
  FirmwareStart = 1
  FirmwareEnd = 2
  FbBase = 5
  FbEnd = 6
  RamLimit = 8
  LocalBase = 10
  LocalEnd = 11
  AddrPages = 100
  MaxGeneration = 3
  MaxHandles = 2
  MaxProtocols = 1
  li = li
  to = to
  fs = fs
  image = image
  client = client
  Guid <- GuidSet
  Interface <- InterfaceSet
  NoEntry = NoEntry
  LoadedImage = li
  TextOutput = to
  FirmwareObject = {"sd", "con_out"}
  ProtocolsOf <- OwnProtocols
  ImageInterface = image
  ClientInterface = client
  PageCounts = {0, 3}
  PoolSizes = {5}
  ImagePages = {0, 2}
  EntryPages = {1}
  PageBytes = 4
  NoMap = NoMap
SPECIFICATION Spec
INVARIANTS GrantsDisjoint CurrentKeyMeansCurrentMap MapPartitionsMemory EntryPointsLineUp
PROPERTIES GatedServicesStop HandlesKeepTheirIdentity
