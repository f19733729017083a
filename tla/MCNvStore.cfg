CONSTANTS
  MaxVariables = 2
  MaxDataLen = 2
  Name = {"TEST", "UsbHidEnabled"}
  EmptyName = ""
  Vendor = {ferro, app}
  Attributes = {"NV", "BS"}
  off = off
  on = on
  wide = wide
  ferro = ferro
  app = app
  Data <- DataSet
  LenOf <- Lengths
  NoData = NoData
  Unused = Unused
  Setting = {"UsbHidEnabled"}
  Ferro = ferro
  UsbSetting = "UsbHidEnabled"
  SmokeTest <- TestKey
  SmokeData = on
  ByteOf <- Bytes
  Themes <- Cases
  Default <- Defaults
  NV = "NV"
  MaxBytes = 11
  HeaderBytes = 2
  RecordBytes = 3
  NoFile = NoFile
  MaxCalls = 3
SPECIFICATION Spec
INVARIANTS LoadedVariablesKept CacheMatchesStore
PROPERTIES ReloadChangesNothing
