CONSTANTS
  RootName = {"LOG", "SUB"}
  Inner = "LOG"
  Volumes <- Cards
  MaxOpen = 3
  MaxFile = 2
  MaxEntries = 1
  WriteSizes = {1}
  MaxCalls = 7
SPECIFICATION Spec
INVARIANTS CleanMeansOnDisk BytesStayInTheirFile
PROPERTIES OnlyWritersWrite
