CONSTANTS
  MaxVariables = 3
  MaxDataLen = 2
  Name = {"", "a", "b", "c"}
  EmptyName = ""
  Vendor = {"v"}
  Attributes = {"NV"}
  short = short
  long = long
  oversize = oversize
  Data <- DataSet
  LenOf <- Lengths
  NoData = NoData
  Unused = Unused
  MaxWrites = 4
SPECIFICATION FairWalkSpec
INVARIANTS KeysUnique WalkComplete WalkKeepsItsPlace
PROPERTIES RefinesMap WalkEnds
