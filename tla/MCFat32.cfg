CONSTANTS
  LastCluster = 7
  NumFats = 2
  DirSlots = 1
  FileName = {"FERRO.VAR", "LOG"}
  Sizes = {0, 1, 3}
  InitialRoot <- Roots
  MaxWrites = 3
SPECIFICATION FatSpec
INVARIANTS VolumeExact ReadsLastWrite BystandersIntact
