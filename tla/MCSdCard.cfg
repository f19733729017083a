SPECIFICATION FairSpec
CONSTANTS
    Capacity = 2
    SectorSize = 512
    AddressSpace = 4096
    Values = {0, 1}
    Lbas = {0, 9, 4096}
    MaxCount = 2
    MaxRounds = 1
    MaxFaults = 2
    MaxCalls = 4
INVARIANTS
    ReadsWhatWasAsked
    WritesSettle
PROPERTIES
    LateWritesKeepOrder
    CallsReturn
    FaultsHeal
CHECK_DEADLOCK FALSE
