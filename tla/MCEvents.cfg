SPECIFICATION FairEventsSpec
CONSTANTS
    Keystrokes = {"A"}
    Codes = {}
    MappedCodes = {}
    FifoDepth = 1
    MaxInputs = 1
    MaxEvents = 3
    Spans = {40, 90}
    Freq = 2
    Interval = 3
    Million = 2
    Word = 16
    WaitLists <- MCWaitLists
    MaxCalls = 4
    Notifiers <- MCNotifiers
PROPERTIES
    FiresOnTime
    NotifyLasts
    WaitEnds
