SPECIFICATION Spec
CONSTANTS
    Keystrokes = {"Up", "ESC", "[", "A", "ctl"}
    Codes = {"a", "b", "caps"}
    MappedCodes = {"a", "b"}
    FifoDepth = 4
    MaxInputs = 3
    Cols = 2
    Rows = 2
    Printable = {"a", "b", " "}
    Attributes = {"grey", "blue"}
    DefaultAttr = "grey"
    Strings <- MCStrings
    MaxStarts = 2
    MaxSteps = 4
INVARIANTS
    ScreenIsWindow
    KeysFaithful
    CopiesUpToDate
    KeydownsAtMostOnce
