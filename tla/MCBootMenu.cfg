SPECIFICATION Spec
CONSTANTS
    Keystrokes = {"Left", "D", "j", "CR", "ESC"}
    Codes = {"up", "back"}
    FifoDepth = 3
    MaxInputs = 4
INVARIANTS
    StrokesActAsMeant
    SerialKeysFaithful
    DisplayTellsTheTruth
CHECK_DEADLOCK FALSE
