SPECIFICATION Spec
CONSTANTS
    Ports = 2
    Roots = {"none", "hub", "keyboard", "wide", "odd"}
    Kinds = {"none", "keyboard", "combo", "odd"}
    Configuration <- MCConfiguration
INVARIANTS
    KeyboardFound
CHECK_DEADLOCK FALSE
