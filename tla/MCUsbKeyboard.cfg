SPECIFICATION FairSpec
CONSTANTS
    Ports = 3
    Roots = {"none", "hub", "keyboard", "wide", "blank", "odd"}
    Kinds = {"none", "keyboard", "combo", "odd"}
    Configuration <- MCConfiguration
INVARIANTS
    FoundKeyboardWorks
    FirstKeyboardFound
PROPERTIES
    SearchEnds
CHECK_DEADLOCK FALSE
