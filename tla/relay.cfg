SPECIFICATION FairSpec
CONSTANTS
    NamesGroup = TRUE
    BufferMax = 1
    MaxFrames = 2
    MaxSockets = 2
    MaxMarks = 1
    MaxSwitches = 2
INVARIANTS RelayInvariant
PROPERTIES Relays Drains
CHECK_DEADLOCK FALSE
