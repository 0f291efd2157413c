SPECIFICATION FairSpec
CONSTANTS
    Clients = {c1, c2}
    c1 = c1
    c2 = c2
    BufferMax = 2
    Quota = 2
    MaxRecent = 4
    MaxEvents = 4
    MaxCuts = 1
INVARIANTS StreamsInvariant
PROPERTIES ResumableSpec DropsOnlyUnderLoad CatchesUp
CHECK_DEADLOCK FALSE
