SPECIFICATION FairSpec
CONSTANTS
    Chunks = 2
    OutputMax = 1
    Sizes = {1}
    Overlap = 2
    Faults = {"link", "agent", "restart", "database"}
PROPERTIES EventuallyEnds
CHECK_DEADLOCK FALSE
