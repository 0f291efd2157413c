SPECIFICATION Spec
CONSTANTS
    Chunks = 2
    OutputMax = 2
    Sizes = {1, 3}
    Overlap = 2
    Faults = {"link", "agent", "restart", "database"}
INVARIANTS TypeOK OutputWithinCap OutputGenuine OutputKept DoneIsReal TimerGuards ShownIsStored
PROPERTIES VerdictFinal
CHECK_DEADLOCK FALSE
