SPECIFICATION FairSpec
CONSTANTS
    Apis = {"a", "b"}
    Default = "a"
    MaxTokens = 2
    MaxMoves = 1
    MaxUpsets = 1
INVARIANTS AgentInvariant
PROPERTIES NoticesRejection Reported
CHECK_DEADLOCK FALSE
