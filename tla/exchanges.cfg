SPECIFICATION FairSpec
CONSTANTS
    Commands = {c1}
    c1 = c1
    Configs = {k1, k2}
    k1 = k1
    k2 = k2
    Reported = "lan"
    Homes = {"lan", "source"}
    MaxErrors = 1
INVARIANTS ExchangesInvariant
PROPERTIES Ends
CHECK_DEADLOCK FALSE
