SPECIFICATION FairSpec
CONSTANTS
    r1 = r1
    r2 = r2
    Requests = {r1, r2}
    MaxSockets = 3
    MaxFailures = 1
INVARIANTS TypeOK TablesCurrent
PROPERTIES OneShotSpec Settles Reconnects
CHECK_DEADLOCK FALSE
