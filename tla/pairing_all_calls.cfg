SPECIFICATION Spec
CONSTANTS
    u1 = u1
    u2 = u2
    r1 = r1
    r2 = r2
    None = None
    Users = {u1, u2}
    Admins = {u2}
    Reporters = {u1}
    Reqs = {r1, r2}
    MaxSessions = 1
    MaxPinAttempts = 2
    MaxWrong = 3
    MayCrash = TRUE
    Calls = {"start", "submit", "unpair", "force", "report", "group"}
SYMMETRY SlotSymmetry
INVARIANTS AttemptsSound PinBudget
PROPERTIES RowsFollowOwner
