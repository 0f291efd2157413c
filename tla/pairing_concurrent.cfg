SPECIFICATION Spec
CONSTANTS
    u1 = u1
    u2 = u2
    r1 = r1
    r2 = r2
    None = None
    Users = {u1, u2}
    Admins = {}
    Reporters = {}
    Reqs = {r1, r2}
    MaxSessions = 2
    MaxPinAttempts = 1
    MaxWrong = 1
    MayCrash = TRUE
    Calls = {"start", "submit", "unpair", "report"}
SYMMETRY UserSymmetry
INVARIANTS TypeOK OwnershipCoherent OwnershipProved
PROPERTIES RowsFollowOwner HoldBlocksClaim
