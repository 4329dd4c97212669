CONSTANTS
    Vaults = {v}
    MaxVer = 2
    MaxSessions = 2
    MaxLosses = 2
    Ops = {o1, o2}
    Accounts = {alice}
    None = None
    Nil = Nil
    Kinds = {"login", "unlock", "refresh", "lock", "logout"}
    Overlap = FALSE
    LostReplies = TRUE
    MaxGen = 2
    MaxRev = 0
    MaxEra = 0
SPECIFICATION ProgressSpec
INVARIANTS HintsAreSafe
PROPERTIES HintsAreTaken HubFollows CallsEnd
CHECK_DEADLOCK FALSE
