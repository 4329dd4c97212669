CONSTANTS
    Ops = {o1, o2}
    Accounts = {alice, bob}
    None = None
    Kinds = {"login", "totp", "unlock", "refresh", "lock", "logout", "read", "policy", "restart"}
    Overlap = TRUE
    LostReplies = TRUE
    MaxGen = 2
    MaxRev = 1
    MaxEra = 1
SPECIFICATION SceneSpec
SYMMETRY Symmetry
VIEW SceneView
INVARIANTS KeysAreSound TokensStaySound EndingsReachEveryone EndingsAreFinal OneSession
CHECK_DEADLOCK FALSE
