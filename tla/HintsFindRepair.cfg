CONSTANTS
    Vaults = {v}
    MaxVer = 1
    MaxSessions = 2
    MaxLosses = 1
    Nil = Nil
SPECIFICATION HintsSpec
INVARIANT ReconnectRepairs
CHECK_DEADLOCK FALSE
