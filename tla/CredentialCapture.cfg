CONSTANTS
    Users = {ann, bob}
    Origins = {site, other}
    Kinds = {"identifier", "nameless", "choice", "change"}
    MaxSubs = 2
    MaxCmds = 2
    MaxActs = 2
    None = None
SPECIFICATION Spec
SYMMETRY Symmetry
INVARIANT SubmissionsAreOwned
PROPERTY NewerIsLeftAlone
PROPERTY AutomationFollowsConsent
CHECK_DEADLOCK FALSE
