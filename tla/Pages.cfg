SPECIFICATION PagesSpec
CONSTANTS
    None = None
    Users = {u1, u2}
    MaxActs = 2
    Secrets = {key, visa}
    Cards = {visa}
    MaxItems = 2
    MaxPending = 1
    MaxSecretOps = 3
    Totps = {o1, o2}
    Entries = {e1}
    MaxSeq = 2
    MaxTotpOps = 3
    Tabs = {1, 2}
    Sites = {s1, s2}
    Providers = {p1, p2}
    MaxVisits = 3
    MaxFlowOps = 2
INVARIANT SecretsAreSound
INVARIANT TotpIsSound
INVARIANT FlowsAreSound
PROPERTY SecretSentIsWanted
SYMMETRY Symmetry
CHECK_DEADLOCK FALSE
