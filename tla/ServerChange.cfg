CONSTANTS
    p = p
    u = u
    v = v
    panel = panel
    other = other
    Ops = {o1, o2}
    Changes = {c1, c2}
    Servers = {p, u, v}
    Panels = {panel, other}
    Required = {p}
    Packaged = p
    Connections <- Pairs
    MaxSaved = 2
    PanelAccess = TRUE
    Kinds = {"save", "set", "activate", "restart", "legacy", "early"}
    MaxGen = 3
    None = None
SPECIFICATION SceneSpec
INVARIANTS ServerIsSafe PairIsKept
PROPERTY ChangesEnd
CHECK_DEADLOCK FALSE
