CONSTANTS
    p = p
    u = u
    v = v
    panel = panel
    other = other
    Ops = {o1}
    Changes = {c1}
    Servers = {p, u}
    Panels = {panel, other}
    Required = {p}
    Packaged = p
    Connections <- OnePair
    MaxSaved = 2
    PanelAccess = TRUE
    Kinds = {"save", "restart", "early"}
    MaxGen = 2
    None = None
SPECIFICATION StartSpec
INVARIANT SignInLasts
CHECK_DEADLOCK FALSE
