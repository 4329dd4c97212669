CONSTANTS
    Slots = {s1, s2}
    Ids = {x, y}
    Tabs = {t}
    Txs = {m1, m2}
    Kinds = {"plain", "pinned", "live", "probe", "legacy", "capture", "inject", "fill", "commit"}
    Events = {"disconnect", "badframe", "restart"}
    MaxOperations = 2
    MaxPorts = 2
    MaxDocs = 2
    MaxLate = 0
    Gone = Gone
    None = None
SPECIFICATION Spec
SYMMETRY Symmetry
INVARIANTS PagesAreOwned EffectsAreOnce NeverStranded
CHECK_DEADLOCK FALSE
