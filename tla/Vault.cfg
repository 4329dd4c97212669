CONSTANTS
    Ops = {o1, o2}
    Users = {ann, bob}
    Vaults = {v1}
    Entries = {e1, e2}
    Scenes <- AllScenes
    None = None
SPECIFICATION Spec
SYMMETRY Symmetry
INVARIANTS CopiesAreSound NobodyIsForgotten
PROPERTY CopiesNeverGoBack
CHECK_DEADLOCK FALSE
