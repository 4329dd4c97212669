CONSTANTS
    Slots = {s1, s2}
    Kinds = {"create", "password", "capture", "update", "signin", "approve", "share", "choices"}
    Users = {ann}
    ShareIds = {i1}
    MaxOps = 2
    MaxEpoch = 2
    MaxEdits = 1
    MaxUnlocks = 2
    None = None
SPECIFICATION Spec
SYMMETRY Symmetry
INVARIANT WritesAreSound
PROPERTY EpochsNeverGoBack
PROPERTY WritesAreOfTheirTime
PROPERTY SavesAreAtomic
CHECK_DEADLOCK FALSE
