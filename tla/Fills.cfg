SPECIFICATION FillsSpec
CONSTANTS
    None = None
    Nil = Nil
    Fillable = {a, b}
    MaxFills = 3
    MaxEvents = 2
    Users = {u1, u2}
    MaxActs = 3
    MaxShares = 2
    MaxShareOps = 4
    MaxForms = 2
    MaxOffers = 2
    MaxGenOps = 2
INVARIANT FillsAreSafe
INVARIANT OutcomesAreTrue
PROPERTY AutomaticFollowsChoice
PROPERTY FillsAreWanted
SYMMETRY Symmetry
CHECK_DEADLOCK FALSE
