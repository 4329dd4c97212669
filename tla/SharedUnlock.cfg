CONSTANTS
    MaxActs = 3
    MaxPeer = 1
    MaxRev = 3
    MaxFaults = 1
    None = None
    People = {ann, bob}
    MaxEvents = 2
    MaxTries = 2
    Nobody = Nobody
SPECIFICATION SharedSpec
SYMMETRY AnyPerson
INVARIANTS LinkIsSound TransfersAreSound IssuedAreSettled EndedStaysEnded
PROPERTIES ClosingsAreKept DisconnectSticks BarriersAreNotReplayed
CHECK_DEADLOCK FALSE
