SPECIFICATION FairSpec
CONSTANTS
    Addr = {a, b}
    Name = {h}
    Ip = {}
    InContainer = InContainer
    Port = {1, 2}
    None = None
    User = User
    MaxChanges = 2
    MaxMoves = 2
    MaxFaults = 2
INVARIANTS TypeOK InStep TargetsAttached
PROPERTIES UserContainersStay PassesEnd
\* An idle controller waits for changes that are used up.
CHECK_DEADLOCK FALSE
