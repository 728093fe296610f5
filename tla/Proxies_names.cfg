SPECIFICATION Spec
CONSTANTS
    Addr = {a}
    Name = {a}
    Ip = {i}
    InContainer = InContainer
    Port = {1}
    None = None
    User = User
    MaxChanges = 2
    MaxMoves = 1
    MaxFaults = 0
INVARIANT ExposedIsServed
\* An idle controller waits for changes that are used up.
CHECK_DEADLOCK FALSE
