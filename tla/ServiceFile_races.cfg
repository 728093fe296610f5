SPECIFICATION FairSpec
CONSTANTS
    Addr = {a}
    Site = {s, p}
    Shape = {x}
    Local = Local
    NoDef = NoDef
    Self = s
    MaxEvents = 2
    Cli = {c}
    Truncated = Truncated
    Corrupt = Corrupt
    MaxFaults = 1

INVARIANTS TypeOK NoMissedChange
PROPERTIES UnreadableStays WatchedSpec CopySettles
\* With all goroutines gone and the file unreadable the system does stop.
CHECK_DEADLOCK FALSE
