SPECIFICATION Spec
CONSTANTS
    Cli = {c}
    Token = {t}
    OwnToken = {}
    EdgeToken = {}
    Given = {9}
    None = None
    Partial = Partial
    Truncated = Truncated
    Corrupt = Corrupt
    MaxCommands = 2
    MaxFaults = 1
INVARIANT DisconnectRemoves
\* With the commands used up nothing is left to do.
CHECK_DEADLOCK FALSE
