SPECIFICATION Spec
SYMMETRY Symmetry
CONSTANTS
    Cli = {c, d}
    Token = {t, u, own}
    OwnToken = {own}
    EdgeToken = {u}
    Given = {9}
    None = None
    Partial = Partial
    Truncated = Truncated
    Corrupt = Corrupt
    MaxCommands = 3
    MaxFaults = 1
INVARIANTS TypeOK RouterUpToDate InAgreement SuccessIsConfigured GeneratedIsFree
\* With the commands used up nothing is left to do.
CHECK_DEADLOCK FALSE
