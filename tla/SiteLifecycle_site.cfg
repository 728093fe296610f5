SPECIFICATION FairSpec
CONSTANTS
    Cli = {c, d}
    Service = {s}
    MaxCommands = 3
    MaxFaults = 1
INVARIANTS TypeOK DeleteLeavesNothing SuccessIsASite InitFailsOnlyOnLeftovers
 
\* With the commands used up nothing is left to do.
CHECK_DEADLOCK FALSE
