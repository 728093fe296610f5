SPECIFICATION FairSpec
CONSTANTS
    Interval = 4
    Deadline = 4
INVARIANTS SteadyPullIsSpared SilenceIsBounded
PROPERTIES ReporterEnds
\* A pull that has returned is over.
CHECK_DEADLOCK FALSE
