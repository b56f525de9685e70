SPECIFICATION FairSpec
CONSTANTS
    Dispatches = {d1, d2}
    Panes = {p1}
    MaxProcesses = 2
    MaxMishaps = 2
    Null = Null
INVARIANTS
    TerminalInvariant
    ClosesOnlyItsOwn
    ReleasedIsGone
PROPERTIES
    OutputIsPreserved
    RequestedReleaseEnds
CHECK_DEADLOCK FALSE
