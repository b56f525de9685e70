SPECIFICATION Spec
CONSTANTS
    Dispatches = {d1}
    Panes = {p1}
    MaxProcesses = 1
    MaxMishaps = 1
    Null = Null
INVARIANT TypedIntoIsNotClosed
CHECK_DEADLOCK FALSE
