SPECIFICATION Spec
CONSTANTS
    Tasks = {t1}
    Terminals = {x1}
    Gates = {g1}
    Questions = {}
    MaxDispatches = 3
    MaxEpoch = 1
    BreakFailures = 2
    NoTask = NoTask
    NoTerminal = NoTerminal
SYMMETRY Symmetry
INVARIANTS
    LifecycleInvariant
    AuthorityEndsWithTheDispatch
PROPERTIES
    TransitionsAreLegal
    VerdictsAreFinal
    BreakerStopsAutomaticRetry
CHECK_DEADLOCK FALSE
