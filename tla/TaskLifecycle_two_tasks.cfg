SPECIFICATION Spec
CONSTANTS
    Tasks = {t1, t2}
    Terminals = {x1}
    Gates = {}
    Questions = {q1}
    MaxDispatches = 2
    MaxEpoch = 1
    BreakFailures = 2
    NoTask = NoTask
    NoTerminal = NoTerminal
SYMMETRY Symmetry
INVARIANTS
    LifecycleInvariant
    OneActiveDispatchPerTerminal
    LocalQuestionsAreAnswerable
PROPERTIES
    CompletedIsReopenedOnlyByHand
    PromotionIsNeverLost
CHECK_DEADLOCK FALSE
