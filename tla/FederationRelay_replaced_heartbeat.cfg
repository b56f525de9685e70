SPECIFICATION Spec
CONSTANTS
    Settling = TRUE
    SupportingEpochs = {1}
    Quota = 1
    PageSize = 2
    MaxPages = 2
    MaxItems = 2
    MaxEpoch = 1
    MaxFailures = 1
INVARIANTS
    CommittedItemsHaveTheirMessage
CHECK_DEADLOCK FALSE
