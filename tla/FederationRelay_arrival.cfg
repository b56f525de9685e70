SPECIFICATION FairSpec
CONSTANTS
    Settling = TRUE
    SupportingEpochs = {1}
    Quota = 4
    PageSize = 2
    MaxPages = 2
    MaxItems = 3
    MaxEpoch = 1
    MaxFailures = 1
PROPERTIES
    DeliversInOrder
    MailArrives
    UndisturbedAcknowledgmentsConverge
CHECK_DEADLOCK FALSE
