SPECIFICATION Spec
CONSTANTS
    Settling = TRUE
    SupportingEpochs = {2}
    Quota = 1
    PageSize = 1
    MaxPages = 2
    MaxItems = 2
    MaxEpoch = 3
    MaxFailures = 2
INVARIANTS
    RelayTypeOK
    AckedIsImported
    AckedReportsHaveVerdict
    AttachmentAgreesWithHome
    MailShowsTheOutcome
CHECK_DEADLOCK FALSE
