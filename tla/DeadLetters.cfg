SPECIFICATION Spec
CONSTANTS
    j1 = j1
    j2 = j2
    Jobs <- TwoJobs
    Parsable <- OnlyJ2
    Validated = FALSE
    IdDecodes = TRUE
    MaxRetryCount = 2
    BatchSize = 2
    Backoff <- Doubling
    MaxDocs = 3
    Faults = {"refused", "lostReply", "crash"}
INVARIANTS
    AttemptsBounded
    ProcessingIsOwned
    DeadLetterKeptOnce
PROPERTIES
    FinalIsFinal
    ImplementsDocuments
