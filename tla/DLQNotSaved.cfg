SPECIFICATION FairSpec
CONSTANTS
    j1 = j1
    j2 = j2
    Jobs <- OneJob
    Parsable <- NoJob
    Validated = TRUE
    IdDecodes = FALSE
    MaxRetryCount = 3
    BatchSize = 2
    Backoff <- Doubling
    MaxDocs = 1
    Faults = {}
PROPERTIES
    DeadLetterSaved
