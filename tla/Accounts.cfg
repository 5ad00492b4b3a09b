SPECIFICATION FairSpec
CONSTANTS
    r1 = r1
    r2 = r2
    q1 = q1
    q2 = q2
    NoOne = NoOne
    Registrations = {r1, r2}
    Credentials <- SameName
    Requests = {q1, q2}
    MaxAttempts = 2
CHECK_DEADLOCK FALSE
INVARIANTS
    TypeOK
    MailedCodeIsValid
    AccessWasVerified
    CodeSpentOnce
    SpentCodeActivates
PROPERTIES
    RegisteredIsMailed
