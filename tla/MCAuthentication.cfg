CONSTANTS
    Passwords = {p1, p2}
    NoPassword = NoPassword
    SessionDuration = 3
    MaxFailedAttempts = 1
    BlockDuration = 2
    MaxFailures = 2
    MaxCrashes = 1
SPECIFICATION FairSpec
INVARIANTS
    TypeOK
    AuthenticatedIsFresh
    SubmittedIsFresh
    ContentIsCleared
    FailuresAreSpaced
PROPERTY LockOpens
