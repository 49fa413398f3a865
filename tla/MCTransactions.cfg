CONSTANTS
    NoId = NoId
    NoHash = NoHash
    Ids = {t1}
    OwnBodies = {a}
    SentBodies = {b}
    Nonces = {1}
    HasExtension = TRUE
    Tasks = {k1, k2}
    Pollers = {p1}
    MaxScreens = 1
    MaxCrashes = 1
    MaxLost = 1
SPECIFICATION Spec
SYMMETRY Symmetry
CONSTRAINT Interesting
INVARIANTS  SubmissionsAreConfirmed OutcomeIsTrue
 
CHECK_DEADLOCK FALSE
