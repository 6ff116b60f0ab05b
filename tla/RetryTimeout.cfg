SPECIFICATION FairSpec
CONSTANTS
    MaxAttempts = 4
    HasTimeout = TRUE
CHECK_DEADLOCK FALSE
INVARIANTS HeldIsOwned OneLiveAttempt
PROPERTY CallEnds
