SPECIFICATION Spec
CONSTANTS
    Slots = {s1, s2}
    None = None
    NoLimit = NoLimit
    MaxAttempts = 1
    HasTimeout = TRUE
    Notices = 2
    MaxStarts = 1
    AttemptBound = 2
INVARIANT ClosedReleasesAll
