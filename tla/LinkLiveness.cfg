SPECIFICATION FairSpec
CONSTANTS
    Slots = {s1, s2}
    None = None
    NoLimit = NoLimit
    MaxAttempts = 2
    HasTimeout = FALSE
    Notices = 2
    MaxStarts = 2
    AttemptBound = 3
INVARIANTS OneNativeLink OnlyBrokenStaysUp
PROPERTIES CloseIsFinal ToldDropsHeal TryingEnds CloseCompletes WaiterAnswered
