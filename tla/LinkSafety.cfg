SPECIFICATION Spec
CONSTANTS
    Slots = {s1, s2, s3}
    None = None
    NoLimit = NoLimit
    MaxAttempts = 2
    HasTimeout = TRUE
    Notices = 2
    MaxStarts = 1
    AttemptBound = 3
SYMMETRY SlotSymmetry
INVARIANTS OneChain StateTruthful
PROPERTIES OnlyDropsTearDown WaiterGetsLinkWhileOpen KeepsContract
