SPECIFICATION EitherSpec
CONSTANTS
    Bytes = {1, 2}
    Delimiter <- Overlapping
    MaxFrameLength = 4
    NoLimit = NoLimit
    MaxChunk = 4
    MaxInput = 9
    Base = 3
    PrefixLength = 2
    BigEndian = FALSE
    LengthIncludesPrefix = TRUE
    MaxPayload = 5
    MaxFrames = 3
    Payloads <- SomePayloads
    Noise <- SomeNoise
CHECK_DEADLOCK FALSE
INVARIANTS NothingLost NoneMissed RoundTrip BufferBounded
