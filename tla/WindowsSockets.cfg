SPECIFICATION FairSpec
CONSTANTS
    Conns = {c1, c2}
    Handles = {h1, h2}
    Servers = {s1}
    None = None
    Recycles = TRUE
CHECK_DEADLOCK FALSE
INVARIANT SocketsOwned
PROPERTIES EveryConnectAnswered EveryClientHeard
