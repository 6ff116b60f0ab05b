SPECIFICATION FairSpec
CONSTANTS
    Conns = {1, 2}
    Servers = {11}
    Fds = {1, 2, 3}
    None = None
    Recycles = TRUE
CHECK_DEADLOCK FALSE
INVARIANT SocketsOwned
PROPERTIES EveryClientHeard DropIsTold
