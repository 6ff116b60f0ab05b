SPECIFICATION FairSpec
CONSTANTS
    Callers = {c1, c2}
    None = None
    scan = scan
    connect = connect
    Permissions = {scan, connect}
    Asks <- AndroidTwelve
INVARIANTS NobodyOrphaned RepliesTrue
PROPERTY EveryCallAnswered
