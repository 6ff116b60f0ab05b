SPECIFICATION FairSpec
CONSTANTS
    Callers = {c1, c2}
    MaxWrites = 3
CHECK_DEADLOCK FALSE
INVARIANTS DeliveredIsPrefix FirstFinishFlushes CloseDiscards ReturnedIsReleased
PROPERTIES DeadStaysDead CloseSettles
