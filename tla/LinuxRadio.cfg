SPECIFICATION FairSpec
CONSTANTS
    Devices = {d1}
    None = None
    Room = 2
CHECK_DEADLOCK FALSE
INVARIANTS AdapterTruth ResultsWithinScan
PROPERTIES NoDeviceMissed EveryRequestAnswered
