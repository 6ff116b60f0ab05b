SPECIFICATION ScanFairSpec
CONSTANTS
    Backends = {"bus", "hci"}
    MaxScans = 4
CHECK_DEADLOCK FALSE
PROPERTIES TimerSparesNewer ScanEnds
