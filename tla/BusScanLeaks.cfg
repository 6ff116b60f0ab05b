SPECIFICATION ScanFairSpec
CONSTANTS
    Backends = {"bus", "hci"}
    MaxScans = 2
CHECK_DEADLOCK FALSE
PROPERTY BusScanEnds
