SPECIFICATION LiveSpec
CONSTANTS
    RunId <- TheRun
    ScanId <- TheRun
    Clients = {c1}
    None = None
    Capacity = 1
    MaxEvents = 3
    MaxScans = 2
    MaxConnects = 2
CHECK_DEADLOCK FALSE
INVARIANTS TypeOK
PROPERTIES
    ClientNeverGoesBack
    ClientCatchesUp
