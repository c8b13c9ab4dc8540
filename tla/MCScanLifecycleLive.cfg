SPECIFICATION LiveSpec
CONSTANTS
    Runs = {r1}
    Jobs = {j1, j2}
    Executions = {}
    Modules = {m1}
    MaxRequests = 3
CHECK_DEADLOCK FALSE
PROPERTIES
    StopEndsTheScan
    StartedScanSettles
