SPECIFICATION Spec
CONSTANTS
    Runs = {r1}
    Jobs = {j1, j2}
    Executions = {e1}
    Modules = {m1, m2}
    MaxRequests = 3
SYMMETRY Symmetry
CHECK_DEADLOCK FALSE
INVARIANTS
    TypeOK
    ActiveMeansOneScan
    ScannedIsComplete
PROPERTIES
    OnlyTheOwnerScans
