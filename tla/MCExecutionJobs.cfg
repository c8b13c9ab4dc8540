SPECIFICATION Spec
CONSTANTS
    Executions = {e1, e2}
    Plan <- TwoCases
    None = none
    HasScan = TRUE
    MaxRestarts = 1
INVARIANTS TypeOK NothingStaleIsRecovered NotLeftExecuting
PROPERTIES JobsEnd
CHECK_DEADLOCK FALSE
