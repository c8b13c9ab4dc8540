SPECIFICATION Spec
CONSTANTS
    Runs = {r1}
    TestIds = {t1, t2}
    ForeignKeys = FALSE
    Outcomes = {"FailThenSkipped"}
    None = none
    MaxCases = 3
    MaxSuites = 2
    MaxExecutions = 1
    MaxListed = 2
SYMMETRY Interchangeable
INVARIANTS SuiteCasesAreDistinct
PROPERTIES BaselineIsKept
CHECK_DEADLOCK FALSE
