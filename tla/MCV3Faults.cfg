SPECIFICATION V3Spec
CONSTANTS
    Callers = {c1, c2}
    Correlations = {k1}
    Scenarios = {open, closed}
    Refused = {closed}
    None = none
    RetryLimit = 1
    MaxManual = 1
    MaxCalls = 2
    Documents <- TwoDocuments
    Rules <- FiveRules
    Figures <- ThreeFigures
    Formats = {"percentage", "table"}
    Tolerance = 1
    Window = 0
    SourceStyles = {"fraction"}
    Absent = Absent
    MaxChecks = 1
    MaxChanges = 1
    MaxTime = 1
CHECK_DEADLOCK FALSE
INVARIANTS DataFaultIsNoDefect
