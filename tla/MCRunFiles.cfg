SPECIFICATION FilesSpec
CONSTANTS
    Chunks = 2
    Hole = Hole
    Retries = 3
    MaxSaves = 3
    MaxRequests = 2
    MaxStarts = 2
    Runs = {r1}
    Refreshes = {k1, k2}
    MaxSessions = 3
SYMMETRY RefreshSymmetry
INVARIANTS
    TypeOK
    LoneSavesAreDurable

    
CHECK_DEADLOCK FALSE
