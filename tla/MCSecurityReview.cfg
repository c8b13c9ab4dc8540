SPECIFICATION LiveSpec
CONSTANTS
    r1 = r1
    r2 = r2
    Runs = {r1, r2}
    Pages <- SitePages
    Captured <- SiteCaptured
    Links <- SiteLinks
    Fallback <- SiteRoot
    None = None
    Probes = 1
    SeenCap = 2
    MaxRequests = 2
    MaxStarts = 2
    MaxControls = 1
CHECK_DEADLOCK FALSE
INVARIANTS
    TypeOK
    OneReview
    CompletedIsWhole
PROPERTIES
    ReviewEnds
