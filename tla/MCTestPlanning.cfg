SPECIFICATION PlanningSpec
CONSTANTS
    Scans <- TwoScans
    Uploads <- SomeUploads
    ProviderPlans <- AnswersUpToTwo
    Counts = {0, 2, 7}
    Destructive = {"Delete item"}
    Dangerous = {"Delete item", "Wipe"}
    SafeClicks = {"Add to cart", "Continue shopping", "Next page"}
    Inventory = "/inventory.html"
    Absent = Absent
    Texts <- AnyText
    MaxSteps = 3
    Attempts = 2
INVARIANTS
    
    PlanFitsRequest
PROPERTIES
    RowsComeFirst
    JobEnds
