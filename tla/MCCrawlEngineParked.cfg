SPECIFICATION Spec
CONSTANTS
    Routes <- SiteRoutes
    Modules <- SiteModules
    None = None
    Menu <- SiteMenu
    Selection <- SiteSelection
    Home <- SiteHome
    Lands <- SiteLands
    Scope <- SiteScope
    Controls <- SiteControls
    PageOf <- SitePageOf
    LeadsTo <- SiteLeadsTo
    LooksLike <- SiteLooksLike
    ShowsLink <- SiteShowsLink
    Shifts <- SiteShifts
    Triggers <- SiteTriggers
    Overlays <- SiteOverlays
    Links <- SiteLinks
    PageSignals <- SiteSignals
    MayVanish <- Vanishing
    Interactive = TRUE
    MaxDiscovered = 3
    MaxTriggers = 1
    MaxDepth = 2
    MaxStarts = 1
    MaxFaults = 0
    MaxRetries = 0
CHECK_DEADLOCK FALSE
PROPERTIES
    NothingParkedIsPressed
