INIT WebInit
NEXT WebNext
CONSTANTS
    WebSites <- ModelWebSites
    MaxSiteScans = 2
    MaxForms = 1
CHECK_DEADLOCK FALSE
INVARIANTS
    RescanSeesTheSame
