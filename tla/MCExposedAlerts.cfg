SPECIFICATION InventorySpec
CONSTANTS
    Names = {"h"}
    Raws <- ModelRaws
    Engagements = {g1}
    Scopes <- ModelScopes
    Values = {"v", "w"}
    Hosts <- ModelHosts
    MaxEdits = 0
    MaxSurveys = 2
CHECK_DEADLOCK FALSE
INVARIANT ExposedFindingIsAlerted
