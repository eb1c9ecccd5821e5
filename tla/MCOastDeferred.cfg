SPECIFICATION OastSpec
CONSTANTS
    Plants = {"x1", "x2", "x3"}
    HostOnly = {}
    Redirecting = {}
    Batches <- ModelBatches
    Clients <- OverHttp
    MaxPerToken = 1
    MaxFaults = 0
    HostLabel = "host"
CHECK_DEADLOCK FALSE
PROPERTY CallbackMaterializes
