SPECIFICATION Spec
CONSTANTS
    Usernames = {adm, bob}
    Admin = adm
    Passwords = {p1}
    Workers = {w1, w2}
    Granted = {"admin"}
    MaxTenants = 2
    MaxDeaths = 1
    Items = {"a", "b"}
    Handlers = {w1, w2}
    Patches <- ModelPatches
    MaxChanges = 2
    Senders = {w1, w2}
    Whole = 2
    Rate = 1
    Capacity = 4
    MaxTicks = 6
    Pages = {"home", "a", "b", "c"}
    Scripts = {"j1", "j2"}
    Seed = "home"
    Sites <- ModelSites
    MaxPages = 3
    MaxDepth = 1
    MaxJs = 1
    NPoints = 3
    MaxPoints = 2
    MaxRequests = 3
    Enabled = {"sqli-error", "sqli-boolean", "crlf"}
    Cost <- TwoEach
    Targets <- ModelTargets
    Names = {"h"}
    Raws <- ModelRaws
    Engagements = {g1}
    Scopes <- ModelScopes
    Values = {"v", "w"}
    Hosts <- ModelHosts
    MaxEdits = 2
    MaxSurveys = 1
    Identities = {"ann", "bob"}
    Primary = "ann"
    Objects = {"o1", "o2"}
    Owned <- ModelOwned
    Endpoints = {"get"}
    Functions = {"panel"}
    Labels = {"pii"}
    Attempts = 2
    MaxBfla = 1
    Apps <- ModelApps
    MaxSweeps = 2
    Plants = {"x1", "x2", "x3"}
    HostOnly = {"x2"}
    Redirecting = {"x3"}
    Batches <- ModelBatches
    Clients <- ModelClients
    MaxPerToken = 2
    MaxFaults = 1
    HostLabel = "host"
    Keys = {k1}
    MaxScans = 5
    Customers = {e1}
    Links = {t1, t2}
    Lifetimes = {0, 1}
    Visitors = {v1}
    MaxDays = 2
    Issues = {f1}
    Pushers = {w1, w2}
    MaxTickets = 2
    Admins = {w1, w2}
    MaxCommits = 2
    Cwes = {"79", "16", "434"}
    OwaspOf <- ModelOwasp
    Urls = {"url"}
    Rows <- ModelRows
    MaxRows = 2
    MaxReports = 2
    HarFiles <- ModelHars
    HostOrder <- ModelHosts2
    AllowLists <- ModelAllow
    Uploaders = {w1, w2}
    BodyCap = 3
    ErrorHead = 2
    MaxImports = 2
    WebSites <- ModelWebSites
    MaxSiteScans = 2
    MaxForms = 1
    RuleSeverity <- ModelRules
    Trees <- ModelTrees
    Lockfiles <- ModelLockfiles
    Advisories <- ModelAdvisories
    Details <- ModelDetails
    MaxFiles = 2
    MaxTotal = 4
    MaxFileBytes = 2
    MaxFindings = 3
    MaxUploads = 1
    CveIds = {"c1", "c2", "c3"}
    KevSeed <- ModelKevSeed
    KevFeed <- ModelKevFeed
    EpssFeed <- ModelEpss
    ExploitSeed <- ModelSeedExploits
    ExploitCsv <- ModelCsv
    Ranked <- ModelRanked
    Fixes <- ModelFixes
    Aliases <- ModelAliases
    MaxUpkeep = 3
    Observations <- ModelObservations
    CweToAttack <- ModelCwes
    OwaspToAttack <- ModelCategories
    TacticOf <- ModelTactics
    Impacts = {3, 4}
    AssetKey <- ModelKeys
    Jewels = {{}, {"z"}}
    ShownPaths = 2
    MaxObserved = 3
    Suspects <- ModelSuspects
    MaxSuspects = 2
    Defences <- ModelDefences
    Burst = 3
CHECK_DEADLOCK FALSE
INVARIANTS
    TypeOK
    AdminAfterStart
    ProjectIsAsEdited
    OpenOnRecordKeepsItOpen
    RateIsKept
    CrawlCoversReach
    IndifferentPointIsClean
    CuratedSurvives
    AccusationsAreEarned
    OnlyCalledIsAccused
    MttrIsHonest
    FindingsAreCoherent
    LinkOpensWhileShared
    TicketsAreKept
    RunningIsCheckedOut
    ReportsAddUp
    KindsSeenAreOnRecord
    SilenceIsNoWeakness
    CrawledSiteIsSeenAfresh
    CodeIsReported
    EvidenceCounts
    PathsShowTheWorst
    VerdictFollowsProbes
    VerdictsAreEarned
