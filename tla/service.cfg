SPECIFICATION ServiceFairSpec
CONSTANTS
    h1 = h1
    s1 = s1
    t1 = t1
    c1 = c1
    Hosts = {h1}
    Sites = {s1}
    Tools = {t1}
    UnknownTool = UnknownTool
    SiteOf <- OneSite
    ToolsOf <- OneSlice
    Addresses = {a1}
    NoAddress = NoAddress
    Absent = Absent
    RoundRobin = {FALSE}
    StatusWorkers = {u1}
    SiteWorkers = {v1}
    MaxChanges = 0
    MaxFaults = 0
    Metros = {}
    MetrosOf <- NoMetros
    Countries = {c1}
    CountryOf <- OneCountry
    Locations = {}
    Distance <- NoDistances
    Rank <- OneRank
    BackupSites = {}
    DroppableSites = {}
    MaxOptions = 1
    Clients = {w1}
    WebTools = {}
    Queries <- SomeQueries
    Viewers = {x1}
INVARIANTS ServiceTypeOK AnswersWereReported AnswersWerePublished PageFailsOnlyAsSitesGrow
PROPERTIES CapacityIsFound
