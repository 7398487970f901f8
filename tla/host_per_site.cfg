SPECIFICATION Spec
CONSTANTS
    h1 = h1
    h2 = h2
    h3 = h3
    h4 = h4
    s1 = s1
    Hosts = {h1, h2, h3, h4}
    Sites = {s1}
    Tools = {}
    UnknownTool = t0
    SiteOf <- OneSite
    Addresses = {}
    NoAddress = NoAddress
    Absent = Absent
    RoundRobin = {FALSE, TRUE}
    Metros = {}
    MetrosOf <- NoMetros
    Countries = {s1}
    CountryOf <- OneCountry
    Locations = {}
    Distance <- NoDistance
    Rank <- RankOfHosts
    BackupSites = {}
    DroppableSites = {}
    MaxOptions = 1
INVARIANTS RoundRobinIsFair 
CHECK_DEADLOCK FALSE
