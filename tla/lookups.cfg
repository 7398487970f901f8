SPECIFICATION Spec
CONSTANTS
    t1 = t1
    t0 = t0
    h1 = h1
    h2 = h2
    h3 = h3
    h4 = h4
    s1 = s1
    s2 = s2
    s3 = s3
    a1 = a1
    near = near
    far = far
    m1 = m1
    m2 = m2
    c1 = c1
    c2 = c2
    Hosts = {h1, h2, h3, h4}
    Sites = {s1, s2, s3}
    Tools = {t1}
    UnknownTool = t0
    SiteOf <- SiteOfHosts
    Addresses = {a1}
    NoAddress = NoAddress
    Absent = Absent
    RoundRobin = {FALSE, TRUE}
    Tables <- SomeTables
    Metros = {m1, m2}
    MetrosOf <- MetrosOfSites
    Countries = {c1, c2}
    CountryOf <- CountryOfHosts
    Locations = {near, far}
    Distance <- DistanceOfSites
    Rank <- RankOfHosts
    BackupSites = {s3}
    DroppableSites = {s2, s3}
    MaxOptions = 2
    Clients = {u1}
    WebTools = {t1}
    Queries <- AllQueries
INVARIANTS TypeOK AnswersMatchQuery NearestSteadySites SteadySliverFound AllSitesAnswered
