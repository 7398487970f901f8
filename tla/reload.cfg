SPECIFICATION FairSpec
CONSTANTS
    t1 = t1
    t0 = t0
    d1 = d1
    d2 = d2
    i1 = i1
    i2 = i2
    c1 = c1
    c2 = c2
    m1 = m1
    rome = rome
    Hosts = {}
    Sites = {}
    Tools = {t1}
    UnknownTool = t0
    SiteOf <- NoSites
    Addresses = {}
    NoAddress = NoAddress
    Absent = Absent
    RoundRobin = {FALSE}
    Metros = {m1}
    MetrosOf <- NoSites
    Countries = {c1, c2}
    CountryOf <- NoSites
    Locations <- AllLocations
    Distance <- NoDistances
    Rank <- NoSites
    BackupSites = {}
    DroppableSites = {}
    MaxOptions = 1
    IPs = {i1, i2}
    Cities = {rome}
    Malformed = Malformed
    Empty = Empty
    NaN = NaN
    Coordinates <- PlacesThere
    MaxLatitude = 1
    MaxLongitude = 2
    GeoOfCity <- GeoOfCities
    GeoOfCountry <- GeoOfCountries
    Servers = {v1}
    Databases = {d1, d2}
    GeoOfIP <- GeoOfVersions
    Experiments = {t1}
    LoggedTools = {t1}
    Requests <- SomeRequests
    MaxUploads = 1
    MaxChanges = 1
PROPERTY ReloadUpdatesReader
