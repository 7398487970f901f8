SPECIFICATION FairSpec
CONSTANTS
    h1 = h1
    s1 = s1
    Hosts = {h1}
    Sites = {s1}
    Tools = {t1}
    SiteOf <- OneSite
    ToolsOf <- OneSlice
    Addresses = {a1}
    NoAddress = NoAddress
    Absent = Absent
    RoundRobin = {FALSE}
    StatusWorkers = {u1}
    SiteWorkers = {v1}
    MaxChanges = 1
    MaxFaults = 2
INVARIANTS TypeOK OnlineWasReported AddressWasPublished CachedAreRegistered
PROPERTIES FieldsKeptWithoutOverlap ImplementsListing ConvergesWithoutOverlap ListedGetsRegistered
