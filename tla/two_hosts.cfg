SPECIFICATION Spec
CONSTANTS
    h1 = h1
    s1 = s1
    Hosts = {h1, h2}
    Sites = {s1}
    Tools = {t1}
    SiteOf <- OneSite
    ToolsOf <- OneSlice
    Addresses = {a1}
    NoAddress = NoAddress
    Absent = Absent
    RoundRobin = {FALSE}
    StatusWorkers = {u1}
    SiteWorkers = {v1}
    MaxChanges = 0
    MaxFaults = 1
PROPERTIES CacheKeepsSlivers
