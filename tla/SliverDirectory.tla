--------------------------- MODULE SliverDirectory ---------------------------
(***************************************************************************)
(* The directory of slivers mlab-ns keeps: the datastore entities, the     *)
(* copy of each tool's entities in memcache, and the two cron jobs that    *)
(* write them (handlers/update.py).                                        *)
(*                                                                         *)
(*   check_status  StatusUpdateHandler.get: for every tool and family,     *)
(*                 query monitoring, fetch the tool's entities, put them   *)
(*                 all back with their new status, set them in memcache.   *)
(*   check_site    SiteRegistrationHandler.get and the call of             *)
(*                 IPUpdateHandler.update that ends it: register the sites *)
(*                 of siteinfo, read hostnames.json, read sites and        *)
(*                 entities up front, then edit entity after entity.       *)
(*                                                                         *)
(* The jobs take no lock and use no transaction: both read whole entities, *)
(* change some fields and put whole entities.  Every call that leaves the  *)
(* process (an HTTP fetch, a datastore query, a put, a memcache set) is a  *)
(* step of its own, may fail where the code or its platform lets it fail,  *)
(* and the job may die at any of them.                                     *)
(***************************************************************************)
EXTENDS Naturals, Slivers

CONSTANTS
    ToolsOf,        \* the tools whose slice is the host's slice
    StatusWorkers,  \* requests that may be running check_status
    SiteWorkers,    \* requests that may be running check_site
    MaxChanges,     \* bound: changes of the outside world
    MaxFaults       \* bound: failed calls and crashes

ASSUME ToolsOfAssumption == ToolsOf \in [Hosts -> SUBSET Tools]
ASSUME WorkersAssumption == StatusWorkers \cap SiteWorkers = {}
ASSUME BoundsAssumption == MaxChanges \in Nat /\ MaxFaults \in Nat

VARIABLES
    monitor,    \* Prometheus or Nagios: a report for each tool and family
    hostnames,  \* hostnames.json: the row of each host
    siteinfo,   \* siteinfo: the roundrobin flag of each valid site
    sites,      \* datastore: the Site entities (their roundrobin flag)
    db,         \* datastore: the SliverTool entities, by tool and host
    cache,      \* memcache: updated_sliver_tools, by tool
    statusJob,  \* the check_status requests
    siteJob,    \* the check_site requests
    changes,    \* changes of the outside world so far
    faults,     \* failed calls and crashes so far
    reported,   \* history: what a job ever read as online
    published,  \* history: the addresses a job ever read
    dirty       \* history: entities changed since a worker copied them

world == <<monitor, hostnames, siteinfo, changes>>
vars == <<world, sites, db, cache, statusJob, siteJob, faults,
          reported, published, dirty>>

Workers == StatusWorkers \cup SiteWorkers
SliverTools == {s \in Tools \X Hosts : s[1] \in ToolsOf[s[2]]}

StatusJob == [pc     : {"idle", "query", "fetch", "put", "set"},
              tool   : Tools \cup {Absent},
              left   : SUBSET Tools,
              family : Families,
              report : Report,
              batch  : Table]

IdleStatusJob == [pc |-> "idle", tool |-> Absent, left |-> {},
                  family |-> "ipv4", report |-> EmptyReport,
                  batch |-> NoEntities]

SiteJob == [pc      : {"idle", "register", "snapshot", "rows"},
            info    : [Sites -> BOOLEAN \cup {Absent}],
            left    : SUBSET Sites,
            rows    : [Hosts -> Row \cup {Absent}],
            sites   : [Sites -> BOOLEAN \cup {Absent}],
            slivers : [Tools -> Table],
            todo    : SUBSET (Tools \X Hosts)]

NoSites == [s \in Sites |-> Absent]
NoRows == [h \in Hosts |-> Absent]
NoSlivers == [t \in Tools |-> NoEntities]

IdleSiteJob == [pc |-> "idle", info |-> NoSites, left |-> {},
                rows |-> NoRows, sites |-> NoSites,
                slivers |-> NoSlivers, todo |-> {}]

TypeOK ==
    /\ monitor \in [Tools -> [Families -> Report]]
    /\ hostnames \in [Hosts -> Row \cup {Absent}]
    /\ siteinfo \in [Sites -> RoundRobin \cup {Absent}]
    /\ sites \in [Sites -> BOOLEAN \cup {Absent}]
    /\ db \in [Tools -> Table]
    /\ cache \in [Tools -> Table]
    /\ statusJob \in [StatusWorkers -> StatusJob]
    /\ \A w \in StatusWorkers :
          statusJob[w].pc # "idle" => statusJob[w].tool \in Tools
    /\ siteJob \in [SiteWorkers -> SiteJob]
    /\ \A w \in SiteWorkers : \A s \in siteJob[w].todo :
          /\ siteJob[w].pc = "rows"
          /\ siteJob[w].rows[s[2]] # Absent
          /\ siteJob[w].sites[SiteOf[s[2]]] # Absent
    /\ changes \in 0..MaxChanges
    /\ faults \in 0..MaxFaults
    /\ reported \subseteq Tools \X Hosts \X Families
    /\ published \subseteq Hosts \X Families \X Addresses
    /\ dirty \in [Workers -> SUBSET (Tools \X Hosts)]

(* A new deployment: nothing registered, no job running, and any outside   *)
(* world.                                                                  *)
Init ==
    /\ monitor \in [Tools -> [Families -> Report]]
    /\ hostnames \in [Hosts -> Row \cup {Absent}]
    /\ siteinfo \in [Sites -> RoundRobin \cup {Absent}]
    /\ sites = NoSites
    /\ db = NoSlivers
    /\ cache = NoSlivers
    /\ statusJob = [w \in StatusWorkers |-> IdleStatusJob]
    /\ siteJob = [w \in SiteWorkers |-> IdleSiteJob]
    /\ changes = 0
    /\ faults = 0
    /\ reported = {}
    /\ published = {}
    /\ dirty = [w \in Workers |-> {}]

-----------------------------------------------------------------------------
(* Helpers of the actions.                                                 *)

Fault == faults < MaxFaults /\ faults' = faults + 1

(* A worker holds copies of entities that it is going to put.              *)
Holding(w) ==
    \/ w \in StatusWorkers /\ statusJob[w].pc = "put"
    \/ w \in SiteWorkers /\ siteJob[w].pc = "rows"

ChangedBy(newDb) == {s \in Tools \X Hosts : newDb[s[1]][s[2]] # db[s[1]][s[2]]}

(* Worker w makes the datastore newDb: the copies others hold go stale.    *)
(* done says that w gives up its own copies with this step.                *)
WriteDb(w, newDb, done) ==
    /\ db' = newDb
    /\ dirty' = [v \in Workers |->
                    IF v = w THEN (IF done THEN {} ELSE dirty[v])
                    ELSE IF Holding(v) THEN dirty[v] \cup ChangedBy(newDb)
                    ELSE dirty[v]]

SetStatusJob(w, job) == statusJob' = [statusJob EXCEPT ![w] = job]
SetSiteJob(w, job) == siteJob' = [siteJob EXCEPT ![w] = job]

(* SliverToolFetcherDatastore.fetch of all slivers of a tool; after the    *)
(* plausible bug of asking SliverToolFetcher, memcache comes first.        *)
FetchFromMemcacheFirst(t) == IF cache[t] # NoEntities THEN cache[t] ELSE db[t]
FetchAllSlivers(t) == db[t]

(* The loops of StatusUpdateHandler.get: both families of a tool, then     *)
(* another tool, then the end of the request.                              *)
TurnOf(t, left, family) ==
    [IdleStatusJob EXCEPT !.pc = "query", !.tool = t, !.left = left,
                          !.family = family]

NextTurn(w) ==
    LET job == statusJob[w] IN
    \/ /\ job.family = "ipv4"
       /\ SetStatusJob(w, TurnOf(job.tool, job.left, "ipv6"))
    \/ /\ job.family = "ipv6"
       /\ \E t \in job.left :
             SetStatusJob(w, TurnOf(t, job.left \ {t}, "ipv4"))
    \/ /\ job.family = "ipv6" /\ job.left = {}
       /\ SetStatusJob(w, IdleStatusJob)

-----------------------------------------------------------------------------
(* check_status: StatusUpdateHandler.get and update_sliver_tools_status.   *)

StatusStart(w) ==
    /\ statusJob[w].pc = "idle"
    /\ \E t \in Tools : SetStatusJob(w, TurnOf(t, Tools \ {t}, "ipv4"))
    /\ UNCHANGED <<world, sites, db, cache, siteJob, faults,
                   reported, published, dirty>>

(* get_slice_status answers a report that names some sliver, maybe only    *)
(* slivers outside Hosts.                                                  *)
QueryMonitoring(w) ==
    LET job == statusJob[w]
        report == monitor[job.tool][job.family] IN
    /\ job.pc = "query"
    /\ SetStatusJob(w, [job EXCEPT !.pc = "fetch", !.report = report])
    /\ reported' = reported \cup
           {<<job.tool, h, job.family>> :
               h \in {g \in Hosts : report[g] = "online"}}
    /\ UNCHANGED <<world, sites, db, cache, siteJob, faults, published, dirty>>

(* Every way the loop goes on without a report: an empty one, or an HTTP   *)
(* error, an unreadable answer, a source without configuration.            *)
SkipTurn(w) ==
    LET job == statusJob[w] IN
    /\ job.pc = "query"
    /\ \/ monitor[job.tool][job.family] = EmptyReport /\ UNCHANGED faults
       \/ Fault
    /\ NextTurn(w)
    /\ UNCHANGED <<world, sites, db, cache, siteJob, reported, published,
                   dirty>>

(* The entities are read, and changed in memory.                           *)
FetchSliverTools(w) ==
    LET job == statusJob[w]
        batch == UpdatedSliverTools(FetchAllSlivers(job.tool),
                                    job.family, job.report) IN
    /\ job.pc = "fetch"
    /\ IF Present(batch) = {}
       THEN NextTurn(w)
       ELSE SetStatusJob(w, [job EXCEPT !.pc = "put", !.batch = batch])
    /\ UNCHANGED <<world, sites, db, cache, siteJob, faults,
                   reported, published, dirty>>

PutStatuses(w) ==
    LET job == statusJob[w] IN
    /\ job.pc = "put"
    /\ WriteDb(w, [db EXCEPT ![job.tool] = Overwrite(@, job.batch, Hosts)],
               TRUE)
    /\ SetStatusJob(w, [job EXCEPT !.pc = "set"])
    /\ UNCHANGED <<world, sites, cache, siteJob, faults, reported, published>>

(* The caught TransactionFailedError: some of the entities may be written, *)
(* and the handler goes on to memcache all the same.                       *)
PutStatusesFails(w) ==
    LET job == statusJob[w] IN
    /\ job.pc = "put"
    /\ Fault
    /\ \E written \in SUBSET Present(job.batch) :
          WriteDb(w, [db EXCEPT ![job.tool] =
                         Overwrite(@, job.batch, written)], TRUE)
    /\ SetStatusJob(w, [job EXCEPT !.pc = "set"])
    /\ UNCHANGED <<world, sites, cache, siteJob, reported, published>>

SetMemcache(w) ==
    LET job == statusJob[w] IN
    /\ job.pc = "set"
    /\ cache' = [cache EXCEPT ![job.tool] = job.batch]
    /\ NextTurn(w)
    /\ UNCHANGED <<world, sites, db, siteJob, faults, reported, published,
                   dirty>>

(* memcache.set answers False: logged, nothing else.                       *)
SetMemcacheFails(w) ==
    /\ statusJob[w].pc = "set"
    /\ Fault
    /\ NextTurn(w)
    /\ UNCHANGED <<world, sites, db, cache, siteJob, reported, published,
                   dirty>>

(* An exception no clause catches, or the request's deadline: the rest of  *)
(* the loop is lost, during the put with some of the entities written.     *)
StatusCrash(w) ==
    LET job == statusJob[w] IN
    /\ job.pc # "idle"
    /\ Fault
    /\ \/ job.pc # "put" /\ UNCHANGED <<db, dirty>>
       \/ /\ job.pc = "put"
          /\ \E written \in SUBSET Present(job.batch) :
                WriteDb(w, [db EXCEPT ![job.tool] =
                               Overwrite(@, job.batch, written)], TRUE)
    /\ SetStatusJob(w, IdleStatusJob)
    /\ UNCHANGED <<world, sites, cache, siteJob, reported, published>>

-----------------------------------------------------------------------------
(* check_site: SiteRegistrationHandler.get.                                *)

(* siteinfo is read and validated.                                         *)
SiteStart(w) ==
    /\ siteJob[w].pc = "idle"
    /\ SetSiteJob(w, [IdleSiteJob EXCEPT
                         !.pc = "register",
                         !.info = siteinfo,
                         !.left = {s \in Sites : siteinfo[s] # Absent}])
    /\ UNCHANGED <<world, sites, db, cache, statusJob, faults,
                   reported, published, dirty>>

(* update_site puts new and known sites alike.                             *)
RegisterSite(w) ==
    LET job == siteJob[w] IN
    /\ job.pc = "register"
    /\ \E s \in job.left :
          /\ sites' = [sites EXCEPT ![s] = job.info[s]]
          /\ SetSiteJob(w, [job EXCEPT !.left = @ \ {s}])
    /\ UNCHANGED <<world, db, cache, statusJob, faults, reported, published,
                   dirty>>

(* Coordinates that are no numbers, or a failed put: the next site.        *)
RegisterSiteFails(w) ==
    LET job == siteJob[w] IN
    /\ job.pc = "register"
    /\ Fault
    /\ \E s \in job.left : SetSiteJob(w, [job EXCEPT !.left = @ \ {s}])
    /\ UNCHANGED <<world, sites, db, cache, statusJob, reported, published,
                   dirty>>

-----------------------------------------------------------------------------
(* check_site: IPUpdateHandler.update.                                     *)

FetchHostnames(w) ==
    LET job == siteJob[w] IN
    /\ job.pc = "register" /\ job.left = {}
    /\ SetSiteJob(w, [job EXCEPT !.pc = "snapshot", !.rows = hostnames])
    /\ published' = published \cup
           {p \in Hosts \X Families \X Addresses :
               hostnames[p[1]] # Absent /\ hostnames[p[1]][p[2]] = p[3]}
    /\ UNCHANGED <<world, sites, db, cache, statusJob, faults, reported, dirty>>

(* Wrong on purpose: rows of sites without an entity are taken too.        *)
ReadUpFrontAnySite(w) ==
    LET job == siteJob[w] IN
    /\ job.pc = "snapshot"
    /\ SetSiteJob(w, [job EXCEPT
           !.pc = "rows", !.sites = sites, !.slivers = db,
           !.todo = {s \in SliverTools : job.rows[s[2]] # Absent}])
    /\ UNCHANGED <<world, sites, db, cache, statusJob, faults,
                   reported, published, dirty>>

(* Fetch all data that the loop is going to need, up front.  Rows of sites *)
(* without an entity and of slices without a tool will be skipped.         *)
ReadUpFront(w) ==
    LET job == siteJob[w] IN
    /\ job.pc = "snapshot"
    /\ SetSiteJob(w, [job EXCEPT
           !.pc = "rows", !.sites = sites, !.slivers = db,
           !.todo = {s \in SliverTools : /\ job.rows[s[2]] # Absent
                                         /\ sites[SiteOf[s[2]]] # Absent}])
    /\ UNCHANGED <<world, sites, db, cache, statusJob, faults,
                   reported, published, dirty>>

(* The entity the loop puts for sliver s, and whether it puts one at all.  *)
OldSliverTool(job, s) ==
    SliverToolToEdit(job.slivers[s[1]][s[2]], job.sites[SiteOf[s[2]]])
NewSliverTool(job, s) ==
    SetSliverTool(OldSliverTool(job, s), job.rows[s[2]],
                  job.sites[SiteOf[s[2]]])

Put(s, entity) == [db EXCEPT ![s[1]] = [@ EXCEPT ![s[2]] = entity]]

(* Wrong on purpose: a host without addresses loses its entity; only the   *)
(* IPv4 address is compared; new slivers are not added; the key of an      *)
(* entity leaves out the tool.                                             *)
DbAfterRowDeleting(job, s) ==
    Put(s, IF \A f \in Families : job.rows[s[2]][f] = NoAddress
           THEN Absent ELSE NewSliverTool(job, s))
DbAfterRowIPv4Only(job, s) ==
    IF /\ job.slivers[s[1]][s[2]] # Absent
       /\ NewSliverTool(job, s).ip["ipv4"] = OldSliverTool(job, s).ip["ipv4"]
    THEN db ELSE Put(s, NewSliverTool(job, s))
DbAfterRowKnownOnly(job, s) ==
    IF job.slivers[s[1]][s[2]] = Absent
    THEN db ELSE Put(s, NewSliverTool(job, s))
DbAfterRowAnyTool(job, s) ==
    [t \in Tools |-> [db[t] EXCEPT ![s[2]] = NewSliverTool(job, s)]]

DbAfterRow(job, s) ==
    IF NewSliverTool(job, s) = OldSliverTool(job, s)
    THEN db
    ELSE Put(s, NewSliverTool(job, s))

UpdateSliverTool(w) ==
    LET job == siteJob[w] IN
    /\ job.pc = "rows"
    /\ \E s \in job.todo :
          /\ WriteDb(w, DbAfterRow(job, s), FALSE)
          /\ SetSiteJob(w, [job EXCEPT !.todo = @ \ {s}])
    /\ UNCHANGED <<world, sites, cache, statusJob, faults, reported, published>>

(* put_sliver_tool catches the failed put and the loop goes on.            *)
UpdateSliverToolFails(w) ==
    LET job == siteJob[w] IN
    /\ job.pc = "rows"
    /\ Fault
    /\ \E s \in job.todo : SetSiteJob(w, [job EXCEPT !.todo = @ \ {s}])
    /\ UNCHANGED <<world, sites, db, cache, statusJob, reported, published,
                   dirty>>

SiteDone(w) ==
    /\ siteJob[w].pc = "rows" /\ siteJob[w].todo = {}
    /\ SetSiteJob(w, IdleSiteJob)
    /\ dirty' = [dirty EXCEPT ![w] = {}]
    /\ UNCHANGED <<world, sites, db, cache, statusJob, faults,
                   reported, published>>

(* An uncaught error, among them the one of util.send_not_found(self) when *)
(* hostnames.json cannot be read, or the request's deadline.               *)
SiteCrash(w) ==
    /\ siteJob[w].pc # "idle"
    /\ Fault
    /\ SetSiteJob(w, IdleSiteJob)
    /\ dirty' = [dirty EXCEPT ![w] = {}]
    /\ UNCHANGED <<world, sites, db, cache, statusJob, reported, published>>

-----------------------------------------------------------------------------
(* The outside world, and memcache dropping a key.                         *)

Change == changes < MaxChanges /\ changes' = changes + 1
inside == <<sites, db, statusJob, siteJob, faults, reported, published, dirty>>

ChangeMonitor ==
    /\ Change
    /\ \E t \in Tools, f \in Families, h \in Hosts,
          r \in Statuses \cup {"unknown"} :
             monitor' = [monitor EXCEPT ![t][f][h] = r]
    /\ UNCHANGED <<inside, cache, hostnames, siteinfo>>

ChangeHostnames ==
    /\ Change
    /\ \E h \in Hosts, row \in Row \cup {Absent} :
          hostnames' = [hostnames EXCEPT ![h] = row]
    /\ UNCHANGED <<inside, cache, monitor, siteinfo>>

ChangeSiteinfo ==
    /\ Change
    /\ \E s \in Sites, rr \in RoundRobin \cup {Absent} :
          siteinfo' = [siteinfo EXCEPT ![s] = rr]
    /\ UNCHANGED <<inside, cache, monitor, hostnames>>

EvictMemcache ==
    /\ \E t \in Tools : cache' = [cache EXCEPT ![t] = NoEntities]
    /\ UNCHANGED <<inside, world>>

-----------------------------------------------------------------------------
StatusProgress(w) ==
    \/ StatusStart(w) \/ QueryMonitoring(w) \/ SkipTurn(w)
    \/ FetchSliverTools(w) \/ PutStatuses(w) \/ SetMemcache(w)

StatusFailure(w) ==
    PutStatusesFails(w) \/ SetMemcacheFails(w) \/ StatusCrash(w)

SiteProgress(w) ==
    \/ SiteStart(w) \/ RegisterSite(w) \/ FetchHostnames(w)
    \/ ReadUpFront(w) \/ UpdateSliverTool(w) \/ SiteDone(w)

SiteFailure(w) ==
    RegisterSiteFails(w) \/ UpdateSliverToolFails(w) \/ SiteCrash(w)

Environment ==
    ChangeMonitor \/ ChangeHostnames \/ ChangeSiteinfo \/ EvictMemcache

Next ==
    \/ \E w \in StatusWorkers : StatusProgress(w) \/ StatusFailure(w)
    \/ \E w \in SiteWorkers : SiteProgress(w) \/ SiteFailure(w)
    \/ Environment

Spec == Init /\ [][Next]_vars

(* cron starts both jobs again and again, and a request that is not killed *)
(* goes on.  Nothing obliges a call to fail, the world to change or        *)
(* memcache to evict.                                                      *)
FairSpec ==
    /\ Spec
    /\ \A w \in StatusWorkers : WF_vars(StatusProgress(w))
    /\ \A w \in SiteWorkers : WF_vars(SiteProgress(w))
=============================================================================
