------------------------ MODULE SliverDirectoryProofs ------------------------
(***************************************************************************)
(* Safety of the sliver directory for every set of hosts, tools, sites,    *)
(* addresses and concurrent requests: types, what the tables may say, and  *)
(* that memcache loses nothing.                                            *)
(***************************************************************************)
EXTENDS SliverDirectoryProperties, TLAPS

-----------------------------------------------------------------------------
(* The computations on entities and tables.                                *)

LEMMA ApplyReportType ==
    ASSUME NEW e \in Entity, NEW f \in Families,
           NEW r \in Statuses \cup {"unknown"}
    PROVE  ApplyReport(e, f, r) \in Entity
  <1>1. CASE r = "unknown" /\ f = "ipv4"
    BY <1>1 DEF ApplyReport
  <1>2. CASE ~(r = "unknown" /\ f = "ipv4")
    <2>1. \A s \in Statuses : [e EXCEPT !.status[f] = s] \in Entity
      BY DEF Entity
    <2>2. QED  BY <1>2, <2>1 DEF ApplyReport, Statuses
  <1>3. QED  BY <1>1, <1>2

LEMMA UpdatedType ==
    ASSUME NEW table \in Table, NEW f \in Families, NEW report \in Report
    PROVE  UpdatedSliverTools(table, f, report) \in Table
  BY ApplyReportType DEF UpdatedSliverTools, Table, Report

LEMMA OverwriteType ==
    ASSUME NEW table \in Table, NEW batch \in Table, NEW hosts
    PROVE  Overwrite(table, batch, hosts) \in Table
  BY DEF Overwrite, Table

LEMMA NoEntitiesType ==
    NoEntities \in Table /\ NoSlivers \in [Tools -> Table]
  BY DEF NoEntities, NoSlivers, Table

LEMMA InitialSliverToolType ==
    ASSUME NEW rr \in BOOLEAN
    PROVE  InitialSliverTool(rr) \in Entity
  BY DEF InitialSliverTool, Entity, Row, Statuses

LEMMA SetSliverToolType ==
    ASSUME NEW e \in Entity \cup {Absent}, NEW row \in Row, NEW rr \in BOOLEAN
    PROVE  SetSliverTool(SliverToolToEdit(e, rr), row, rr) \in Entity
  <1>1. SliverToolToEdit(e, rr) \in Entity
    BY InitialSliverToolType DEF SliverToolToEdit
  <1>2. QED  BY <1>1 DEF SetSliverTool, Entity

LEMMA IdleTypes ==
    /\ IdleStatusJob \in StatusJob
    /\ IdleSiteJob \in SiteJob
  BY NoEntitiesType
     DEF IdleStatusJob, StatusJob, IdleSiteJob, SiteJob, EmptyReport, Report,
         Families, NoSites, NoRows

LEMMA TurnOfType ==
    ASSUME NEW t \in Tools, NEW left \in SUBSET Tools, NEW f \in Families
    PROVE  /\ TurnOf(t, left, f) \in StatusJob
           /\ TurnOf(t, left, f).pc = "query"
           /\ TurnOf(t, left, f).tool = t
  BY IdleTypes DEF TurnOf, StatusJob, IdleStatusJob

-----------------------------------------------------------------------------
(* What a step does to the jobs and to the datastore, seen from outside.   *)

(* statusJob' is well typed when only w's job changes, to a typed one.     *)
StatusJobsOK(jobs) ==
    /\ jobs \in [StatusWorkers -> StatusJob]
    /\ \A v \in StatusWorkers : jobs[v].pc # "idle" => jobs[v].tool \in Tools

LEMMA SetStatusJobType ==
    ASSUME TypeOK, NEW w \in StatusWorkers, NEW job \in StatusJob,
           job.pc # "idle" => job.tool \in Tools, SetStatusJob(w, job)
    PROVE  StatusJobsOK(statusJob')
  BY DEF TypeOK, SetStatusJob, StatusJobsOK

(* The rows left to do are rows there are, of sites that have an entity.   *)
TodoOK(job) ==
    \A s \in job.todo : /\ job.pc = "rows"
                        /\ job.rows[s[2]] # Absent
                        /\ job.sites[SiteOf[s[2]]] # Absent
SiteJobsOK(jobs) ==
    /\ jobs \in [SiteWorkers -> SiteJob]
    /\ \A v \in SiteWorkers : TodoOK(jobs[v])

LEMMA SetSiteJobType ==
    ASSUME TypeOK, NEW w \in SiteWorkers, NEW job \in SiteJob, TodoOK(job),
           SetSiteJob(w, job)
    PROVE  SiteJobsOK(siteJob')
  <1>1. SiteJobsOK(siteJob)
    BY DEF TypeOK, SiteJobsOK, TodoOK
  <1>2. siteJob' = [siteJob EXCEPT ![w] = job] /\ siteJob' \in [SiteWorkers -> SiteJob]
    BY DEF TypeOK, SetSiteJob
  <1>3. \A v \in SiteWorkers : siteJob'[v] = job \/ siteJob'[v] = siteJob[v]
    BY <1>1, <1>2 DEF SiteJobsOK
  <1>4. QED  BY ONLY <1>1, <1>2, <1>3, TodoOK(job) DEF SiteJobsOK

LEMMA NextTurnType ==
    ASSUME TypeOK, NEW w \in StatusWorkers, statusJob[w].pc # "idle",
           NextTurn(w)
    PROVE  StatusJobsOK(statusJob')
  <1> DEFINE job == statusJob[w]
  <1>1. /\ job \in StatusJob /\ job.tool \in Tools
        /\ job.left \in SUBSET Tools
    BY DEF TypeOK, StatusJob
  <1>2. "ipv4" \in Families /\ "ipv6" \in Families
    BY DEF Families
  <1>3. CASE SetStatusJob(w, TurnOf(job.tool, job.left, "ipv6"))
    BY <1>1, <1>2, <1>3, TurnOfType, SetStatusJobType
  <1>4. CASE \E t \in job.left :
                SetStatusJob(w, TurnOf(t, job.left \ {t}, "ipv4"))
    BY <1>1, <1>2, <1>4, TurnOfType, SetStatusJobType
  <1>5. CASE SetStatusJob(w, IdleStatusJob)
    BY <1>5, IdleTypes, SetStatusJobType DEF IdleStatusJob
  <1>6. QED  BY <1>3, <1>4, <1>5 DEF NextTurn

LEMMA WriteDbType ==
    ASSUME TypeOK, NEW w \in Workers, NEW newDb \in [Tools -> Table],
           NEW done \in BOOLEAN, WriteDb(w, newDb, done)
    PROVE  /\ db' \in [Tools -> Table]
           /\ dirty' \in [Workers -> SUBSET (Tools \X Hosts)]
  BY DEF TypeOK, WriteDb, ChangedBy

LEMMA FaultType == TypeOK /\ Fault => faults' \in 0..MaxFaults
  BY BoundsAssumption DEF TypeOK, Fault

-----------------------------------------------------------------------------
(* Types.                                                                  *)

LEMMA TypeInit == Init => TypeOK
  BY NoEntitiesType, IdleTypes, BoundsAssumption
     DEF Init, TypeOK, IdleStatusJob, IdleSiteJob, NoSites

LEMMA TypeStatusStep ==
    ASSUME TypeOK, NEW w \in StatusWorkers,
           StatusProgress(w) \/ StatusFailure(w)
    PROVE  TypeOK'
  <1> DEFINE job == statusJob[w]
  <1>1. /\ job \in StatusJob
        /\ job.pc # "idle" => job.tool \in Tools
        /\ w \in Workers
    BY DEF TypeOK, Workers
  <1>2. /\ job.family \in Families /\ job.left \in SUBSET Tools
        /\ job.report \in Report /\ job.batch \in Table
    BY <1>1 DEF StatusJob
  <1>3. ASSUME NEW hosts, job.pc # "idle"
        PROVE  [db EXCEPT ![job.tool] =
                   Overwrite(@, job.batch, hosts)] \in [Tools -> Table]
    BY <1>1, <1>2, <1>3, OverwriteType DEF TypeOK
  <1>4. CASE StatusStart(w)
    <2>1. PICK t \in Tools : SetStatusJob(w, TurnOf(t, Tools \ {t}, "ipv4"))
      BY <1>4 DEF StatusStart
    <2>2. StatusJobsOK(statusJob')
      BY <2>1, TurnOfType, SetStatusJobType DEF Families
    <2>3. QED  BY <1>4, <2>2 DEF StatusStart, TypeOK, world, StatusJobsOK
  <1>5. CASE QueryMonitoring(w)
    <2> DEFINE report == monitor[job.tool][job.family]
    <2>1. job.pc = "query" /\ job.tool \in Tools /\ report \in Report
      BY <1>1, <1>2, <1>5 DEF QueryMonitoring, TypeOK
    <2>2. /\ [job EXCEPT !.pc = "fetch", !.report = report] \in StatusJob
          /\ SetStatusJob(w, [job EXCEPT !.pc = "fetch", !.report = report])
      BY <1>1, <1>5, <2>1 DEF StatusJob, QueryMonitoring
    <2>3. StatusJobsOK(statusJob')
      BY <1>1, <2>1, <2>2, SetStatusJobType DEF StatusJob
    <2>4. reported' \subseteq Tools \X Hosts \X Families
      BY <1>2, <1>5, <2>1 DEF QueryMonitoring, TypeOK
    <2>5. QED  BY <1>5, <2>3, <2>4 DEF QueryMonitoring, TypeOK, world,
                                       StatusJobsOK
  <1>6. CASE SkipTurn(w)
    <2>1. StatusJobsOK(statusJob')
      BY <1>6, NextTurnType DEF SkipTurn
    <2>2. faults' \in 0..MaxFaults
      BY <1>6, FaultType DEF SkipTurn, TypeOK
    <2>3. QED  BY <1>6, <2>1, <2>2 DEF SkipTurn, TypeOK, world, StatusJobsOK
  <1>7. CASE FetchSliverTools(w)
    <2> DEFINE batch == UpdatedSliverTools(FetchAllSlivers(job.tool),
                                           job.family, job.report)
    <2>1. job.pc = "fetch" /\ job.tool \in Tools
      BY <1>1, <1>7 DEF FetchSliverTools
    <2>2. batch \in Table
      BY <1>2, <2>1, UpdatedType DEF TypeOK, FetchAllSlivers
    <2>3. CASE NextTurn(w)
      <3>1. StatusJobsOK(statusJob')
        BY <2>1, <2>3, NextTurnType
      <3>2. QED  BY <1>7, <3>1 DEF FetchSliverTools, TypeOK, world,
                                   StatusJobsOK
    <2>4. CASE SetStatusJob(w, [job EXCEPT !.pc = "put", !.batch = batch])
      <3>1. [job EXCEPT !.pc = "put", !.batch = batch] \in StatusJob
        BY <1>1, <2>2 DEF StatusJob
      <3>2. StatusJobsOK(statusJob')
        BY <1>1, <2>1, <2>4, <3>1, SetStatusJobType DEF StatusJob
      <3>3. QED  BY <1>7, <3>2 DEF FetchSliverTools, TypeOK, world,
                                   StatusJobsOK
    <2>5. QED  BY <1>7, <2>3, <2>4 DEF FetchSliverTools
  <1>8. ASSUME job.pc = "put", SetStatusJob(w, [job EXCEPT !.pc = "set"])
        PROVE  StatusJobsOK(statusJob')
    <2>1. [job EXCEPT !.pc = "set"] \in StatusJob
      BY <1>1 DEF StatusJob
    <2>2. QED  BY <1>1, <1>8, <2>1, SetStatusJobType DEF StatusJob
  <1>9. CASE PutStatuses(w)
    <2>1. StatusJobsOK(statusJob')
      BY <1>8, <1>9 DEF PutStatuses
    <2>2. /\ db' \in [Tools -> Table]
          /\ dirty' \in [Workers -> SUBSET (Tools \X Hosts)]
      BY <1>1, <1>3, <1>9, WriteDbType DEF PutStatuses
    <2>3. QED  BY <1>9, <2>1, <2>2 DEF PutStatuses, TypeOK, world,
                                       StatusJobsOK
  <1>10. CASE PutStatusesFails(w)
    <2>1. StatusJobsOK(statusJob')
      BY <1>8, <1>10 DEF PutStatusesFails
    <2>2. /\ db' \in [Tools -> Table]
          /\ dirty' \in [Workers -> SUBSET (Tools \X Hosts)]
      BY <1>1, <1>3, <1>10, WriteDbType DEF PutStatusesFails
    <2>3. faults' \in 0..MaxFaults
      BY <1>10, FaultType DEF PutStatusesFails
    <2>4. QED  BY <1>10, <2>1, <2>2, <2>3
                  DEF PutStatusesFails, TypeOK, world, StatusJobsOK
  <1>11. CASE SetMemcache(w)
    <2>1. StatusJobsOK(statusJob')
      BY <1>11, NextTurnType DEF SetMemcache
    <2>2. cache' \in [Tools -> Table]
      BY <1>2, <1>11 DEF SetMemcache, TypeOK
    <2>3. QED  BY <1>11, <2>1, <2>2 DEF SetMemcache, TypeOK, world,
                                        StatusJobsOK
  <1>12. CASE SetMemcacheFails(w)
    <2>1. StatusJobsOK(statusJob') /\ faults' \in 0..MaxFaults
      BY <1>12, NextTurnType, FaultType DEF SetMemcacheFails
    <2>2. QED  BY <1>12, <2>1 DEF SetMemcacheFails, TypeOK, world,
                                  StatusJobsOK
  <1>13. CASE StatusCrash(w)
    <2>1. StatusJobsOK(statusJob')
      BY <1>13, IdleTypes, SetStatusJobType DEF StatusCrash, IdleStatusJob
    <2>2. /\ db' \in [Tools -> Table]
          /\ dirty' \in [Workers -> SUBSET (Tools \X Hosts)]
      <3>1. CASE UNCHANGED <<db, dirty>>
        BY <3>1 DEF TypeOK
      <3>2. CASE ~UNCHANGED <<db, dirty>>
        BY <1>1, <1>3, <1>13, <3>2, WriteDbType DEF StatusCrash
      <3>3. QED  BY <3>1, <3>2
    <2>3. faults' \in 0..MaxFaults
      BY <1>13, FaultType DEF StatusCrash
    <2>4. QED  BY <1>13, <2>1, <2>2, <2>3
                  DEF StatusCrash, TypeOK, world, StatusJobsOK
  <1>14. QED
    BY <1>4, <1>5, <1>6, <1>7, <1>9, <1>10, <1>11, <1>12, <1>13
       DEF StatusProgress, StatusFailure

(* A row's edit of an entity of the snapshot.                              *)
LEMMA TypeRow ==
    ASSUME TypeOK, NEW w \in SiteWorkers, siteJob[w].pc = "rows",
           NEW s \in siteJob[w].todo
    PROVE  /\ s[1] \in Tools /\ s[2] \in Hosts
           /\ NewSliverTool(siteJob[w], s) \in Entity
           /\ DbAfterRow(siteJob[w], s) \in [Tools -> Table]
  <1> DEFINE job == siteJob[w]
  <1>1. /\ s[1] \in Tools /\ s[2] \in Hosts
        /\ job.slivers[s[1]][s[2]] \in Entity \cup {Absent}
        /\ job.rows[s[2]] \in Row
        /\ job.sites[SiteOf[s[2]]] \in BOOLEAN
    BY SiteOfAssumption DEF TypeOK, SiteJob, Table
  <1>2. NewSliverTool(job, s) \in Entity
    BY <1>1, SetSliverToolType DEF NewSliverTool, OldSliverTool
  <1>3. DbAfterRow(job, s) \in [Tools -> Table]
    BY <1>1, <1>2 DEF DbAfterRow, Put, TypeOK, Table
  <1>4. QED  BY <1>1, <1>2, <1>3

LEMMA TypeSiteStep ==
    ASSUME TypeOK, NEW w \in SiteWorkers,
           SiteProgress(w) \/ SiteFailure(w)
    PROVE  TypeOK'
  <1> DEFINE job == siteJob[w]
  <1>1. job \in SiteJob /\ w \in Workers
    BY DEF TypeOK, Workers
  <1>2. /\ job.info \in [Sites -> BOOLEAN \cup {Absent}]
        /\ job.left \in SUBSET Sites
        /\ job.rows \in [Hosts -> Row \cup {Absent}]
        /\ job.sites \in [Sites -> BOOLEAN \cup {Absent}]
        /\ job.slivers \in [Tools -> Table]
        /\ job.todo \in SUBSET (Tools \X Hosts)
    BY <1>1 DEF SiteJob
  <1>3. /\ \A left \in SUBSET Sites :
              LET new == [job EXCEPT !.left = left] IN
              new \in SiteJob /\ TodoOK(new)
        /\ \A todo \in SUBSET job.todo :
              LET new == [job EXCEPT !.todo = todo] IN
              new \in SiteJob /\ TodoOK(new)
        /\ TodoOK(IdleSiteJob)
    BY <1>1, <1>2 DEF SiteJob, TodoOK, TypeOK, IdleSiteJob
  <1>4. CASE SiteStart(w)
    <2>1. siteinfo \in [Sites -> BOOLEAN \cup {Absent}]
      BY RoundRobinAssumption DEF TypeOK
    <2>2. [IdleSiteJob EXCEPT
              !.pc = "register", !.info = siteinfo,
              !.left = {s \in Sites : siteinfo[s] # Absent}] \in SiteJob
      BY <2>1, IdleTypes DEF SiteJob, IdleSiteJob
    <2>3. SiteJobsOK(siteJob')
      BY <1>4, <2>2, SetSiteJobType DEF SiteStart, IdleSiteJob, TodoOK
    <2>4. QED  BY <1>4, <2>3 DEF SiteStart, TypeOK, world, SiteJobsOK, TodoOK
  <1>5. CASE RegisterSite(w)
    <2>1. PICK s \in job.left :
             /\ sites' = [sites EXCEPT ![s] = job.info[s]]
             /\ SetSiteJob(w, [job EXCEPT !.left = @ \ {s}])
      BY <1>5 DEF RegisterSite
    <2>2. SiteJobsOK(siteJob')
      BY <1>2, <1>3, <2>1, SetSiteJobType
    <2>3. sites' \in [Sites -> BOOLEAN \cup {Absent}]
      BY <1>2, <2>1 DEF TypeOK
    <2>4. QED  BY <1>5, <2>2, <2>3 DEF RegisterSite, TypeOK, world, SiteJobsOK, TodoOK
  <1>6. CASE RegisterSiteFails(w)
    <2>1. SiteJobsOK(siteJob')
      BY <1>2, <1>3, <1>6, SetSiteJobType DEF RegisterSiteFails
    <2>2. faults' \in 0..MaxFaults
      BY <1>6, FaultType DEF RegisterSiteFails
    <2>3. QED  BY <1>6, <2>1, <2>2 DEF RegisterSiteFails, TypeOK, world, SiteJobsOK, TodoOK
  <1>7. CASE FetchHostnames(w)
    <2> DEFINE new == [job EXCEPT !.pc = "snapshot", !.rows = hostnames]
    <2>1. new \in SiteJob /\ SetSiteJob(w, new)
      BY <1>1, <1>7 DEF SiteJob, TypeOK, FetchHostnames
    <2>2. TodoOK(new)
      <3>1. job.todo = {}
        BY <1>2, <1>7 DEF FetchHostnames, TypeOK
      <3>2. new.todo = job.todo
        BY <1>1 DEF SiteJob
      <3>3. QED  BY <3>1, <3>2 DEF TodoOK
    <2> HIDE DEF new
    <2> SiteJobsOK(siteJob')
      BY <2>1, <2>2, SetSiteJobType
    <2>3. published' \subseteq Hosts \X Families \X Addresses
      BY <1>7 DEF FetchHostnames, TypeOK
    <2>4. QED  BY <1>7, <2>3 DEF FetchHostnames, TypeOK, world, SiteJobsOK, TodoOK
  <1>8. CASE ReadUpFront(w)
    <2> DEFINE todo == {s \in SliverTools :
                           /\ job.rows[s[2]] # Absent
                           /\ sites[SiteOf[s[2]]] # Absent}
    <2>1. [job EXCEPT !.pc = "rows", !.sites = sites, !.slivers = db,
                      !.todo = todo] \in SiteJob
      BY <1>1 DEF SiteJob, TypeOK, SliverTools
    <2>2. SiteJobsOK(siteJob')
      BY <1>1, <1>8, <2>1, SetSiteJobType DEF ReadUpFront, SiteJob, TodoOK
    <2>3. QED  BY <1>8, <2>2 DEF ReadUpFront, TypeOK, world, SiteJobsOK, TodoOK
  <1>9. CASE UpdateSliverTool(w)
    <2>1. PICK s \in job.todo :
             /\ WriteDb(w, DbAfterRow(job, s), FALSE)
             /\ SetSiteJob(w, [job EXCEPT !.todo = @ \ {s}])
      BY <1>9 DEF UpdateSliverTool
    <2> job.pc = "rows"
      BY <1>9 DEF UpdateSliverTool
    <2>2. SiteJobsOK(siteJob')
      BY <1>2, <1>3, <2>1, SetSiteJobType
    <2>3. DbAfterRow(job, s) \in [Tools -> Table]
      BY <2>1, TypeRow
    <2>4. /\ db' \in [Tools -> Table]
          /\ dirty' \in [Workers -> SUBSET (Tools \X Hosts)]
      BY <1>1, <2>1, <2>3, WriteDbType
    <2>5. QED  BY <1>9, <2>2, <2>4 DEF UpdateSliverTool, TypeOK, world, SiteJobsOK, TodoOK
  <1>10. CASE UpdateSliverToolFails(w)
    <2>1. SiteJobsOK(siteJob')
      BY <1>2, <1>3, <1>10, SetSiteJobType DEF UpdateSliverToolFails
    <2>2. faults' \in 0..MaxFaults
      BY <1>10, FaultType DEF UpdateSliverToolFails
    <2>3. QED  BY <1>10, <2>1, <2>2 DEF UpdateSliverToolFails, TypeOK, world, SiteJobsOK, TodoOK
  <1>11. CASE SiteDone(w)
    <2>1. SiteJobsOK(siteJob')
      BY <1>3, <1>11, IdleTypes, SetSiteJobType DEF SiteDone
    <2>2. QED  BY <1>11, <2>1 DEF SiteDone, TypeOK, world, SiteJobsOK, TodoOK
  <1>12. CASE SiteCrash(w)
    <2>1. SiteJobsOK(siteJob') /\ faults' \in 0..MaxFaults
      BY <1>3, <1>12, IdleTypes, SetSiteJobType, FaultType DEF SiteCrash
    <2>2. QED  BY <1>12, <2>1 DEF SiteCrash, TypeOK, world, SiteJobsOK, TodoOK
  <1>13. QED
    BY <1>4, <1>5, <1>6, <1>7, <1>8, <1>9, <1>10, <1>11, <1>12
       DEF SiteProgress, SiteFailure

LEMMA TypeEnvironmentStep == TypeOK /\ Environment => TypeOK'
  <1> SUFFICES ASSUME TypeOK, Environment PROVE TypeOK'
    OBVIOUS
  <1>1. Change => changes' \in 0..MaxChanges
    BY BoundsAssumption DEF Change, TypeOK
  <1>2. CASE ChangeMonitor
    <2>1. PICK t \in Tools, f \in Families, h \in Hosts,
               r \in Statuses \cup {"unknown"} :
             monitor' = [monitor EXCEPT ![t][f][h] = r]
      BY <1>2 DEF ChangeMonitor
    <2>2. monitor' \in [Tools -> [Families -> Report]]
      BY <2>1 DEF TypeOK, Report
    <2>3. QED  BY <1>1, <1>2, <2>2 DEF ChangeMonitor, TypeOK, inside
  <1>3. CASE ChangeHostnames
    <2>1. hostnames' \in [Hosts -> Row \cup {Absent}]
      BY <1>3 DEF ChangeHostnames, TypeOK
    <2>2. QED  BY <1>1, <1>3, <2>1 DEF ChangeHostnames, TypeOK, inside
  <1>4. CASE ChangeSiteinfo
    <2>1. siteinfo' \in [Sites -> RoundRobin \cup {Absent}]
      BY <1>4 DEF ChangeSiteinfo, TypeOK
    <2>2. QED  BY <1>1, <1>4, <2>1 DEF ChangeSiteinfo, TypeOK, inside
  <1>5. CASE EvictMemcache
    <2>1. cache' \in [Tools -> Table]
      BY <1>5, NoEntitiesType DEF EvictMemcache, TypeOK
    <2>2. QED  BY <1>5, <2>1 DEF EvictMemcache, TypeOK, inside, world
  <1>6. QED  BY <1>2, <1>3, <1>4, <1>5 DEF Environment

LEMMA TypeStep == TypeOK /\ [Next]_vars => TypeOK'
  <1> SUFFICES ASSUME TypeOK, [Next]_vars PROVE TypeOK'
    OBVIOUS
  <1>1. CASE UNCHANGED vars
    BY <1>1 DEF vars, world, TypeOK
  <1>2. CASE Next
    BY <1>2, TypeStatusStep, TypeSiteStep, TypeEnvironmentStep DEF Next
  <1>3. QED  BY <1>1, <1>2

(* Every variable keeps its type, and a running status update always works *)
(* on a tool.                                                              *)
THEOREM TypeCorrect == Spec => []TypeOK
  BY TypeInit, TypeStep, PTL DEF Spec

-----------------------------------------------------------------------------
(* What the directory may say: the inductive invariant speaks of the       *)
(* tables the jobs hold in memory as well as of the datastore and memcache,*)
(* because every written table was in some job's memory.                   *)

LEMMA VouchedMonotone ==
    ASSUME NEW t, NEW table, NEW rep1, NEW rep2, NEW pub1, NEW pub2,
           NEW reg1, NEW reg2,
           rep1 \subseteq rep2, pub1 \subseteq pub2,
           Present(reg1) \subseteq Present(reg2),
           Vouched(t, table, rep1, pub1, reg1)
    PROVE  Vouched(t, table, rep2, pub2, reg2)
  BY DEF Vouched, OnlineReported, AddressPublished

LEMMA VouchedNoEntities ==
    ASSUME NEW t, NEW rep, NEW pub, NEW reg
    PROVE  Vouched(t, NoEntities, rep, pub, reg)
  <1>1. Present(NoEntities) = {}
    BY DEF Present, NoEntities
  <1>2. QED  BY <1>1 DEF Vouched, OnlineReported, AddressPublished

(* Applying a report makes nothing online that the report does not, and    *)
(* touches no address.                                                     *)
LEMMA ApplyReportChanges ==
    ASSUME NEW e \in Entity, NEW f \in Families,
           NEW r \in Statuses \cup {"unknown"}
    PROVE  /\ ApplyReport(e, f, r).ip = e.ip
           /\ ApplyReport(e, f, r).roundrobin = e.roundrobin
           /\ \A g \in Families \ {f} :
                 ApplyReport(e, f, r).status[g] = e.status[g]
           /\ ApplyReport(e, f, r).status[f] = "online" =>
                 r = "online" \/ e.status[f] = "online"
  BY DEF ApplyReport, Entity, Statuses

LEMMA UpdatedVouched ==
    ASSUME NEW t, NEW table \in Table, NEW f \in Families,
           NEW report \in Report, NEW rep, NEW pub, NEW reg,
           Vouched(t, table, rep, pub, reg),
           \A h \in Hosts : report[h] = "online" => <<t, h, f>> \in rep
    PROVE  Vouched(t, UpdatedSliverTools(table, f, report), rep, pub, reg)
  <1> DEFINE new == UpdatedSliverTools(table, f, report)
  <1>1. ASSUME NEW h \in Hosts, table[h] # Absent
        PROVE  /\ table[h] \in Entity
               /\ report[h] \in Statuses \cup {"unknown"}
               /\ new[h] = ApplyReport(table[h], f, report[h])
    BY <1>1 DEF UpdatedSliverTools, Table, Report
  <1>2. Present(new) = Present(table)
    <2>1. \A h \in Hosts : table[h] = Absent => new[h] = Absent
      BY DEF UpdatedSliverTools
    <2>2. \A h \in Hosts : table[h] # Absent => new[h] # Absent
      BY <1>1, ApplyReportType, AbsentAssumption
    <2>3. QED  BY <2>1, <2>2 DEF Present
  <1> HIDE DEF new
  <1>3. ASSUME NEW h \in Present(table), NEW g \in Families
        PROVE  /\ new[h].status[g] = "online" => <<t, h, g>> \in rep
               /\ new[h].ip = table[h].ip
    <2> DEFINE e == table[h]
               r == report[h]
    <2>1. /\ h \in Hosts /\ e \in Entity
          /\ r \in Statuses \cup {"unknown"}
          /\ new[h] = ApplyReport(e, f, r)
      BY <1>1 DEF Present
    <2> HIDE DEF e, r
    <2>2. /\ new[h].ip = e.ip
          /\ g # f => new[h].status[g] = e.status[g]
          /\ new[h].status[f] = "online" =>
                r = "online" \/ e.status[f] = "online"
      BY <2>1, ApplyReportChanges
    <2>3. QED  BY <2>1, <2>2 DEF Vouched, OnlineReported, Present, e, r
  <1>4. Vouched(t, new, rep, pub, reg)
    BY <1>2, <1>3 DEF Vouched, OnlineReported, AddressPublished
  <1>5. QED  BY <1>4 DEF new

LEMMA OverwriteVouched ==
    ASSUME NEW t, NEW table, NEW batch, NEW hosts, NEW rep, NEW pub,
           Vouched(t, table, rep, pub, table),
           Vouched(t, batch, rep, pub, table)
    PROVE  LET new == Overwrite(table, batch, hosts) IN
           /\ Vouched(t, new, rep, pub, new)
           /\ Present(table) \subseteq Present(new)
  <1> DEFINE new == Overwrite(table, batch, hosts)
  <1>1. \A h \in Hosts : \/ new[h] = batch[h] /\ batch[h] # Absent
                         \/ new[h] = table[h]
    BY DEF Overwrite
  <1> HIDE DEF new
  <1>2. Present(new) = Present(table)
    BY <1>1 DEF Vouched, Present
  <1>3. OnlineReported(t, new, rep) /\ AddressPublished(new, pub)
    BY <1>1 DEF Vouched, OnlineReported, AddressPublished, Present
  <1>4. QED  BY <1>2, <1>3 DEF Vouched, new

LEMMA StatusJobMonotone ==
    ASSUME NEW job, NEW rep1, NEW rep2, NEW pub1, NEW pub2,
           NEW base1, NEW base2,
           rep1 \subseteq rep2, pub1 \subseteq pub2,
           \A t \in Tools : Present(base1[t]) \subseteq Present(base2[t]),
           StatusJobVouched(job, rep1, pub1, base1)
    PROVE  StatusJobVouched(job, rep2, pub2, base2)
  <1>1. ReportWasRead(job, rep2)
    BY DEF StatusJobVouched, ReportWasRead
  <1>2. QED  BY <1>1, VouchedMonotone DEF StatusJobVouched

LEMMA SiteJobMonotone ==
    ASSUME NEW job, NEW rep1, NEW rep2, NEW pub1, NEW pub2,
           NEW base1, NEW base2,
           rep1 \subseteq rep2, pub1 \subseteq pub2,
           \A t \in Tools : Present(base1[t]) \subseteq Present(base2[t]),
           SiteJobVouched(job, rep1, pub1, base1)
    PROVE  SiteJobVouched(job, rep2, pub2, base2)
  <1>1. RowsWereRead(job, pub2)
    BY DEF SiteJobVouched, RowsWereRead
  <1>2. QED  BY <1>1, VouchedMonotone DEF SiteJobVouched

-----------------------------------------------------------------------------
(* AllVouched is inductive.                                                *)

(* What was vouched for before a step still is after it, as the histories  *)
(* grow and no entity disappears.                                          *)
LEMMA StillVouched ==
    ASSUME AllVouched,
           reported \subseteq reported', published \subseteq published',
           \A t \in Tools : Present(db[t]) \subseteq Present(db'[t])
    PROVE  /\ \A t \in Tools :
                 /\ Vouched(t, db[t], reported', published', db'[t])
                 /\ Vouched(t, cache[t], reported', published', db'[t])
           /\ \A w \in StatusWorkers :
                 StatusJobVouched(statusJob[w], reported', published', db')
           /\ \A w \in SiteWorkers :
                 SiteJobVouched(siteJob[w], reported', published', db')
  BY VouchedMonotone, StatusJobMonotone, SiteJobMonotone DEF AllVouched

LEMMA TurnVouched ==
    ASSUME NEW t, NEW left, NEW f, NEW rep, NEW pub, NEW base
    PROVE  /\ StatusJobVouched(TurnOf(t, left, f), rep, pub, base)
           /\ StatusJobVouched(IdleStatusJob, rep, pub, base)
           /\ SiteJobVouched(IdleSiteJob, rep, pub, base)
  BY VouchedNoEntities
     DEF StatusJobVouched, ReportWasRead, TurnOf, IdleStatusJob, EmptyReport,
         SiteJobVouched, RowsWereRead, IdleSiteJob, NoRows, NoSlivers

LEMMA VouchedInit == Init => AllVouched
  <1> SUFFICES ASSUME Init PROVE AllVouched
    OBVIOUS
  <1>1. \A t \in Tools : db[t] = NoEntities /\ cache[t] = NoEntities
    BY DEF Init, NoSlivers
  <1>2. QED
    BY <1>1, VouchedNoEntities, TurnVouched DEF Init, AllVouched

LEMMA VouchedStatusStep ==
    ASSUME TypeOK, AllVouched, NEW w \in StatusWorkers,
           StatusProgress(w) \/ StatusFailure(w)
    PROVE  AllVouched'
  <1> DEFINE job == statusJob[w]
  <1>1. /\ job \in StatusJob
        /\ job.pc # "idle" => job.tool \in Tools
        /\ StatusJobVouched(job, reported, published, db)
    BY DEF TypeOK, AllVouched
  <1>2. /\ job.family \in Families /\ job.report \in Report
        /\ job.batch \in Table
    BY <1>1 DEF StatusJob
  \* A step that writes neither datastore nor memcache and replaces w's job
  \* by one that is vouched for.
  <1>3. ASSUME NEW new, SetStatusJob(w, new), UNCHANGED <<db, cache, siteJob>>,
               reported \subseteq reported', published \subseteq published',
               StatusJobVouched(new, reported', published', db)
        PROVE  AllVouched'
    <2>1. \A v \in StatusWorkers :
             statusJob'[v] = new \/ statusJob'[v] = statusJob[v]
      BY <1>3 DEF SetStatusJob, TypeOK
    <2>2. QED  BY <1>3, <2>1, StillVouched DEF AllVouched
  <1>4. ASSUME NextTurn(w), UNCHANGED <<db, cache, siteJob, reported, published>>
        PROVE  AllVouched'
    BY <1>3, <1>4, TurnVouched DEF NextTurn
  \* A put of some of the batch, whatever becomes of the request.
  <1>5. ASSUME NEW hosts, NEW new, SetStatusJob(w, new), job.pc = "put",
               db' = [db EXCEPT ![job.tool] = Overwrite(@, job.batch, hosts)],
               UNCHANGED <<cache, siteJob, reported, published>>,
               \/ new = [job EXCEPT !.pc = "set"]
               \/ new = IdleStatusJob
        PROVE  AllVouched'
    <2>1. /\ Vouched(job.tool, db[job.tool], reported, published, db[job.tool])
          /\ Vouched(job.tool, job.batch, reported, published, db[job.tool])
      BY <1>1, <1>5 DEF AllVouched, StatusJobVouched
    <2>2. /\ db'[job.tool] = Overwrite(db[job.tool], job.batch, hosts)
          /\ \A t \in Tools \ {job.tool} : db'[t] = db[t]
      BY <1>1, <1>5 DEF TypeOK
    <2>3. /\ Vouched(job.tool, db'[job.tool], reported, published,
                     db'[job.tool])
          /\ Present(db[job.tool]) \subseteq Present(db'[job.tool])
      BY <2>1, <2>2, OverwriteVouched
    <2>4. \A t \in Tools : Present(db[t]) \subseteq Present(db'[t])
      BY <2>2, <2>3
    <2>5. /\ \A t \in Tools :
                /\ Vouched(t, db[t], reported', published', db'[t])
                /\ Vouched(t, cache[t], reported', published', db'[t])
          /\ \A v \in StatusWorkers :
                StatusJobVouched(statusJob[v], reported', published', db')
          /\ \A v \in SiteWorkers :
                SiteJobVouched(siteJob[v], reported', published', db')
      BY <1>5, <2>4, StillVouched
    <2>6. StatusJobVouched(new, reported', published', db')
      <3>1. CASE new = [job EXCEPT !.pc = "set"]
        <4>1. /\ new.report = job.report /\ new.batch = job.batch
              /\ new.tool = job.tool /\ new.family = job.family
          BY <1>1, <3>1 DEF StatusJob
        <4>2. QED  BY <2>5, <4>1 DEF StatusJobVouched, ReportWasRead
      <3>2. CASE new = IdleStatusJob
        BY <3>2, TurnVouched
      <3>3. QED  BY <1>5, <3>1, <3>2
    <2>7. \A v \in StatusWorkers :
             statusJob'[v] = new \/ statusJob'[v] = statusJob[v]
      BY <1>5 DEF SetStatusJob, TypeOK
    <2>8. \A t \in Tools :
             Vouched(t, db'[t], reported', published', db'[t])
      BY <1>5, <2>2, <2>3, <2>5
    <2>9. QED  BY <1>5, <2>5, <2>6, <2>7, <2>8 DEF AllVouched
  <1>6. CASE StatusStart(w)
    BY <1>3, <1>6, TurnVouched DEF StatusStart
  <1>7. CASE QueryMonitoring(w)
    <2> DEFINE report == monitor[job.tool][job.family]
               new == [job EXCEPT !.pc = "fetch", !.report = report]
    <2>1. /\ SetStatusJob(w, new) /\ job.tool \in Tools
          /\ reported' = reported \cup {<<job.tool, h, job.family>> :
                h \in {g \in Hosts : report[g] = "online"}}
          /\ UNCHANGED <<db, cache, siteJob, published>>
      BY <1>1, <1>7 DEF QueryMonitoring
    <2>2. /\ new.report = report /\ new.batch = job.batch
          /\ new.tool = job.tool /\ new.family = job.family
      BY <1>1 DEF StatusJob
    <2> HIDE DEF new
    <2>3. ReportWasRead(new, reported')
      BY <2>1, <2>2 DEF ReportWasRead
    <2>4. Vouched(job.tool, job.batch, reported', published', db[job.tool])
      BY <1>1, <2>1, VouchedMonotone DEF StatusJobVouched
    <2>5. QED
      BY <1>3, <2>1, <2>2, <2>3, <2>4 DEF StatusJobVouched
  <1>8. CASE SkipTurn(w)
    BY <1>4, <1>8 DEF SkipTurn
  <1>9. CASE FetchSliverTools(w)
    <2> DEFINE batch == UpdatedSliverTools(FetchAllSlivers(job.tool),
                                           job.family, job.report)
               new == [job EXCEPT !.pc = "put", !.batch = batch]
    <2>1. CASE NextTurn(w)
      BY <1>4, <1>9, <2>1 DEF FetchSliverTools
    <2>2. CASE SetStatusJob(w, new)
      <3>1. job.tool \in Tools /\ db[job.tool] \in Table
        BY <1>1, <1>9 DEF FetchSliverTools, TypeOK
      <3>2. Vouched(job.tool, db[job.tool], reported, published, db[job.tool])
        BY <3>1 DEF AllVouched
      <3>3. \A h \in Hosts : job.report[h] = "online" =>
               <<job.tool, h, job.family>> \in reported
        BY <1>1 DEF StatusJobVouched, ReportWasRead
      <3>4. Vouched(job.tool, batch, reported, published, db[job.tool])
        BY <1>2, <3>1, <3>2, <3>3, UpdatedVouched DEF FetchAllSlivers
      <3>5. /\ new.report = job.report /\ new.batch = batch
            /\ new.tool = job.tool /\ new.family = job.family
        BY <1>1 DEF StatusJob
      <3> HIDE DEF new, batch
      <3>6. StatusJobVouched(new, reported, published, db)
        BY <1>1, <3>4, <3>5 DEF StatusJobVouched, ReportWasRead
      <3>7. QED  BY <1>3, <1>9, <2>2, <3>6 DEF FetchSliverTools
    <2>3. QED  BY <1>9, <2>1, <2>2 DEF FetchSliverTools
  <1>10. CASE PutStatuses(w)
    BY <1>5, <1>10 DEF PutStatuses, WriteDb
  <1>11. CASE PutStatusesFails(w)
    BY <1>5, <1>11 DEF PutStatusesFails, WriteDb
  <1>12. CASE SetMemcache(w)
    <2>1. /\ job.tool \in Tools /\ cache' = [cache EXCEPT ![job.tool] = job.batch]
          /\ NextTurn(w) /\ UNCHANGED <<db, siteJob, reported, published>>
      BY <1>1, <1>12 DEF SetMemcache
    <2>2. \A t \in Tools : Vouched(t, cache'[t], reported, published, db[t])
      BY <1>1, <2>1 DEF AllVouched, StatusJobVouched, TypeOK
    <2>3. \A v \in StatusWorkers :
             StatusJobVouched(statusJob'[v], reported, published, db)
      <3>1. PICK new : /\ SetStatusJob(w, new)
                       /\ StatusJobVouched(new, reported, published, db)
        BY <2>1, TurnVouched DEF NextTurn
      <3>2. \A v \in StatusWorkers :
               statusJob'[v] = new \/ statusJob'[v] = statusJob[v]
        BY <3>1 DEF SetStatusJob, TypeOK
      <3>3. QED  BY <3>1, <3>2 DEF AllVouched
    <2>4. QED  BY <2>1, <2>2, <2>3 DEF AllVouched
  <1>13. CASE SetMemcacheFails(w)
    BY <1>4, <1>13 DEF SetMemcacheFails
  <1>14. CASE StatusCrash(w)
    <2>1. CASE job.pc # "put"
      BY <1>3, <1>14, <2>1, TurnVouched DEF StatusCrash
    <2>2. CASE job.pc = "put"
      BY <1>5, <1>14, <2>2 DEF StatusCrash, WriteDb
    <2>3. QED  BY <2>1, <2>2
  <1>15. QED
    BY <1>6, <1>7, <1>8, <1>9, <1>10, <1>11, <1>12, <1>13, <1>14
       DEF StatusProgress, StatusFailure

(* The entity a row is turned into: its addresses are the row's, read in   *)
(* hostnames.json, its statuses the snapshot's, or offline.                *)
LEMMA RowVouched ==
    ASSUME TypeOK, AllVouched, NEW w \in SiteWorkers, siteJob[w].pc = "rows",
           NEW s \in siteJob[w].todo
    PROVE  LET newDb == DbAfterRow(siteJob[w], s) IN
           \A t \in Tools :
              /\ Vouched(t, newDb[t], reported, published, newDb[t])
              /\ Present(db[t]) \subseteq Present(newDb[t])
  <1> DEFINE job == siteJob[w]
             new == NewSliverTool(job, s)
             newDb == DbAfterRow(job, s)
             old == job.slivers[s[1]][s[2]]
  <1>1. s[1] \in Tools /\ s[2] \in Hosts /\ new \in Entity
    BY TypeRow
  <1>2. /\ job.rows[s[2]] \in Row
        /\ old \in Entity \cup {Absent}
        /\ job.sites[SiteOf[s[2]]] \in BOOLEAN
    BY <1>1, SiteOfAssumption DEF TypeOK, SiteJob, Table
  <1>3. SliverToolToEdit(old, job.sites[SiteOf[s[2]]]) \in Entity
    BY <1>2, InitialSliverToolType DEF SliverToolToEdit
  <1>4. /\ new.ip = job.rows[s[2]]
        /\ new.status =
              SliverToolToEdit(old, job.sites[SiteOf[s[2]]]).status
    BY <1>3 DEF NewSliverTool, OldSliverTool, SetSliverTool, Entity
  <1>5. \A f \in Families :
           new.ip[f] # NoAddress => <<s[2], f, new.ip[f]>> \in published
    BY <1>1, <1>2, <1>4, AbsentAssumption
       DEF AllVouched, SiteJobVouched, RowsWereRead
  <1>6. \A f \in Families :
           new.status[f] = "online" => <<s[1], s[2], f>> \in reported
    <2>1. CASE old = Absent
      <3>1. \A f \in Families : new.status[f] = "offline"
        BY <1>4, <2>1 DEF SliverToolToEdit, InitialSliverTool
      <3>2. QED  BY <3>1
    <2>2. CASE old # Absent
      <3>1. new.status = old.status
        BY <1>4, <2>2 DEF SliverToolToEdit
      <3>2. Vouched(s[1], job.slivers[s[1]], reported, published, db[s[1]])
        BY <1>1 DEF AllVouched, SiteJobVouched
      <3>3. QED
        BY <1>1, <2>2, <3>1, <3>2 DEF Vouched, OnlineReported, Present
    <2>3. QED  BY <2>1, <2>2
  <1> HIDE DEF new, old
  <1>7. /\ \A t \in Tools \ {s[1]} : newDb[t] = db[t]
        /\ \A h \in Hosts \ {s[2]} : newDb[s[1]][h] = db[s[1]][h]
        /\ \/ newDb[s[1]][s[2]] = new
           \/ newDb[s[1]][s[2]] = db[s[1]][s[2]]
    BY <1>1 DEF DbAfterRow, Put, TypeOK, Table, new
  <1> HIDE DEF newDb
  <1>8. ASSUME NEW t \in Tools
        PROVE  /\ Vouched(t, newDb[t], reported, published, newDb[t])
               /\ Present(db[t]) \subseteq Present(newDb[t])
    <2>1. Vouched(t, db[t], reported, published, db[t])
      BY DEF AllVouched
    <2>2. CASE t # s[1]
      BY <1>7, <2>1, <2>2
    <2>3. CASE t = s[1]
      <3>1. \A h \in Hosts : \/ newDb[t][h] = db[t][h]
                             \/ h = s[2] /\ newDb[t][h] = new
        BY <1>7, <2>3
      <3>2. Present(db[t]) \subseteq Present(newDb[t])
        BY <1>1, <3>1, AbsentAssumption DEF Present
      <3>3. OnlineReported(t, newDb[t], reported)
        BY <1>6, <2>1, <2>3, <3>1 DEF OnlineReported, Vouched, Present
      <3>4. AddressPublished(newDb[t], published)
        BY <1>5, <2>1, <3>1 DEF AddressPublished, Vouched, Present
      <3>5. QED  BY <3>2, <3>3, <3>4 DEF Vouched
    <2>4. QED  BY <2>2, <2>3
  <1>9. QED  BY <1>8 DEF newDb

LEMMA VouchedSiteStep ==
    ASSUME TypeOK, AllVouched, NEW w \in SiteWorkers,
           SiteProgress(w) \/ SiteFailure(w)
    PROVE  AllVouched'
  <1> DEFINE job == siteJob[w]
  <1>1. /\ job \in SiteJob
        /\ SiteJobVouched(job, reported, published, db)
    BY DEF TypeOK, AllVouched
  \* A step that leaves datastore and memcache alone and replaces w's job by
  \* one that is vouched for.
  <1>2. ASSUME NEW new, SetSiteJob(w, new), UNCHANGED <<db, cache, statusJob>>,
               reported \subseteq reported', published \subseteq published',
               SiteJobVouched(new, reported', published', db)
        PROVE  AllVouched'
    <2>1. \A v \in SiteWorkers : siteJob'[v] = new \/ siteJob'[v] = siteJob[v]
      BY <1>2 DEF SetSiteJob, TypeOK
    <2>2. QED  BY <1>2, <2>1, StillVouched DEF AllVouched
  \* What is vouched for in a job are its rows and its snapshot.
  <1>3. ASSUME NEW new, NEW rep, NEW pub, NEW base,
               new.rows = job.rows, new.slivers = job.slivers,
               SiteJobVouched(job, rep, pub, base)
        PROVE  SiteJobVouched(new, rep, pub, base)
    BY <1>3 DEF SiteJobVouched, RowsWereRead
  <1>4. \A left : /\ [job EXCEPT !.left = left].rows = job.rows
                  /\ [job EXCEPT !.left = left].slivers = job.slivers
                  /\ [job EXCEPT !.todo = left].rows = job.rows
                  /\ [job EXCEPT !.todo = left].slivers = job.slivers
    BY <1>1 DEF SiteJob
  <1>5. CASE SiteStart(w)
    <2> DEFINE new == [IdleSiteJob EXCEPT
                          !.pc = "register", !.info = siteinfo,
                          !.left = {s \in Sites : siteinfo[s] # Absent}]
    <2>1. /\ new.rows = IdleSiteJob.rows
          /\ new.slivers = IdleSiteJob.slivers
          /\ SetSiteJob(w, new)
      BY <1>5 DEF IdleSiteJob, SiteStart
    <2> HIDE DEF new
    <2>2. SiteJobVouched(new, reported, published, db)
      BY <2>1, TurnVouched DEF SiteJobVouched, RowsWereRead
    <2>3. QED  BY <1>2, <1>5, <2>1, <2>2 DEF SiteStart
  <1>6. CASE RegisterSite(w)
    BY <1>1, <1>2, <1>3, <1>4, <1>6 DEF RegisterSite
  <1>7. CASE RegisterSiteFails(w)
    BY <1>1, <1>2, <1>3, <1>4, <1>7 DEF RegisterSiteFails
  <1>8. CASE FetchHostnames(w)
    <2> DEFINE new == [job EXCEPT !.pc = "snapshot", !.rows = hostnames]
    <2>1. /\ new.rows = hostnames /\ new.slivers = job.slivers
          /\ SetSiteJob(w, new)
          /\ published' = published \cup
                {p \in Hosts \X Families \X Addresses :
                    hostnames[p[1]] # Absent /\ hostnames[p[1]][p[2]] = p[3]}
          /\ UNCHANGED <<db, cache, statusJob, reported>>
      BY <1>1, <1>8 DEF SiteJob, FetchHostnames
    <2> HIDE DEF new
    <2>2. RowsWereRead(new, published')
      <3>1. SUFFICES ASSUME NEW h \in Hosts, NEW f \in Families,
                            hostnames[h] # Absent, hostnames[h][f] # NoAddress
                     PROVE  <<h, f, hostnames[h][f]>> \in published'
        BY <2>1 DEF RowsWereRead
      <3>2. hostnames[h][f] \in Addresses
        BY <3>1 DEF TypeOK, Row
      <3>3. QED  BY <2>1, <3>1, <3>2
    <2>3. \A t \in Tools :
             Vouched(t, new.slivers[t], reported', published', db[t])
      BY <1>1, <2>1, VouchedMonotone DEF SiteJobVouched
    <2>4. QED  BY <1>2, <2>1, <2>2, <2>3 DEF SiteJobVouched
  <1>9. CASE ReadUpFront(w)
    <2> DEFINE new == [job EXCEPT
           !.pc = "rows", !.sites = sites, !.slivers = db,
           !.todo = {s \in SliverTools : /\ job.rows[s[2]] # Absent
                                         /\ sites[SiteOf[s[2]]] # Absent}]
    <2>1. new.rows = job.rows /\ new.slivers = db /\ SetSiteJob(w, new)
      BY <1>1, <1>9 DEF SiteJob, ReadUpFront
    <2> HIDE DEF new
    <2>2. SiteJobVouched(new, reported, published, db)
      BY <1>1, <2>1 DEF SiteJobVouched, RowsWereRead, AllVouched
    <2>3. QED  BY <1>2, <1>9, <2>1, <2>2 DEF ReadUpFront
  <1>10. CASE UpdateSliverTool(w)
    <2>1. PICK s \in job.todo :
             /\ WriteDb(w, DbAfterRow(job, s), FALSE)
             /\ SetSiteJob(w, [job EXCEPT !.todo = @ \ {s}])
      BY <1>10 DEF UpdateSliverTool
    <2>2. /\ job.pc = "rows" /\ db' = DbAfterRow(job, s)
          /\ UNCHANGED <<cache, statusJob, reported, published>>
      BY <1>10, <2>1 DEF UpdateSliverTool, WriteDb
    <2>3. \A t \in Tools :
             /\ Vouched(t, db'[t], reported, published, db'[t])
             /\ Present(db[t]) \subseteq Present(db'[t])
      BY <2>1, <2>2, RowVouched
    <2>4. /\ \A t \in Tools :
                Vouched(t, cache[t], reported', published', db'[t])
          /\ \A v \in StatusWorkers :
                StatusJobVouched(statusJob[v], reported', published', db')
          /\ \A v \in SiteWorkers :
                SiteJobVouched(siteJob[v], reported', published', db')
      BY <2>2, <2>3, StillVouched
    <2>5. SiteJobVouched([job EXCEPT !.todo = @ \ {s}],
                         reported', published', db')
      BY <1>3, <1>4, <2>4
    <2>6. \A v \in SiteWorkers :
             \/ siteJob'[v] = [job EXCEPT !.todo = @ \ {s}]
             \/ siteJob'[v] = siteJob[v]
      BY <2>1 DEF SetSiteJob, TypeOK
    <2>7. QED  BY <2>2, <2>3, <2>4, <2>5, <2>6 DEF AllVouched
  <1>11. CASE UpdateSliverToolFails(w)
    BY <1>1, <1>2, <1>3, <1>4, <1>11 DEF UpdateSliverToolFails
  <1>12. CASE SiteDone(w)
    BY <1>2, <1>12, TurnVouched DEF SiteDone
  <1>13. CASE SiteCrash(w)
    BY <1>2, <1>13, TurnVouched DEF SiteCrash
  <1>14. QED
    BY <1>5, <1>6, <1>7, <1>8, <1>9, <1>10, <1>11, <1>12, <1>13
       DEF SiteProgress, SiteFailure

LEMMA VouchedEnvironmentStep ==
    ASSUME TypeOK, AllVouched, Environment
    PROVE  AllVouched'
  <1>1. /\ UNCHANGED <<db, statusJob, siteJob, reported, published>>
        /\ \A t \in Tools : cache'[t] = cache[t] \/ cache'[t] = NoEntities
    BY DEF Environment, ChangeMonitor, ChangeHostnames, ChangeSiteinfo,
           EvictMemcache, inside, TypeOK
  <1>2. QED  BY <1>1, VouchedNoEntities DEF AllVouched

LEMMA VouchedStep == TypeOK /\ AllVouched /\ [Next]_vars => AllVouched'
  <1> SUFFICES ASSUME TypeOK, AllVouched, [Next]_vars PROVE AllVouched'
    OBVIOUS
  <1>1. CASE UNCHANGED vars
    BY <1>1 DEF vars, AllVouched
  <1>2. CASE Next
    BY <1>2, VouchedStatusStep, VouchedSiteStep, VouchedEnvironmentStep
       DEF Next
  <1>3. QED  BY <1>1, <1>2

(* The inductive invariant behind the three theorems below: every table,   *)
(* stored, cached or in a job's memory, says only what was read.           *)
THEOREM EverythingVouched == Spec => []AllVouched
  BY TypeCorrect, VouchedInit, VouchedStep, PTL DEF Spec

(* No interleaving, failure or crash makes a sliver online that monitoring *)
(* never reported online.                                                  *)
THEOREM OnlineOnlyIfReported == Spec => []OnlineWasReported
  <1>1. AllVouched => OnlineWasReported
    BY DEF AllVouched, Vouched, OnlineWasReported
  <1>2. QED  BY <1>1, EverythingVouched, PTL

(* Nor gives a host an address hostnames.json never gave it.               *)
THEOREM AddressOnlyIfPublished == Spec => []AddressWasPublished
  <1>1. AllVouched => AddressWasPublished
    BY DEF AllVouched, Vouched, AddressWasPublished
  <1>2. QED  BY <1>1, EverythingVouched, PTL

(* Nor lets memcache know a sliver the datastore does not know.            *)
THEOREM CachedOnlyIfRegistered == Spec => []CachedAreRegistered
  <1>1. AllVouched => CachedAreRegistered
    BY DEF AllVouched, Vouched, CachedAreRegistered
  <1>2. QED  BY <1>1, EverythingVouched, PTL

-----------------------------------------------------------------------------
(* Memcache keeps the slivers it holds, with one status update at a time.  *)

LEMMA UpdatedPresent ==
    ASSUME NEW table \in Table, NEW f \in Families, NEW report \in Report
    PROVE  Present(UpdatedSliverTools(table, f, report)) = Present(table)
  <1>1. \A h \in Hosts : table[h] # Absent =>
            ApplyReport(table[h], f, report[h]) # Absent
    BY ApplyReportType, AbsentAssumption DEF Table, Report
  <1>2. QED  BY <1>1 DEF UpdatedSliverTools, Present

(* The list a status update is about to put and to cache has every sliver  *)
(* memcache holds now.                                                     *)
BatchCoversCache(job) ==
    job.pc \in {"put", "set"} =>
        Present(cache[job.tool]) \subseteq Present(job.batch)

CacheCovered == \A w \in StatusWorkers : BatchCoversCache(statusJob[w])

LEMMA CacheCoveredInit == Init => CacheCovered
  BY DEF Init, CacheCovered, BatchCoversCache, IdleStatusJob

CacheKeeps ==
    \A t \in Tools : \/ cache'[t] = NoEntities
                     \/ Present(cache[t]) \subseteq Present(cache'[t])

LEMMA CacheStatusStep ==
    ASSUME TypeOK, AllVouched, CacheCovered,
           \A v, w \in StatusWorkers : v = w,
           NEW w \in StatusWorkers, StatusProgress(w) \/ StatusFailure(w)
    PROVE  CacheCovered' /\ CacheKeeps
  <1> DEFINE job == statusJob[w]
  <1>1. /\ job \in StatusJob /\ BatchCoversCache(job)
        /\ job.pc # "idle" => job.tool \in Tools
    BY DEF TypeOK, CacheCovered
  <1>2. CASE SetMemcache(w)
    <2>1. /\ job.pc = "set" /\ NextTurn(w)
          /\ cache' = [cache EXCEPT ![job.tool] = job.batch]
      BY <1>2 DEF SetMemcache
    <2>2. CacheKeeps
      BY <1>1, <2>1 DEF CacheKeeps, BatchCoversCache, TypeOK
    <2>3. \A t, left, f : /\ TurnOf(t, left, f).pc = "query"
                          /\ IdleStatusJob.pc = "idle"
      BY DEF TurnOf, IdleStatusJob
    <2>4. ASSUME NEW new, SetStatusJob(w, new)
          PROVE  statusJob'[w] = new
      BY <2>4 DEF SetStatusJob, TypeOK
    <2>5. statusJob'[w].pc \in {"query", "idle"}
      BY <2>1, <2>3, <2>4 DEF NextTurn
    <2>6. QED  BY <2>2, <2>5 DEF CacheCovered, BatchCoversCache
  \* Every other step leaves memcache alone, and the job covers it or holds
  \* no list.
  <1>3. ASSUME UNCHANGED cache, NEW new, SetStatusJob(w, new),
               BatchCoversCache(new)
        PROVE  CacheCovered' /\ CacheKeeps
    <2>1. statusJob'[w] = new
      BY <1>3 DEF SetStatusJob, TypeOK
    <2>2. BatchCoversCache(new)'
      BY <1>3 DEF BatchCoversCache
    <2>3. QED
      BY <1>3, <2>1 DEF CacheCovered, BatchCoversCache, CacheKeeps
  <1>4. \A t, left, f : /\ BatchCoversCache(TurnOf(t, left, f))
                        /\ BatchCoversCache(IdleStatusJob)
    BY DEF BatchCoversCache, TurnOf, IdleStatusJob
  <1>5. ASSUME UNCHANGED cache, NextTurn(w) PROVE CacheCovered' /\ CacheKeeps
    BY <1>3, <1>4, <1>5 DEF NextTurn
  <1>6. CASE StatusStart(w)
    BY <1>3, <1>4, <1>6 DEF StatusStart
  <1>7. CASE QueryMonitoring(w)
    <2>1. /\ UNCHANGED cache
          /\ SetStatusJob(w, [job EXCEPT !.pc = "fetch",
                 !.report = monitor[job.tool][job.family]])
      BY <1>7 DEF QueryMonitoring
    <2>2. BatchCoversCache([job EXCEPT !.pc = "fetch",
                                !.report = monitor[job.tool][job.family]])
      BY <1>1 DEF BatchCoversCache, StatusJob
    <2>3. QED  BY <1>3, <2>1, <2>2
  <1>8. CASE SkipTurn(w)
    BY <1>5, <1>8 DEF SkipTurn
  <1>9. CASE FetchSliverTools(w)
    <2> DEFINE batch == UpdatedSliverTools(db[job.tool], job.family,
                                           job.report)
    <2>1. UNCHANGED cache /\ job.pc = "fetch"
      BY <1>9 DEF FetchSliverTools
    <2>2. \/ NextTurn(w)
          \/ SetStatusJob(w, [job EXCEPT !.pc = "put", !.batch = batch])
      BY <1>9 DEF FetchSliverTools, FetchAllSlivers
    <2>3. /\ job.tool \in Tools /\ db[job.tool] \in Table
          /\ job.family \in Families /\ job.report \in Report
      BY <1>1, <2>1 DEF TypeOK, StatusJob
    <2>4. Present(cache[job.tool]) \subseteq Present(db[job.tool])
      BY <2>3 DEF AllVouched, Vouched
    <2>5. Present(batch) = Present(db[job.tool])
      BY <2>3, UpdatedPresent
    <2> HIDE DEF batch
    <2>6. BatchCoversCache([job EXCEPT !.pc = "put", !.batch = batch])
      BY <1>1, <2>4, <2>5 DEF BatchCoversCache, StatusJob
    <2>7. QED  BY <1>3, <1>5, <2>1, <2>2, <2>6
  <1>10. BatchCoversCache([job EXCEPT !.pc = "set"]) \/ job.pc # "put"
    BY <1>1 DEF BatchCoversCache, StatusJob
  <1>11. CASE PutStatuses(w) \/ PutStatusesFails(w)
    BY <1>3, <1>10, <1>11 DEF PutStatuses, PutStatusesFails
  <1>12. CASE SetMemcacheFails(w)
    BY <1>5, <1>12 DEF SetMemcacheFails
  <1>13. CASE StatusCrash(w)
    BY <1>3, <1>4, <1>13 DEF StatusCrash
  <1>14. QED
    BY <1>2, <1>6, <1>7, <1>8, <1>9, <1>11, <1>12, <1>13
       DEF StatusProgress, StatusFailure

LEMMA CacheStep ==
    ASSUME TypeOK, AllVouched, CacheCovered, [Next]_vars,
           \A v, w \in StatusWorkers : v = w
    PROVE  CacheCovered' /\ CacheKeeps
  <1>1. CASE UNCHANGED <<cache, statusJob>>
    BY <1>1 DEF CacheCovered, BatchCoversCache, CacheKeeps
  <1>2. ASSUME NEW w \in StatusWorkers, StatusProgress(w) \/ StatusFailure(w)
        PROVE  CacheCovered' /\ CacheKeeps
    BY <1>2, CacheStatusStep
  <1>3. ASSUME NEW w \in SiteWorkers, SiteProgress(w) \/ SiteFailure(w)
        PROVE  UNCHANGED <<cache, statusJob>>
    BY <1>3 DEF SiteProgress, SiteFailure, SiteStart, RegisterSite,
           FetchHostnames, ReadUpFront, UpdateSliverTool, SiteDone,
           RegisterSiteFails, UpdateSliverToolFails, SiteCrash
  <1>4. CASE Environment
    <2>1. /\ UNCHANGED statusJob
          /\ \A t \in Tools : cache'[t] = cache[t] \/ cache'[t] = NoEntities
      BY <1>4 DEF Environment, ChangeMonitor, ChangeHostnames, ChangeSiteinfo,
             EvictMemcache, inside, TypeOK
    <2>2. Present(NoEntities) = {}
      BY DEF Present, NoEntities
    <2>3. \A w \in StatusWorkers :
              statusJob[w].pc # "idle" => statusJob[w].tool \in Tools
      BY DEF TypeOK
    <2>4. CacheCovered'
      BY <2>1, <2>2, <2>3 DEF CacheCovered, BatchCoversCache
    <2>5. QED  BY <2>1, <2>4 DEF CacheKeeps
  <1>5. QED
    BY <1>1, <1>2, <1>3, <1>4 DEF Next, vars

(* One update that fails, is killed or finds nothing in monitoring, between*)
(* any steps of site updates and evictions, leaves out of memcache no      *)
(* sliver that was there.  Two updates at once can: hence the assumption.  *)
THEOREM CacheLosesNothing ==
    ASSUME \A v, w \in StatusWorkers : v = w
    PROVE  Spec => CacheKeepsSlivers
  <1>1. TypeOK /\ AllVouched /\ CacheCovered /\ [Next]_vars =>
            CacheCovered' /\ CacheKeeps
    BY CacheStep
  <1>2. CacheKeeps =>
            \A t \in Tools : \/ cache'[t] = NoEntities
                             \/ Present(cache[t]) \subseteq Present(cache'[t])
    BY DEF CacheKeeps
  <1>3. QED
    BY <1>1, <1>2, CacheCoveredInit, TypeCorrect, EverythingVouched, PTL
       DEF Spec, CacheKeepsSlivers
=============================================================================
