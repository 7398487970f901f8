----------------------- MODULE SliverDirectoryOwnership -----------------------
(***************************************************************************)
(* Each job keeps the other job's fields as long as nobody changes an      *)
(* entity between its read and its write.                                  *)
(***************************************************************************)
EXTENDS SliverDirectoryProofs

LEMMA DiffersReflexive ==
    ASSUME NEW e, NEW f
    PROVE  OnlyStatusDiffers(e, e, f)
  BY DEF OnlyStatusDiffers

LEMMA UpdatedDiffers ==
    ASSUME NEW table \in Table, NEW f \in Families, NEW report \in Report,
           NEW h \in Hosts
    PROVE  OnlyStatusDiffers(table[h],
                             UpdatedSliverTools(table, f, report)[h], f)
  <1>1. CASE table[h] = Absent
    BY <1>1 DEF UpdatedSliverTools, OnlyStatusDiffers
  <1>2. CASE table[h] # Absent
    <2> DEFINE e == table[h]
               r == report[h]
               new == ApplyReport(e, f, r)
    <2>1. /\ e \in Entity /\ r \in Statuses \cup {"unknown"}
          /\ UpdatedSliverTools(table, f, report)[h] = new
      BY <1>2 DEF UpdatedSliverTools, Table, Report
    <2>2. new \in Entity
      BY <2>1, ApplyReportType
    <2>3. /\ new.ip = e.ip /\ new.roundrobin = e.roundrobin
          /\ \A g \in Families \ {f} : new.status[g] = e.status[g]
      <3> HIDE DEF e, r
      <3>1. QED  BY <2>1 DEF ApplyReport, Entity
    <2> HIDE DEF new
    <2>4. QED  BY <1>2, <2>1, <2>2, <2>3, AbsentAssumption
                  DEF OnlyStatusDiffers
  <1>3. QED  BY <1>1, <1>2

(* A write by another worker leaves a worker's copies as fresh as they     *)
(* were: what it changed is marked.                                        *)
LEMMA OthersStayFresh ==
    ASSUME TypeOK, CopiesFresh, NEW w \in Workers, NEW newDb, NEW done,
           WriteDb(w, newDb, done), NEW v \in Workers \ {w}
    PROVE  /\ Holding(v) \/ dirty'[v] = {}
           /\ \A s \in Tools \X Hosts :
                 Holding(v) /\ s \notin dirty'[v] =>
                    /\ s \notin dirty[v]
                    /\ db'[s[1]][s[2]] = db[s[1]][s[2]]
  BY DEF WriteDb, ChangedBy, CopiesFresh

(* What freshness says of one worker.                                      *)
FreshStatus(job, marked, base) ==
    job.pc = "put" =>
        \A h \in Hosts : <<job.tool, h>> \notin marked =>
            OnlyStatusDiffers(base[job.tool][h], job.batch[h], job.family)
FreshSite(job, marked, base) ==
    job.pc = "rows" =>
        \A s \in job.todo \ marked :
            job.slivers[s[1]][s[2]] = base[s[1]][s[2]]

LEMMA CopiesFreshParts ==
    CopiesFresh <=>
        /\ \A w \in Workers : Holding(w) \/ dirty[w] = {}
        /\ \A w \in StatusWorkers : FreshStatus(statusJob[w], dirty[w], db)
        /\ \A w \in SiteWorkers : FreshSite(siteJob[w], dirty[w], db)
  BY DEF CopiesFresh, FreshStatus, FreshSite

(* The others, after a write.                                              *)
LEMMA OthersFreshAfterWrite ==
    ASSUME TypeOK, CopiesFresh, NEW w \in Workers, NEW newDb, NEW done,
           WriteDb(w, newDb, done)
    PROVE  /\ \A v \in StatusWorkers \ {w} :
                 FreshStatus(statusJob[v], dirty'[v], db')
           /\ \A v \in SiteWorkers \ {w} :
                 FreshSite(siteJob[v], dirty'[v], db')
  <1>1. ASSUME NEW v \in StatusWorkers \ {w}
        PROVE  FreshStatus(statusJob[v], dirty'[v], db')
    <2> SUFFICES ASSUME statusJob[v].pc = "put", NEW h \in Hosts,
                        <<statusJob[v].tool, h>> \notin dirty'[v]
                 PROVE  OnlyStatusDiffers(db'[statusJob[v].tool][h],
                                          statusJob[v].batch[h],
                                          statusJob[v].family)
      BY DEF FreshStatus
    <2>1. statusJob[v].tool \in Tools /\ v \in Workers \ {w} /\ Holding(v)
      BY DEF TypeOK, Workers, Holding
    <2>2. /\ <<statusJob[v].tool, h>> \notin dirty[v]
          /\ db'[statusJob[v].tool][h] = db[statusJob[v].tool][h]
      BY <2>1, OthersStayFresh
    <2>3. QED  BY <2>2 DEF CopiesFresh
  <1>2. ASSUME NEW v \in SiteWorkers \ {w}
        PROVE  FreshSite(siteJob[v], dirty'[v], db')
    <2> SUFFICES ASSUME siteJob[v].pc = "rows",
                        NEW s \in siteJob[v].todo \ dirty'[v]
                 PROVE  siteJob[v].slivers[s[1]][s[2]] = db'[s[1]][s[2]]
      BY DEF FreshSite
    <2>1. s \in Tools \X Hosts /\ v \in Workers \ {w} /\ Holding(v)
      BY DEF TypeOK, Workers, Holding, SiteJob
    <2>2. s \notin dirty[v] /\ db'[s[1]][s[2]] = db[s[1]][s[2]]
      BY <2>1, OthersStayFresh
    <2>3. QED  BY <2>2 DEF CopiesFresh
  <1>3. QED  BY <1>1, <1>2

-----------------------------------------------------------------------------
(* A status update's steps: what they write, and that copies stay fresh.   *)

(* A put of some of the batch.                                             *)
PutOfBatch(w, hosts) ==
    /\ statusJob[w].pc = "put"
    /\ WriteDb(w, [db EXCEPT ![statusJob[w].tool] =
                      Overwrite(@, statusJob[w].batch, hosts)], TRUE)

LEMMA StatusStepWrites ==
    ASSUME NEW w \in StatusWorkers, StatusProgress(w) \/ StatusFailure(w)
    PROVE  /\ UNCHANGED siteJob
           /\ \/ \E hosts : PutOfBatch(w, hosts)
              \/ statusJob[w].pc # "put" /\ UNCHANGED <<db, dirty>>
  BY DEF StatusProgress, StatusFailure, StatusStart, QueryMonitoring, SkipTurn,
         FetchSliverTools, PutStatuses, PutStatusesFails, SetMemcache,
         SetMemcacheFails, StatusCrash, PutOfBatch

(* The step leaves w without copies, or it just fetched them.              *)
LEMMA StatusStepCopies ==
    ASSUME TypeOK, NEW w \in StatusWorkers,
           StatusProgress(w) \/ StatusFailure(w)
    PROVE  /\ \A v \in StatusWorkers \ {w} : statusJob'[v] = statusJob[v]
           /\ \/ statusJob'[w].pc # "put"
              \/ /\ statusJob[w].pc # "put" /\ UNCHANGED <<db, dirty>>
                 /\ FreshStatus(statusJob'[w], {}, db)
  <1> DEFINE job == statusJob[w]
  <1>1. job \in StatusJob /\ (job.pc # "idle" => job.tool \in Tools)
    BY DEF TypeOK
  <1>2. ASSUME NEW new, SetStatusJob(w, new)
        PROVE  /\ statusJob'[w] = new
               /\ \A v \in StatusWorkers \ {w} : statusJob'[v] = statusJob[v]
    BY <1>2 DEF SetStatusJob, TypeOK
  <1>3. \A t, left, f : TurnOf(t, left, f).pc = "query"
    BY DEF TurnOf, IdleStatusJob
  <1>4. IdleStatusJob.pc = "idle"
    BY DEF IdleStatusJob
  <1>5. ASSUME NextTurn(w)
        PROVE  /\ statusJob'[w].pc # "put"
               /\ \A v \in StatusWorkers \ {w} : statusJob'[v] = statusJob[v]
    <2>1. PICK new : SetStatusJob(w, new) /\ new.pc # "put"
      BY <1>3, <1>4, <1>5 DEF NextTurn
    <2>2. QED  BY <1>2, <2>1
  <1>6. CASE StatusStart(w)
    <2>1. PICK new : SetStatusJob(w, new) /\ new.pc # "put"
      BY <1>3, <1>6 DEF StatusStart
    <2>2. QED  BY <1>2, <2>1
  <1>7. CASE QueryMonitoring(w)
    <2> DEFINE new == [job EXCEPT !.pc = "fetch",
                                  !.report = monitor[job.tool][job.family]]
    <2>1. SetStatusJob(w, new) /\ new.pc = "fetch"
      BY <1>1, <1>7 DEF QueryMonitoring, StatusJob
    <2> HIDE DEF new
    <2>2. QED  BY <1>2, <2>1
  <1>8. CASE SkipTurn(w) \/ SetMemcache(w) \/ SetMemcacheFails(w)
    BY <1>5, <1>8 DEF SkipTurn, SetMemcache, SetMemcacheFails
  <1>9. CASE FetchSliverTools(w)
    <2> DEFINE batch == UpdatedSliverTools(db[job.tool], job.family, job.report)
               new == [job EXCEPT !.pc = "put", !.batch = batch]
    <2>1. CASE NextTurn(w)
      BY <1>5, <2>1
    <2>2. CASE SetStatusJob(w, new)
      <3>1. /\ job.tool \in Tools /\ job.pc = "fetch"
            /\ UNCHANGED <<db, dirty>>
            /\ db[job.tool] \in Table /\ job.family \in Families
            /\ job.report \in Report
        BY <1>1, <1>9 DEF FetchSliverTools, StatusJob, TypeOK
      <3>2. \A h \in Hosts :
               OnlyStatusDiffers(db[job.tool][h], batch[h], job.family)
        BY <3>1, UpdatedDiffers
      <3>3. /\ new.batch = batch /\ new.tool = job.tool
            /\ new.family = job.family
        BY <1>1 DEF StatusJob
      <3> HIDE DEF batch, new
      <3>4. FreshStatus(new, {}, db)
        BY <3>2, <3>3 DEF FreshStatus
      <3>5. QED  BY <1>2, <2>2, <3>1, <3>4
    <2>3. QED  BY <1>9, <2>1, <2>2 DEF FetchSliverTools, FetchAllSlivers
  <1>10. CASE PutStatuses(w) \/ PutStatusesFails(w)
    <2> DEFINE new == [job EXCEPT !.pc = "set"]
    <2>1. SetStatusJob(w, new) /\ new.pc = "set"
      BY <1>1, <1>10 DEF PutStatuses, PutStatusesFails, StatusJob
    <2> HIDE DEF new
    <2>2. QED  BY <1>2, <2>1
  <1>11. CASE StatusCrash(w)
    <2>1. SetStatusJob(w, IdleStatusJob)
      BY <1>11 DEF StatusCrash
    <2>2. QED  BY <1>2, <1>4, <2>1
  <1>12. QED
    BY <1>6, <1>7, <1>8, <1>9, <1>10, <1>11
       DEF StatusProgress, StatusFailure

LEMMA FreshStatusStep ==
    ASSUME TypeOK, CopiesFresh, NEW w \in StatusWorkers,
           StatusProgress(w) \/ StatusFailure(w)
    PROVE  CopiesFresh'
  <1>1. w \in Workers /\ w \notin SiteWorkers
    BY WorkersAssumption DEF Workers
  <1>2. /\ UNCHANGED siteJob
        /\ \A v \in StatusWorkers \ {w} : statusJob'[v] = statusJob[v]
    BY StatusStepWrites, StatusStepCopies
  <1>3. \A v \in Workers \ {w} : Holding(v)' <=> Holding(v)
    BY <1>2 DEF Holding
  <1>4. CASE \E hosts : PutOfBatch(w, hosts)
    <2>1. PICK newDb : WriteDb(w, newDb, TRUE)
      BY <1>4 DEF PutOfBatch
    <2>2. statusJob'[w].pc # "put"
      BY <1>4, StatusStepCopies DEF PutOfBatch
    <2>3. dirty'[w] = {}
      BY <1>1, <2>1 DEF WriteDb
    <2>4. \A v \in Workers : Holding(v)' \/ dirty'[v] = {}
      BY <1>1, <1>3, <2>1, <2>3, OthersStayFresh
    <2>5. /\ \A v \in StatusWorkers \ {w} :
                FreshStatus(statusJob[v], dirty'[v], db')
          /\ \A v \in SiteWorkers : FreshSite(siteJob[v], dirty'[v], db')
      BY <1>1, <2>1, OthersFreshAfterWrite
    <2>6. \A v \in StatusWorkers : FreshStatus(statusJob'[v], dirty'[v], db')
      BY <1>2, <2>2, <2>5 DEF FreshStatus
    <2>7. QED  BY <1>2, <2>4, <2>5, <2>6
                  DEF CopiesFresh, FreshStatus, FreshSite
  <1>5. CASE statusJob[w].pc # "put" /\ UNCHANGED <<db, dirty>>
    <2>1. dirty[w] = {}
      BY <1>1, <1>5 DEF CopiesFresh, Holding
    <2>2. \A v \in Workers : Holding(v)' \/ dirty'[v] = {}
      BY <1>3, <1>5, <2>1 DEF CopiesFresh
    <2>3. \A v \in StatusWorkers : FreshStatus(statusJob'[v], dirty'[v], db')
      BY <1>2, <1>5, <2>1, StatusStepCopies, CopiesFreshParts DEF FreshStatus
    <2>4. \A v \in SiteWorkers : FreshSite(siteJob'[v], dirty'[v], db')
      BY <1>2, <1>5, CopiesFreshParts
    <2>5. QED  BY <2>2, <2>3, <2>4
                  DEF CopiesFresh, FreshStatus, FreshSite
  <1>6. QED  BY <1>4, <1>5, StatusStepWrites

-----------------------------------------------------------------------------
(* An IP update's steps.                                                   *)

LEMMA SiteStepWrites ==
    ASSUME NEW w \in SiteWorkers, SiteProgress(w) \/ SiteFailure(w)
    PROVE  /\ UNCHANGED statusJob
           /\ \/ UNCHANGED db
              \/ UpdateSliverTool(w)
  <1>1. UpdateSliverTool(w) => UNCHANGED statusJob
    BY DEF UpdateSliverTool
  <1>2. QED
    BY <1>1 DEF SiteProgress, SiteFailure, SiteStart, RegisterSite,
                RegisterSiteFails, FetchHostnames, ReadUpFront,
                UpdateSliverToolFails, SiteDone, SiteCrash

LEMMA SiteStepOthers ==
    ASSUME TypeOK, NEW w \in SiteWorkers, SiteProgress(w) \/ SiteFailure(w)
    PROVE  \A v \in SiteWorkers \ {w} : siteJob'[v] = siteJob[v]
  <1>1. PICK new : SetSiteJob(w, new)
    BY DEF SiteProgress, SiteFailure, SiteStart, RegisterSite,
           RegisterSiteFails, FetchHostnames, ReadUpFront, UpdateSliverTool,
           UpdateSliverToolFails, SiteDone, SiteCrash
  <1>2. QED  BY <1>1 DEF SetSiteJob, TypeOK

(* A row changes its own entity, and of an entity that equals the snapshot *)
(* it keeps the statuses.                                                  *)
LEMMA RowWrites ==
    ASSUME TypeOK, NEW w \in SiteWorkers, siteJob[w].pc = "rows",
           NEW s \in siteJob[w].todo
    PROVE  LET newDb == DbAfterRow(siteJob[w], s) IN
           /\ \A r \in Tools \X Hosts :
                 r # s => newDb[r[1]][r[2]] = db[r[1]][r[2]]
           /\ /\ siteJob[w].slivers[s[1]][s[2]] = db[s[1]][s[2]]
              /\ db[s[1]][s[2]] # Absent
              => /\ newDb[s[1]][s[2]] # Absent
                 /\ newDb[s[1]][s[2]].status = db[s[1]][s[2]].status
  <1> DEFINE job == siteJob[w]
             new == NewSliverTool(job, s)
             newDb == DbAfterRow(job, s)
  <1>1. /\ s \in Tools \X Hosts /\ s[1] \in Tools /\ s[2] \in Hosts
        /\ new \in Entity
    BY TypeRow DEF TypeOK, SiteJob
  <1>2. newDb = db \/ newDb = [db EXCEPT ![s[1]] = [@ EXCEPT ![s[2]] = new]]
    BY DEF DbAfterRow, Put
  <1>3. ASSUME job.slivers[s[1]][s[2]] = db[s[1]][s[2]],
               db[s[1]][s[2]] # Absent
        PROVE  new.status = db[s[1]][s[2]].status
    <2>1. db[s[1]][s[2]] \in Entity
      BY <1>1, <1>3 DEF TypeOK, Table
    <2>2. QED
      BY <1>3, <2>1 DEF NewSliverTool, OldSliverTool, SetSliverTool,
                        SliverToolToEdit, Entity
  <1> HIDE DEF new, newDb
  <1>4. \/ newDb[s[1]][s[2]] = new
        \/ newDb[s[1]][s[2]] = db[s[1]][s[2]]
    BY <1>1, <1>2 DEF TypeOK, Table
  <1>5. ASSUME NEW r \in Tools \X Hosts, r # s
        PROVE  newDb[r[1]][r[2]] = db[r[1]][r[2]]
    <2>1. r[1] # s[1] \/ r[2] # s[2]
      BY <1>1, <1>5
    <2>2. QED  BY <1>1, <1>2, <2>1 DEF TypeOK, Table
  <1>6. QED  BY <1>1, <1>3, <1>4, <1>5, AbsentAssumption DEF newDb

LEMMA FreshSiteStep ==
    ASSUME TypeOK, CopiesFresh, NEW w \in SiteWorkers,
           SiteProgress(w) \/ SiteFailure(w)
    PROVE  CopiesFresh'
  <1> DEFINE job == siteJob[w]
  <1>1. w \in Workers /\ w \notin StatusWorkers /\ job \in SiteJob
    BY WorkersAssumption DEF Workers, TypeOK
  <1>2. /\ UNCHANGED statusJob
        /\ \A v \in SiteWorkers \ {w} : siteJob'[v] = siteJob[v]
    BY SiteStepWrites, SiteStepOthers
  <1>3. \A v \in Workers \ {w} : Holding(v)' <=> Holding(v)
    BY <1>2 DEF Holding
  <1>4. ASSUME NEW new, SetSiteJob(w, new)
        PROVE  siteJob'[w] = new
    BY <1>4 DEF SetSiteJob, TypeOK
  \* Steps that leave the datastore alone: it is enough to look at w.
  <1>5. ASSUME UNCHANGED db, \A v \in Workers \ {w} : dirty'[v] = dirty[v],
               Holding(w)' \/ dirty'[w] = {},
               FreshSite(siteJob'[w], dirty'[w], db)
        PROVE  CopiesFresh'
    <2>1. \A v \in Workers : Holding(v)' \/ dirty'[v] = {}
      BY <1>3, <1>5 DEF CopiesFresh
    <2>2. \A v \in StatusWorkers : FreshStatus(statusJob'[v], dirty'[v], db')
      BY <1>1, <1>2, <1>5, CopiesFreshParts DEF Workers
    <2>3. \A v \in SiteWorkers : FreshSite(siteJob'[v], dirty'[v], db')
      BY <1>2, <1>5, CopiesFreshParts DEF Workers
    <2>4. QED  BY <2>1, <2>2, <2>3 DEF CopiesFresh, FreshStatus, FreshSite
  <1>6. ASSUME NEW new, SetSiteJob(w, new), new.pc # "rows", job.pc # "rows",
               UNCHANGED <<db, dirty>>
        PROVE  CopiesFresh'
    <2>1. dirty[w] = {}
      BY <1>1, <1>6 DEF CopiesFresh, Holding
    <2>2. FreshSite(siteJob'[w], dirty'[w], db)
      BY <1>4, <1>6 DEF FreshSite
    <2>3. QED  BY <1>5, <1>6, <2>1, <2>2
  <1>7. CASE SiteStart(w)
    <2> DEFINE new == [IdleSiteJob EXCEPT
                          !.pc = "register", !.info = siteinfo,
                          !.left = {s \in Sites : siteinfo[s] # Absent}]
    <2>1. SetSiteJob(w, new) /\ new.pc = "register"
      BY <1>7 DEF SiteStart, IdleSiteJob
    <2> HIDE DEF new
    <2>2. QED  BY <1>6, <1>7, <2>1 DEF SiteStart
  <1>8. CASE RegisterSite(w)
    <2>1. PICK new : SetSiteJob(w, new) /\ new.pc = "register"
      BY <1>1, <1>8 DEF RegisterSite, SiteJob
    <2>2. QED  BY <1>6, <1>8, <2>1 DEF RegisterSite
  <1>9. CASE RegisterSiteFails(w)
    <2>1. PICK new : SetSiteJob(w, new) /\ new.pc = "register"
      BY <1>1, <1>9 DEF RegisterSiteFails, SiteJob
    <2>2. QED  BY <1>6, <1>9, <2>1 DEF RegisterSiteFails
  <1>10. CASE FetchHostnames(w)
    <2> DEFINE new == [job EXCEPT !.pc = "snapshot", !.rows = hostnames]
    <2>1. SetSiteJob(w, new) /\ new.pc = "snapshot"
      BY <1>1, <1>10 DEF FetchHostnames, SiteJob
    <2> HIDE DEF new
    <2>2. QED  BY <1>6, <1>10, <2>1 DEF FetchHostnames
  <1>11. CASE ReadUpFront(w)
    <2> DEFINE new == [job EXCEPT
           !.pc = "rows", !.sites = sites, !.slivers = db,
           !.todo = {s \in SliverTools : /\ job.rows[s[2]] # Absent
                                         /\ sites[SiteOf[s[2]]] # Absent}]
    <2>1. SetSiteJob(w, new) /\ new.pc = "rows" /\ new.slivers = db
      BY <1>1, <1>11 DEF ReadUpFront, SiteJob
    <2> HIDE DEF new
    <2>2. /\ UNCHANGED <<db, dirty>>
          /\ FreshSite(siteJob'[w], dirty'[w], db)
          /\ Holding(w)'
      BY <1>4, <1>11, <2>1 DEF ReadUpFront, FreshSite, Holding
    <2>3. QED  BY <1>5, <2>2
  <1>12. CASE UpdateSliverTool(w)
    <2>1. PICK s \in job.todo :
             /\ WriteDb(w, DbAfterRow(job, s), FALSE)
             /\ SetSiteJob(w, [job EXCEPT !.todo = @ \ {s}])
      BY <1>12 DEF UpdateSliverTool
    <2> DEFINE new == [job EXCEPT !.todo = @ \ {s}]
    <2>2. /\ new.pc = "rows" /\ new.todo = job.todo \ {s}
          /\ new.slivers = job.slivers /\ siteJob'[w] = new
          /\ job.pc = "rows"
      BY <1>1, <1>4, <1>12, <2>1 DEF SiteJob, UpdateSliverTool
    <2> HIDE DEF new
    <2>3. db' = DbAfterRow(job, s) /\ dirty'[w] = dirty[w]
      BY <1>1, <2>1 DEF WriteDb
    <2>4. \A r \in Tools \X Hosts : r # s => db'[r[1]][r[2]] = db[r[1]][r[2]]
      BY <2>1, <2>2, <2>3, RowWrites
    <2>5. FreshSite(siteJob'[w], dirty'[w], db')
      <3>1. ASSUME NEW r \in (job.todo \ {s}) \ dirty[w]
            PROVE  job.slivers[r[1]][r[2]] = db'[r[1]][r[2]]
        <4>1. r \in Tools \X Hosts /\ r # s
          BY <1>1 DEF SiteJob
        <4>2. job.slivers[r[1]][r[2]] = db[r[1]][r[2]]
          BY <2>2 DEF CopiesFresh
        <4>3. QED  BY <2>4, <4>1, <4>2
      <3>2. QED  BY <2>2, <2>3, <3>1 DEF FreshSite
    <2>6. /\ \A v \in StatusWorkers : FreshStatus(statusJob[v], dirty'[v], db')
          /\ \A v \in SiteWorkers \ {w} :
                FreshSite(siteJob[v], dirty'[v], db')
      BY <1>1, <2>1, OthersFreshAfterWrite
    <2>7. \A v \in Workers : Holding(v)' \/ dirty'[v] = {}
      BY <1>1, <1>3, <2>1, <2>2, OthersStayFresh DEF Holding
    <2>8. QED  BY <1>2, <2>5, <2>6, <2>7 DEF CopiesFresh, FreshStatus, FreshSite
  <1>13. CASE UpdateSliverToolFails(w)
    <2>1. PICK new : /\ SetSiteJob(w, new) /\ new.pc = "rows"
                     /\ new.todo \subseteq job.todo
                     /\ new.slivers = job.slivers
      BY <1>1, <1>13 DEF UpdateSliverToolFails, SiteJob
    <2>2. UNCHANGED <<db, dirty>> /\ job.pc = "rows"
      BY <1>13 DEF UpdateSliverToolFails
    <2>3. FreshSite(siteJob'[w], dirty'[w], db) /\ Holding(w)'
      BY <1>4, <2>1, <2>2 DEF CopiesFresh, FreshSite, Holding
    <2>4. QED  BY <1>5, <2>2, <2>3
  <1>14. CASE SiteDone(w) \/ SiteCrash(w)
    <2>1. SetSiteJob(w, IdleSiteJob) /\ dirty' = [dirty EXCEPT ![w] = {}]
          /\ UNCHANGED db
      BY <1>14 DEF SiteDone, SiteCrash
    <2>2. /\ FreshSite(siteJob'[w], dirty'[w], db)
          /\ dirty'[w] = {}
          /\ \A v \in Workers \ {w} : dirty'[v] = dirty[v]
      BY <1>1, <1>4, <2>1 DEF FreshSite, IdleSiteJob, TypeOK
    <2>3. QED  BY <1>5, <2>1, <2>2
  <1>15. QED
    BY <1>7, <1>8, <1>9, <1>10, <1>11, <1>12, <1>13, <1>14
       DEF SiteProgress, SiteFailure

LEMMA FreshInit == Init => CopiesFresh
  BY DEF Init, CopiesFresh, IdleStatusJob, IdleSiteJob

LEMMA EnvironmentKeeps ==
    Environment => UNCHANGED <<db, statusJob, siteJob, dirty>>
  BY DEF Environment, ChangeMonitor, ChangeHostnames, ChangeSiteinfo,
         EvictMemcache, inside

LEMMA FreshStep == TypeOK /\ CopiesFresh /\ [Next]_vars => CopiesFresh'
  <1> SUFFICES ASSUME TypeOK, CopiesFresh, [Next]_vars PROVE CopiesFresh'
    OBVIOUS
  <1>1. CASE UNCHANGED vars \/ Environment
    <2>1. UNCHANGED <<db, statusJob, siteJob, dirty>>
      BY <1>1, EnvironmentKeeps DEF vars
    <2>2. QED  BY <2>1 DEF CopiesFresh, Holding
  <1>2. CASE Next /\ ~Environment
    BY <1>2, FreshStatusStep, FreshSiteStep DEF Next
  <1>3. QED  BY <1>1, <1>2

(* A worker's copy of an entity differs from the datastore's entity in the *)
(* field the worker is about to write at most, unless the entity changed   *)
(* since the worker read it.                                               *)
THEOREM CopiesStayFresh == Spec => []CopiesFresh
  BY TypeCorrect, FreshInit, FreshStep, PTL DEF Spec

-----------------------------------------------------------------------------
(* From the invariant to the action property.                              *)

StatusUpdatesKeep ==
    \A w \in StatusWorkers : statusJob'[w] # statusJob[w] =>
        \A s \in SliverTools \ dirty[w] :
            OnlyStatusDiffers(db[s[1]][s[2]], db'[s[1]][s[2]],
                              statusJob[w].family)
IPUpdatesKeep ==
    \A w \in SiteWorkers : siteJob'[w] # siteJob[w] =>
        \A s \in SliverTools \ dirty[w] :
            db[s[1]][s[2]] # Absent =>
                /\ db'[s[1]][s[2]] # Absent
                /\ db'[s[1]][s[2]].status = db[s[1]][s[2]].status

LEMMA StatusStepKeeps ==
    ASSUME TypeOK, CopiesFresh, NEW w \in StatusWorkers,
           StatusProgress(w) \/ StatusFailure(w)
    PROVE  StatusUpdatesKeep /\ IPUpdatesKeep
  <1> DEFINE job == statusJob[w]
  <1>1. \A v \in StatusWorkers \ {w} : statusJob'[v] = statusJob[v]
    BY StatusStepCopies
  <1>2. IPUpdatesKeep
    BY StatusStepWrites DEF IPUpdatesKeep
  <1>3. ASSUME NEW s \in SliverTools \ dirty[w]
        PROVE  OnlyStatusDiffers(db[s[1]][s[2]], db'[s[1]][s[2]], job.family)
    <2>1. s[1] \in Tools /\ s[2] \in Hosts /\ s = <<s[1], s[2]>>
      BY <1>3 DEF SliverTools
    <2>2. CASE UNCHANGED db
      BY <2>2, DiffersReflexive
    <2>3. CASE \E hosts : PutOfBatch(w, hosts)
      <3>1. PICK hosts : PutOfBatch(w, hosts)
        BY <2>3
      <3>2. /\ job.pc = "put" /\ job.tool \in Tools
            /\ db' = [db EXCEPT ![job.tool] = Overwrite(@, job.batch, hosts)]
        BY <3>1 DEF PutOfBatch, WriteDb, TypeOK
      <3>3. CASE s[1] # job.tool
        BY <2>1, <3>2, <3>3, DiffersReflexive DEF TypeOK
      <3>4. CASE s[1] = job.tool
        <4>1. \/ db'[s[1]][s[2]] = job.batch[s[2]]
              \/ db'[s[1]][s[2]] = db[s[1]][s[2]]
          BY <2>1, <3>2, <3>4 DEF TypeOK, Overwrite
        <4>2. OnlyStatusDiffers(db[s[1]][s[2]], job.batch[s[2]], job.family)
          BY <1>3, <2>1, <3>2, <3>4 DEF CopiesFresh
        <4>3. QED  BY <4>1, <4>2, DiffersReflexive
      <3>5. QED  BY <3>3, <3>4
    <2>4. QED  BY <2>2, <2>3, StatusStepWrites
  <1>4. QED  BY <1>1, <1>2, <1>3 DEF StatusUpdatesKeep

LEMMA SiteStepKeeps ==
    ASSUME TypeOK, CopiesFresh, NEW w \in SiteWorkers,
           SiteProgress(w) \/ SiteFailure(w)
    PROVE  StatusUpdatesKeep /\ IPUpdatesKeep
  <1> DEFINE job == siteJob[w]
  <1>1. \A v \in SiteWorkers \ {w} : siteJob'[v] = siteJob[v]
    BY SiteStepOthers
  <1>2. StatusUpdatesKeep
    BY SiteStepWrites DEF StatusUpdatesKeep
  <1>3. ASSUME NEW s \in SliverTools \ dirty[w], db[s[1]][s[2]] # Absent
        PROVE  /\ db'[s[1]][s[2]] # Absent
               /\ db'[s[1]][s[2]].status = db[s[1]][s[2]].status
    <2>1. CASE UNCHANGED db
      BY <1>3, <2>1
    <2>2. CASE UpdateSliverTool(w)
      <3>1. PICK r \in job.todo : WriteDb(w, DbAfterRow(job, r), FALSE)
        BY <2>2 DEF UpdateSliverTool
      <3>2. db' = DbAfterRow(job, r) /\ job.pc = "rows"
        BY <2>2, <3>1 DEF WriteDb, UpdateSliverTool
      <3>3. CASE s = r
        <4>1. job.slivers[s[1]][s[2]] = db[s[1]][s[2]]
          BY <1>3, <3>2, <3>3 DEF CopiesFresh
        <4>2. QED  BY <1>3, <3>2, <3>3, <4>1, RowWrites
      <3>4. CASE s # r
        <4>1. s \in Tools \X Hosts
          BY DEF SliverTools
        <4>2. QED  BY <1>3, <3>2, <3>4, <4>1, RowWrites
      <3>5. QED  BY <3>3, <3>4
    <2>3. QED  BY <2>1, <2>2, SiteStepWrites
  <1>4. QED  BY <1>1, <1>2, <1>3 DEF IPUpdatesKeep

(* A status update keeps addresses, roundrobin flag and the other family's *)
(* status, and an IP update keeps the statuses, of every entity that did   *)
(* not change between the update's read and its write.                     *)
THEOREM FieldsKept == Spec => FieldsKeptWithoutOverlap
  <1>1. TypeOK /\ CopiesFresh /\ [Next]_vars =>
           [StatusUpdatesKeep /\ IPUpdatesKeep]_vars
    <2> SUFFICES ASSUME TypeOK, CopiesFresh, Next
                 PROVE  StatusUpdatesKeep /\ IPUpdatesKeep
      OBVIOUS
    <2>1. CASE Environment
      BY <2>1, EnvironmentKeeps DEF StatusUpdatesKeep, IPUpdatesKeep
    <2>2. CASE ~Environment
      BY <2>2, StatusStepKeeps, SiteStepKeeps DEF Next
    <2>3. QED  BY <2>1, <2>2
  <1>2. QED
    BY <1>1, TypeCorrect, CopiesStayFresh, PTL
       DEF Spec, FieldsKeptWithoutOverlap, StatusUpdatesKeep, IPUpdatesKeep
=============================================================================
