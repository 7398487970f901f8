----------------------- MODULE SliverDirectoryListing -----------------------
(***************************************************************************)
(* The sliver directory implements the listing its readers rely on.  Of    *)
(* the invariants it takes that caches and copies hold registered slivers  *)
(* only (AllVouched), and that sites come before slivers.                  *)
(***************************************************************************)
EXTENDS SliverDirectoryOwnership

-----------------------------------------------------------------------------
(* Sites before slivers.                                                   *)

SitesFirst == SliversHaveSites /\ SitesInHand

LEMMA SitesFirstInit == Init => SitesFirst
  <1>1. ASSUME Init PROVE SliversHaveSites
    BY <1>1 DEF Init, SliversHaveSites, NoSlivers, NoEntities, Present
  <1>2. ASSUME Init PROVE SitesInHand
    BY <1>2 DEF Init, SitesInHand, IdleSiteJob, NoSites
  <1>3. QED  BY <1>1, <1>2 DEF SitesFirst

LEMMA SitesInHandSiteStep ==
    ASSUME TypeOK, SitesInHand, NEW w \in SiteWorkers,
           SiteProgress(w) \/ SiteFailure(w)
    PROVE  SitesInHand'
  <1> DEFINE job == siteJob[w]
  <1>1. job \in SiteJob
    BY DEF TypeOK
  <1>2. ASSUME NEW new, SetSiteJob(w, new),
               \A s \in Sites : sites[s] # Absent => sites'[s] # Absent,
               \A s \in Sites : /\ s \in new.left => new.info[s] # Absent
                                /\ new.sites[s] # Absent => sites[s] # Absent
        PROVE  SitesInHand'
    <2>1. \A v \in SiteWorkers : siteJob'[v] = new \/ siteJob'[v] = siteJob[v]
      BY <1>2 DEF SetSiteJob, TypeOK
    <2>2. QED  BY <1>2, <2>1 DEF SitesInHand
  <1>3. /\ IdleSiteJob.left = {}
        /\ \A s \in Sites : IdleSiteJob.sites[s] = Absent
    BY DEF IdleSiteJob, NoSites
  <1>4. \A s \in Sites : /\ s \in job.left => job.info[s] # Absent
                         /\ job.sites[s] # Absent => sites[s] # Absent
    BY DEF SitesInHand
  <1>5. CASE SiteStart(w)
    <2> DEFINE new == [IdleSiteJob EXCEPT
                          !.pc = "register", !.info = siteinfo,
                          !.left = {s \in Sites : siteinfo[s] # Absent}]
    <2>1. /\ new.info = siteinfo /\ new.sites = IdleSiteJob.sites
          /\ new.left = {s \in Sites : siteinfo[s] # Absent}
          /\ SetSiteJob(w, new) /\ UNCHANGED sites
      BY <1>5 DEF SiteStart, IdleSiteJob
    <2> HIDE DEF new
    <2>2. QED  BY <1>2, <1>3, <2>1
  <1>6. ASSUME NEW s \in Sites, SetSiteJob(w, [job EXCEPT !.left = @ \ {s}]),
               \A r \in Sites : sites[r] # Absent => sites'[r] # Absent
        PROVE  SitesInHand'
    <2> DEFINE new == [job EXCEPT !.left = @ \ {s}]
    <2>1. /\ new.left \subseteq job.left /\ new.info = job.info
          /\ new.sites = job.sites /\ SetSiteJob(w, new)
      BY <1>1, <1>6 DEF SiteJob
    <2> HIDE DEF new
    <2>2. QED  BY <1>2, <1>4, <1>6, <2>1
  <1>7. CASE RegisterSite(w)
    <2>1. PICK s \in job.left :
             /\ sites' = [sites EXCEPT ![s] = job.info[s]]
             /\ SetSiteJob(w, [job EXCEPT !.left = @ \ {s}])
      BY <1>7 DEF RegisterSite
    <2>2. s \in Sites /\ job.info[s] # Absent
      BY <1>1, <1>4, <2>1 DEF SiteJob
    <2>3. \A r \in Sites : sites[r] # Absent => sites'[r] # Absent
      BY <2>1, <2>2 DEF TypeOK
    <2>4. QED  BY <1>6, <2>1, <2>2, <2>3
  <1>8. CASE RegisterSiteFails(w)
    <2>1. PICK s \in job.left : SetSiteJob(w, [job EXCEPT !.left = @ \ {s}])
      BY <1>8 DEF RegisterSiteFails
    <2>2. s \in Sites /\ UNCHANGED sites
      BY <1>1, <1>8, <2>1 DEF SiteJob, RegisterSiteFails
    <2>3. QED  BY <1>6, <2>1, <2>2
  <1>9. CASE FetchHostnames(w)
    <2> DEFINE new == [job EXCEPT !.pc = "snapshot", !.rows = hostnames]
    <2>1. /\ new.left = job.left /\ new.info = job.info
          /\ new.sites = job.sites /\ SetSiteJob(w, new) /\ UNCHANGED sites
      BY <1>1, <1>9 DEF SiteJob, FetchHostnames
    <2> HIDE DEF new
    <2>2. QED  BY <1>2, <1>4, <2>1
  <1>10. CASE ReadUpFront(w)
    <2> DEFINE new == [job EXCEPT
           !.pc = "rows", !.sites = sites, !.slivers = db,
           !.todo = {s \in SliverTools : /\ job.rows[s[2]] # Absent
                                         /\ sites[SiteOf[s[2]]] # Absent}]
    <2>1. /\ new.left = job.left /\ new.info = job.info
          /\ new.sites = sites /\ SetSiteJob(w, new) /\ UNCHANGED sites
      BY <1>1, <1>10 DEF SiteJob, ReadUpFront
    <2> HIDE DEF new
    <2>2. QED  BY <1>2, <1>4, <2>1
  <1>11. ASSUME NEW s, SetSiteJob(w, [job EXCEPT !.todo = @ \ {s}]),
                UNCHANGED sites
         PROVE  SitesInHand'
    <2> DEFINE new == [job EXCEPT !.todo = @ \ {s}]
    <2>1. /\ new.left = job.left /\ new.info = job.info
          /\ new.sites = job.sites /\ SetSiteJob(w, new)
      BY <1>1, <1>11 DEF SiteJob
    <2> HIDE DEF new
    <2>2. QED  BY <1>2, <1>4, <1>11, <2>1
  <1>12. CASE UpdateSliverTool(w) \/ UpdateSliverToolFails(w)
    BY <1>11, <1>12 DEF UpdateSliverTool, UpdateSliverToolFails
  <1>13. CASE SiteDone(w) \/ SiteCrash(w)
    BY <1>2, <1>3, <1>13 DEF SiteDone, SiteCrash
  <1>14. QED
    BY <1>5, <1>7, <1>8, <1>9, <1>10, <1>12, <1>13
       DEF SiteProgress, SiteFailure

LEMMA SitesInHandStep == TypeOK /\ SitesInHand /\ [Next]_vars => SitesInHand'
  <1> SUFFICES ASSUME TypeOK, SitesInHand, [Next]_vars PROVE SitesInHand'
    OBVIOUS
  <1>1. CASE UNCHANGED <<sites, siteJob>>
    BY <1>1 DEF SitesInHand
  <1>2. ASSUME NEW w \in StatusWorkers, StatusProgress(w) \/ StatusFailure(w)
        PROVE  UNCHANGED <<sites, siteJob>>
    BY <1>2 DEF StatusProgress, StatusFailure, StatusStart, QueryMonitoring,
                SkipTurn, FetchSliverTools, PutStatuses, PutStatusesFails,
                SetMemcache, SetMemcacheFails, StatusCrash
  <1>3. Environment => UNCHANGED <<sites, siteJob>>
    BY DEF Environment, ChangeMonitor, ChangeHostnames, ChangeSiteinfo,
           EvictMemcache, inside
  <1>4. UNCHANGED vars => UNCHANGED <<sites, siteJob>>
    BY DEF vars
  <1>5. QED  BY <1>1, <1>2, <1>3, <1>4, SitesInHandSiteStep DEF Next

-----------------------------------------------------------------------------
(* Every step of the directory is a step of the listing, or none.          *)

(* A put of some of the batch stores slivers that were stored already.     *)
LEMMA PutOfBatchListed ==
    ASSUME TypeOK, AllVouched, SliversHaveSites, NEW w \in StatusWorkers,
           NEW hosts, PutOfBatch(w, hosts), UNCHANGED <<sites, cache>>
    PROVE  Listing!StoreSlivers
  <1> DEFINE job == statusJob[w]
             table == Overwrite(db[job.tool], job.batch, hosts)
  <1>1. job \in StatusJob /\ job.tool \in Tools /\ job.batch \in Table
    BY DEF PutOfBatch, TypeOK, StatusJob
  <1>2. /\ db' = [db EXCEPT ![job.tool] = table]
        /\ db[job.tool] \in Table
    BY <1>1 DEF PutOfBatch, WriteDb, TypeOK
  <1>3. table \in Table
    BY <1>1, <1>2, OverwriteType
  <1>4. Present(job.batch) \subseteq Present(db[job.tool])
    BY <1>1 DEF AllVouched, StatusJobVouched, Vouched
  <1>5. Present(table) = Present(db[job.tool])
    BY <1>4 DEF Present, Overwrite
  <1> HIDE DEF table
  <1>6. \A h \in Present(table) : SiteOf[h] \in Registered
    BY <1>1, <1>5 DEF SliversHaveSites
  <1>7. QED
    BY <1>1, <1>2, <1>3, <1>5, <1>6
       DEF Listing!StoreSlivers, Listing!Present, Present, Registered

LEMMA StatusStepListed ==
    ASSUME TypeOK, AllVouched, SliversHaveSites, NEW w \in StatusWorkers,
           StatusProgress(w) \/ StatusFailure(w)
    PROVE  Listing!ListingNext \/ UNCHANGED Listing!listing
  <1>1. CASE SetMemcache(w)
    <2> DEFINE job == statusJob[w]
    <2>1. job \in StatusJob /\ job.tool \in Tools /\ job.batch \in Table
      BY <1>1 DEF SetMemcache, TypeOK, StatusJob
    <2>2. Present(job.batch) \subseteq Present(db[job.tool])
      BY <2>1 DEF AllVouched, StatusJobVouched, Vouched
    <2>3. Listing!RefreshMemcache
      BY <1>1, <2>1, <2>2
         DEF SetMemcache, Listing!RefreshMemcache, Listing!Present, Present,
             Registered
    <2>4. QED  BY <2>3 DEF Listing!ListingNext
  <1>2. CASE \E hosts : PutOfBatch(w, hosts) /\ UNCHANGED <<sites, cache>>
    BY <1>2, PutOfBatchListed DEF Listing!ListingNext
  <1>3. CASE UNCHANGED <<sites, db, cache>>
    BY <1>3 DEF Listing!listing, Registered
  <1>4. QED
    BY <1>1, <1>2, <1>3
       DEF StatusProgress, StatusFailure, StatusStart, QueryMonitoring,
           SkipTurn, FetchSliverTools, PutStatuses, PutStatusesFails,
           SetMemcacheFails, StatusCrash, PutOfBatch

(* A row is stored for a registered site.                                  *)
LEMMA RowListed ==
    ASSUME TypeOK, SliversHaveSites, SitesInHand, NEW w \in SiteWorkers,
           UpdateSliverTool(w)
    PROVE  Listing!StoreSlivers \/ UNCHANGED Listing!listing
  <1> DEFINE job == siteJob[w]
  <1>1. PICK s \in job.todo : db' = DbAfterRow(job, s)
    BY DEF UpdateSliverTool, WriteDb
  <1>2. job.pc = "rows" /\ UNCHANGED <<sites, cache>>
    BY DEF UpdateSliverTool
  <1> DEFINE new == NewSliverTool(job, s)
             t == s[1]
             h == s[2]
             table == [db[t] EXCEPT ![h] = new]
  <1>3. /\ t \in Tools /\ h \in Hosts /\ SiteOf[h] \in Sites
        /\ new \in Entity
        /\ job.sites[SiteOf[h]] # Absent
    BY <1>1, <1>2, TypeRow, SiteOfAssumption DEF TypeOK, SiteJob
  <1>4. SiteOf[h] \in Registered
    BY <1>3 DEF SitesInHand, Registered
  <1>5. db' = db \/ db' = [db EXCEPT ![t] = table]
    BY <1>1 DEF DbAfterRow, Put
  <1> HIDE DEF new
  <1>6. table \in Table /\ Present(table) = Present(db[t]) \cup {h}
    BY <1>3, AbsentAssumption DEF TypeOK, Table, Present
  <1> HIDE DEF table
  <1>7. \A g \in Present(table) : SiteOf[g] \in Registered
    BY <1>3, <1>4, <1>6 DEF SliversHaveSites
  <1>8. CASE db' = [db EXCEPT ![t] = table]
    BY <1>2, <1>3, <1>6, <1>7, <1>8
       DEF Listing!StoreSlivers, Listing!Present, Present, Registered
  <1>9. QED  BY <1>2, <1>5, <1>8 DEF Listing!listing, Registered

LEMMA SiteStepListed ==
    ASSUME TypeOK, SliversHaveSites, SitesInHand, NEW w \in SiteWorkers,
           SiteProgress(w) \/ SiteFailure(w)
    PROVE  Listing!ListingNext \/ UNCHANGED Listing!listing
  <1> DEFINE job == siteJob[w]
  <1>1. CASE RegisterSite(w)
    <2>1. PICK s \in job.left : sites' = [sites EXCEPT ![s] = job.info[s]]
      BY <1>1 DEF RegisterSite
    <2>2. s \in Sites /\ job.info[s] # Absent
      BY <2>1 DEF TypeOK, SiteJob, SitesInHand
    <2>3. Registered' = Registered \cup {s}
      BY <2>1, <2>2 DEF Registered, TypeOK
    <2>4. Listing!RegisterASite
      BY <1>1, <2>2, <2>3 DEF RegisterSite, Listing!RegisterASite
    <2>5. QED  BY <2>4 DEF Listing!ListingNext
  <1>2. CASE UpdateSliverTool(w)
    BY <1>2, RowListed DEF Listing!ListingNext
  <1>3. CASE UNCHANGED <<sites, db, cache>>
    BY <1>3 DEF Listing!listing, Registered
  <1>4. QED
    BY <1>1, <1>2, <1>3
       DEF SiteProgress, SiteFailure, SiteStart, RegisterSiteFails,
           FetchHostnames, ReadUpFront, UpdateSliverToolFails, SiteDone,
           SiteCrash

LEMMA EnvironmentListed ==
    ASSUME TypeOK, Environment
    PROVE  Listing!ListingNext \/ UNCHANGED Listing!listing
  <1>1. CASE EvictMemcache
    <2>1. Present(NoEntities) = {} /\ NoEntities \in Table
      BY NoEntitiesType DEF Present, NoEntities
    <2>2. Listing!RefreshMemcache
      BY <1>1, <2>1
         DEF EvictMemcache, inside, Listing!RefreshMemcache, Listing!Present,
             Present, Registered
    <2>3. QED  BY <2>2 DEF Listing!ListingNext
  <1>2. CASE UNCHANGED <<sites, db, cache>>
    BY <1>2 DEF Listing!listing, Registered
  <1>3. QED
    BY <1>1, <1>2 DEF Environment, ChangeMonitor, ChangeHostnames,
                      ChangeSiteinfo, inside

LEMMA StepListed ==
    TypeOK /\ AllVouched /\ SitesFirst /\ [Next]_vars
        => [Listing!ListingNext]_(Listing!listing)
  <1> SUFFICES ASSUME TypeOK, AllVouched, SitesFirst, [Next]_vars
               PROVE  Listing!ListingNext \/ UNCHANGED Listing!listing
    OBVIOUS
  <1>1. CASE UNCHANGED vars
    BY <1>1 DEF vars, Listing!listing, Registered
  <1>2. CASE Next
    BY <1>2, StatusStepListed, SiteStepListed, EnvironmentListed
       DEF Next, SitesFirst
  <1>3. QED  BY <1>1, <1>2

(* The listing keeps sites before slivers by itself.                       *)
LEMMA ListingKeepsSites ==
    ASSUME TypeOK, TypeOK', SliversHaveSites,
           Listing!ListingNext \/ UNCHANGED Listing!listing
    PROVE  SliversHaveSites'
  <1>1. CASE UNCHANGED Listing!listing
    BY <1>1 DEF Listing!listing, SliversHaveSites
  <1>2. CASE Listing!RegisterASite
    BY <1>2 DEF Listing!RegisterASite, SliversHaveSites
  <1>3. CASE Listing!StoreSlivers
    BY <1>3 DEF Listing!StoreSlivers, Listing!Present, Present,
                SliversHaveSites, TypeOK
  <1>4. CASE Listing!RefreshMemcache
    BY <1>4 DEF Listing!RefreshMemcache, SliversHaveSites
  <1>5. QED  BY <1>1, <1>2, <1>3, <1>4 DEF Listing!ListingNext

(* No sliver is stored before its site, though the IP update decides it on *)
(* a snapshot.                                                             *)
THEOREM SitesBeforeSlivers == Spec => []SitesFirst
  <1>1. TypeOK /\ TypeOK' /\ AllVouched /\ SitesFirst /\ [Next]_vars
            => SitesFirst'
    <2> SUFFICES ASSUME TypeOK, TypeOK', AllVouched, SitesFirst, [Next]_vars
                 PROVE  SitesFirst'
      OBVIOUS
    <2>1. SliversHaveSites /\ SitesInHand
      BY DEF SitesFirst
    <2>2. SitesInHand'
      BY <2>1, SitesInHandStep
    <2>3. Listing!ListingNext \/ UNCHANGED Listing!listing
      BY StepListed
    <2>4. SliversHaveSites'
      BY <2>1, <2>3, ListingKeepsSites
    <2>5. QED  BY <2>2, <2>4 DEF SitesFirst
  <1>2. QED
    BY <1>1, SitesFirstInit, TypeCorrect, EverythingVouched, PTL DEF Spec

(* The cron jobs, with all their interleavings, failures and crashes,      *)
(* implement the listing.                                                  *)
THEOREM DirectoryImplementsListing == Spec => ImplementsListing
  <1>1. Init => Listing!ListingInit
    BY DEF Init, Listing!ListingInit, NoSites, NoSlivers, NoEntities,
           Listing!NoEntities, Registered
  <1>2. TypeOK /\ AllVouched /\ SitesFirst /\ [Next]_vars
            => [Listing!ListingNext]_(Listing!listing)
    BY StepListed
  <1>3. QED
    BY <1>1, <1>2, TypeCorrect, EverythingVouched, SitesBeforeSlivers, PTL
       DEF Spec, ImplementsListing, Listing!ListingSpec
=============================================================================
