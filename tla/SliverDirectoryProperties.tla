---------------------- MODULE SliverDirectoryProperties ----------------------
(***************************************************************************)
(* What the sliver directory promises, whatever the order in which the two *)
(* jobs' calls interleave, and what it promises only when they do not      *)
(* overlap.                                                                *)
(***************************************************************************)
EXTENDS SliverDirectory

(* No sliver is served online in a family, from the datastore or from      *)
(* memcache, unless some status update once read monitoring saying so of   *)
(* that tool, host and family: neither a new entity, nor the other family, *)
(* nor a copy written over another one makes a sliver online.              *)
OnlineWasReported ==
    \A t \in Tools : /\ OnlineReported(t, db[t], reported)
                     /\ OnlineReported(t, cache[t], reported)

(* No sliver has an address, in the datastore or in memcache, unless some  *)
(* IP update once read it in hostnames.json for that host and family.      *)
AddressWasPublished ==
    \A t \in Tools : /\ AddressPublished(db[t], published)
                     /\ AddressPublished(cache[t], published)

(* Memcache never knows a sliver the datastore does not know: a lookup may *)
(* miss a new sliver, never find one that was not registered.              *)
CachedAreRegistered ==
    \A t \in Tools : Present(cache[t]) \subseteq Present(db[t])

Registered == {s \in Sites : sites[s] # Absent}

(* A sliver's site is registered before the sliver, though the IP update   *)
(* decides it on a snapshot: a query by metro, which goes through the      *)
(* sites, finds every sliver.                                              *)
SliversHaveSites ==
    \A t \in Tools : \A h \in Present(db[t]) : SiteOf[h] \in Registered

(* What the readers of datastore and memcache may rely on, as a            *)
(* specification of its own: entities only grow in number, a sliver comes  *)
(* after its site, memcache lags behind the datastore, and every step      *)
(* changes one tool's list in one place.                                   *)
Listing == INSTANCE SliverListing WITH Tables <- Table, sites <- Registered
ImplementsListing == Listing!ListingSpec

-----------------------------------------------------------------------------
(* Ownership of the fields.  The comments of initialize_sliver_tool        *)
(* (update.py:297 and 300) give the addresses to the IP update and the     *)
(* status to the status update, but each job puts whole entities it read   *)
(* earlier.                                                                *)

(* Entity new is entity old but for what a status update of family writes. *)
OnlyStatusDiffers(old, new, family) ==
    IF old = Absent THEN new = Absent
    ELSE /\ new # Absent
         /\ new.ip = old.ip /\ new.roundrobin = old.roundrobin
         /\ \A f \in Families \ {family} : new.status[f] = old.status[f]

(* A status update of one family creates no entity, and leaves alone the   *)
(* addresses and the other family's status of those that exist, unless the *)
(* entity changed after the update fetched it; and an IP update leaves the *)
(* statuses of an existing entity alone unless the entity changed after    *)
(* the update read it.                                                     *)
FieldsKeptWithoutOverlap ==
    [][/\ \A w \in StatusWorkers : statusJob'[w] # statusJob[w] =>
             \A s \in SliverTools \ dirty[w] :
                OnlyStatusDiffers(db[s[1]][s[2]], db'[s[1]][s[2]],
                                  statusJob[w].family)
       /\ \A w \in SiteWorkers : siteJob'[w] # siteJob[w] =>
             \A s \in SliverTools \ dirty[w] :
                db[s[1]][s[2]] # Absent =>
                    /\ db'[s[1]][s[2]] # Absent
                    /\ db'[s[1]][s[2]].status = db[s[1]][s[2]].status]_vars

(* With one status update at a time, a refresh of memcache never drops a   *)
(* sliver that memcache held: "We don't want to entirely remove a sliver   *)
(* from memcache just because IPv6 information is missing from monitoring",*)
(* and a sliver unknown for IPv4 is appended unmodified (update.py:419).   *)
CacheKeepsSlivers ==
    [][\A t \in Tools : \/ cache'[t] = NoEntities
                        \/ Present(cache[t]) \subseteq Present(cache'[t])]_vars

(* The comments, taken at their word: "IP addresses will be updated by the *)
(* IPUpdateHandler", "Status will be updated by the StatusUpdateHandler"   *)
(* (update.py:297, 300), that is, each job leaves the other's fields as    *)
(* they are.  It does not hold: see the README.                            *)
EachJobKeepsTheOthersFields ==
    [][\A t \in Tools, h \in Hosts :
          db[t][h] # Absent /\ db'[t][h] # Absent =>
             /\ statusJob' # statusJob => db'[t][h].ip = db[t][h].ip
             /\ siteJob' # siteJob => db'[t][h].status = db[t][h].status]_vars

-----------------------------------------------------------------------------
(* What the jobs reach once the world and the faults are quiet.            *)

Listed(h) == hostnames[h] # Absent /\ siteinfo[SiteOf[h]] # Absent

(* An entity carries its row and its site's flag.  A row without any       *)
(* address creates no entity.                                              *)
AddressSettled(t, h) ==
    IF db[t][h] = Absent
    THEN \A f \in Families : hostnames[h][f] = NoAddress
    ELSE /\ db[t][h].ip = hostnames[h]
         /\ db[t][h].roundrobin = siteinfo[SiteOf[h]]

(* A status is the one monitoring reports, offline without an address.     *)
StatusSettled(t, h) ==
    \A f \in Families : monitor[t][f][h] # "unknown" =>
        db[t][h].status[f] = IF db[t][h].ip[f] = NoAddress
                             THEN "offline" ELSE monitor[t][f][h]

(* Memcache is empty or says what the datastore says, for a tool that      *)
(* monitoring reports on.                                                  *)
CacheSettled(t) ==
    \/ cache[t] \in {NoEntities, db[t]}
    \/ \A f \in Families : monitor[t][f] = EmptyReport

Settled ==
    /\ \A s \in SliverTools :
          /\ Listed(s[2]) => AddressSettled(s[1], s[2])
          /\ db[s[1]][s[2]] # Absent => StatusSettled(s[1], s[2])
    /\ \A t \in Tools : CacheSettled(t)

NoOverlap == \A w \in Workers : dirty[w] = {}

(* If from some time on no job changes an entity of which the other job    *)
(* holds a copy, then datastore and memcache end up, for good, with what   *)
(* hostnames.json, siteinfo and monitoring say.                            *)
ConvergesWithoutOverlap == <>[]NoOverlap => <>[]Settled

(* A listed host with an address gets its entities, overlap or not.        *)
ListedGetsRegistered ==
    \A s \in SliverTools :
        <>[](/\ Listed(s[2])
             /\ \E f \in Families : hostnames[s[2]][f] # NoAddress)
            => <>[](db[s[1]][s[2]] # Absent)

-----------------------------------------------------------------------------
(* The invariants above are not inductive: what a job will put or cache    *)
(* sits in its memory first.  These are.                                   *)

ReportWasRead(job, rep) ==
    \A h \in Hosts : job.report[h] = "online" =>
        <<job.tool, h, job.family>> \in rep

RowsWereRead(job, pub) ==
    \A h \in Hosts, f \in Families :
        job.rows[h] # Absent /\ job.rows[h][f] # NoAddress =>
            <<h, f, job.rows[h][f]>> \in pub

StatusJobVouched(job, rep, pub, base) ==
    /\ ReportWasRead(job, rep)
    /\ job.tool \in Tools =>
           Vouched(job.tool, job.batch, rep, pub, base[job.tool])

SiteJobVouched(job, rep, pub, base) ==
    /\ RowsWereRead(job, pub)
    /\ \A t \in Tools : Vouched(t, job.slivers[t], rep, pub, base[t])

AllVouched ==
    /\ \A t \in Tools :
          /\ Vouched(t, db[t], reported, published, db[t])
          /\ Vouched(t, cache[t], reported, published, db[t])
    /\ \A w \in StatusWorkers :
          StatusJobVouched(statusJob[w], reported, published, db)
    /\ \A w \in SiteWorkers :
          SiteJobVouched(siteJob[w], reported, published, db)

(* The sites a job is about to register have their data, and those of its  *)
(* snapshot are registered.                                                *)
SitesInHand ==
    \A w \in SiteWorkers, s \in Sites :
          /\ s \in siteJob[w].left => siteJob[w].info[s] # Absent
          /\ siteJob[w].sites[s] # Absent => sites[s] # Absent

(* The copies a worker holds differ from the datastore by the field it is  *)
(* about to write and nothing else, but for entities changed meanwhile.    *)
CopiesFresh ==
    /\ \A w \in Workers : Holding(w) \/ dirty[w] = {}
    /\ \A w \in StatusWorkers : LET job == statusJob[w] IN
          job.pc = "put" =>
             \A h \in Hosts : <<job.tool, h>> \notin dirty[w] =>
                OnlyStatusDiffers(db[job.tool][h], job.batch[h], job.family)
    /\ \A w \in SiteWorkers : LET job == siteJob[w] IN
          job.pc = "rows" =>
             \A s \in job.todo \ dirty[w] :
                job.slivers[s[1]][s[2]] = db[s[1]][s[2]]
=============================================================================
