---------------------------- MODULE SliverListing ----------------------------
(***************************************************************************)
(* What the cron jobs promise to those who read their tables: the sites    *)
(* and slivers in the datastore only grow, a sliver is stored after its    *)
(* site, and memcache never lists a sliver the datastore does not know.    *)
(* What the entities say may change at any time.  SliverDirectory          *)
(* implements this specification; the lookups rest on it.                  *)
(***************************************************************************)
EXTENDS Slivers

CONSTANT
    Tables      \* the tables a tool's slivers may form: all, or some of them

ASSUME TablesAssumption == Tables \subseteq Table /\ NoEntities \in Tables

VARIABLES
    sites,      \* datastore: the ids of the Site entities
    db,         \* datastore: the SliverTool entities, by tool and host
    cache       \* memcache: the slivers of a tool

listing == <<sites, db, cache>>

ListingTypeOK ==
    /\ sites \subseteq Sites
    /\ db \in [Tools -> Table]
    /\ cache \in [Tools -> Table]

ListingInit ==
    /\ sites = {}
    /\ db = [t \in Tools |-> NoEntities]
    /\ cache = [t \in Tools |-> NoEntities]

(* A site is registered; none is deleted.                                  *)
RegisterASite ==
    /\ \E s \in Sites : sites' = sites \cup {s}
    /\ UNCHANGED <<db, cache>>

(* Entities of one tool are put; none is deleted.                          *)
StoreSlivers ==
    /\ \E t \in Tools, table \in Tables :
          /\ Present(db[t]) \subseteq Present(table)
          /\ \A h \in Present(table) : SiteOf[h] \in sites
          /\ db' = [db EXCEPT ![t] = table]
    /\ UNCHANGED <<sites, cache>>

(* The memcache list of one tool is set, or evicted.                       *)
RefreshMemcache ==
    /\ \E t \in Tools, table \in Tables :
          /\ Present(table) \subseteq Present(db[t])
          /\ cache' = [cache EXCEPT ![t] = table]
    /\ UNCHANGED <<sites, db>>

ListingNext == RegisterASite \/ StoreSlivers \/ RefreshMemcache

ListingSpec == ListingInit /\ [][ListingNext]_listing
=============================================================================
