------------------------------- MODULE MapPage -------------------------------
(***************************************************************************)
(* The admin page that shows where slivers are (handlers/admin.py), while  *)
(* the listing it reads changes: one query for the sites, then one for the *)
(* slivers, each of which is put under its site.                           *)
(*                                                                         *)
(* The page looks in memcache first, but without the namespace in which    *)
(* the status update sets its lists; nothing else sets these keys, and so  *)
(* the page always comes from the datastore.                               *)
(***************************************************************************)
EXTENDS SliverListing

CONSTANT Viewers    \* requests for the page that may be running

VARIABLE page

Page == [pc       : {"idle", "sites", "slivers"},
         tools    : SUBSET Tools,
         sites    : SUBSET Sites,
         response : {"shown", "error"}]

IdlePage == [pc |-> "idle", tools |-> {}, sites |-> {}, response |-> "shown"]

PageTypeOK == page \in [Viewers -> Page]

PageInit == page = [v \in Viewers |-> IdlePage]

SetPage(v, new) == page' = [page EXCEPT ![v] = new] /\ UNCHANGED listing

(* map_view: of one tool, or of all.                                       *)
MapView(v) ==
    /\ page[v].pc = "idle"
    /\ \E tools \in {Tools} \cup {{t} : t \in Tools} :
          SetPage(v, [IdlePage EXCEPT !.pc = "sites", !.tools = tools])

(* get_sites_info: the sites, as they are now.                             *)
ReadSites(v) ==
    /\ page[v].pc = "sites"
    /\ SetPage(v, [page[v] EXCEPT !.pc = "slivers", !.sites = sites])

SliversOf(tools) == UNION {Present(db[t]) : t \in tools}

(* The query for the slivers runs when the loop over them starts, and a    *)
(* sliver of a site that is not among those read is a KeyError.            *)
ReadSlivers(v) ==
    /\ page[v].pc = "slivers"
    /\ SetPage(v, IF \A h \in SliversOf(page[v].tools) :
                         SiteOf[h] \in page[v].sites
                  THEN IdlePage
                  ELSE [page[v] EXCEPT !.pc = "idle", !.response = "error"])

PageStep(v) == MapView(v) \/ ReadSites(v) \/ ReadSlivers(v)
=============================================================================
