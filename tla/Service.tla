------------------------------- MODULE Service -------------------------------
(***************************************************************************)
(* The whole service: the jobs of SliverDirectory keep datastore and       *)
(* memcache, out of which the lookups of Lookups and the pages of MapPage  *)
(* answer at the same time.                                                *)
(***************************************************************************)
EXTENDS SliverDirectoryProperties, Selection

CONSTANTS
    Clients, WebTools, Queries,     \* of Lookups
    Viewers                         \* of MapPage

VARIABLES
    lookup, steady, seen,           \* of Lookups
    page                            \* of MapPage

(* The readers know a site by its id only, and any table may be listed.    *)
L == INSTANCE Lookups WITH Tables <- Table, sites <- Registered
P == INSTANCE MapPage WITH Tables <- Table, sites <- Registered

readers == <<lookup, steady, seen, page>>
serviceVars == <<vars, readers>>

ServiceTypeOK ==
    /\ TypeOK
    /\ L!TypeOK
    /\ P!PageTypeOK

ServiceInit ==
    /\ Init
    /\ lookup = [c \in Clients |-> L!IdleLookup]
    /\ steady = [c \in Clients |-> [stored |-> {}, cached |-> {}]]
    /\ seen = [c \in Clients |-> {}]
    /\ P!PageInit

DirectoryStep == Next /\ L!Watch /\ UNCHANGED <<lookup, page>>
ClientStep(c) == UNCHANGED <<vars, page>> /\ L!LookupStep(c)
ViewerStep(v) == UNCHANGED <<vars, lookup, steady, seen>> /\ P!PageStep(v)

ServiceNext ==
    \/ DirectoryStep
    \/ \E c \in Clients : ClientStep(c)
    \/ \E v \in Viewers : ViewerStep(v)

ServiceSpec == ServiceInit /\ [][ServiceNext]_serviceVars

(* What cron and the platform give the jobs, and a lookup that goes on.    *)
ServiceFairSpec ==
    /\ ServiceSpec
    /\ \A w \in StatusWorkers : WF_serviceVars(DirectoryStep /\ StatusProgress(w))
    /\ \A w \in SiteWorkers : WF_serviceVars(DirectoryStep /\ SiteProgress(w))
    /\ \A c \in Clients :
          WF_serviceVars(ClientStep(c) /\ lookup[c].pc # "idle")

-----------------------------------------------------------------------------
(* A client is sent to a sliver only if monitoring once said that the      *)
(* sliver was online, in the family the client asked for: not because a    *)
(* job wrote an old copy, nor because datastore and memcache differ, nor   *)
(* by the way the lookup falls back from one to the other.                 *)
AnswersWereReported ==
    \A c \in Clients : LET q == lookup[c].query IN
        \A h \in lookup[c].response.slivers : \E f \in Families :
            q.family \in {f, "any"} /\ <<q.tool, h, f>> \in reported

(* A client connects only to addresses that hostnames.json once gave for   *)
(* that very host and family.                                              *)
AnswersWerePublished ==
    \A c \in Clients : \A i \in lookup[c].response.ips :
        i[3] # NoAddress => i \in published

(* The map page fails only while the platform grows: a sliver it cannot    *)
(* place is one whose site was registered after the page read the sites.   *)
PageFailsOnlyAsSitesGrow ==
    \A v \in Viewers :
        /\ page[v].sites \subseteq Registered
        /\ page[v].response = "error" => page[v].sites # Registered

(* Once jobs no longer overwrite each other, and for good one host is      *)
(* listed and monitored online in a family in which it has an address,     *)
(* clients that take any sliver of that family are no longer told that     *)
(* there is no capacity.                                                   *)
IsUp(t, h, f) ==
    /\ h \in Hosts /\ t \in ToolsOf[h] /\ Listed(h)
    /\ hostnames[h][f] # NoAddress
    /\ monitor[t][f][h] = "online"

Takes(c, t, f) ==
    LET q == lookup[c].query IN
    /\ lookup[c].pc # "idle"
    /\ q.tool = t /\ q.policy = "all" /\ q.family \in {f, "any"}

CapacityIsFound ==
    \A s \in SliverTools, f \in Families :
        <>[]NoOverlap /\ <>[]IsUp(s[1], s[2], f) =>
            <>[][\A c \in Clients :
                    Takes(c, s[1], f) =>
                        lookup'[c].response.code # "no_content"]_serviceVars
=============================================================================
