-------------------------- MODULE LookupProperties --------------------------
(***************************************************************************)
(* What a lookup promises, given that datastore and memcache change while  *)
(* it runs and need not agree.                                             *)
(***************************************************************************)
EXTENDS Lookups

(* The draws of the geo policies leave a sliver alone: the client is not   *)
(* one that asked too often, and the site is a regular one that always     *)
(* takes its clients.                                                      *)
ByDistance(q) == q.policy \in GeoPolicies /\ q.place # Absent

SurelyKept(h, q) ==
    ByDistance(q) => /\ ~q.signed
                     /\ SiteOf[h] \notin BackupSites \cup DroppableSites

SteadyInBoth(c) == steady[c].stored \cap steady[c].cached

AnswersNothing(response) ==
    \/ response.code = "no_content"
    \/ response.code = "content" /\ response.slivers = {}

(* A lookup says that there is no capacity only if there was none: not if  *)
(* one and the same sliver matched the query in the datastore all along,   *)
(* whatever was in memcache meanwhile.  For a choice by distance, which    *)
(* drops candidates after memcache was found to have some, it must have    *)
(* matched in memcache too.                                                *)
FindsSteadySliver(c) ==
    LET q == lookup[c].query IN
    AnswersNothing(lookup[c].response) =>
        IF ByDistance(q)
        THEN \A h \in SteadyInBoth(c) : ~SurelyKept(h, q)
        ELSE steady[c].stored = {}

SteadySliverFound == \A c \in Clients : FindsSteadySliver(c)

(* Every sliver in an answer matched the query, in the datastore or in     *)
(* memcache, at some time during the lookup; no two are of one site; and   *)
(* in a json answer each comes with an address, in the family asked for if *)
(* there is one, for the filter and the response look at one copy.         *)
AnswerMatches(c) ==
    LET q == lookup[c].query
        response == lookup[c].response IN
    /\ response.slivers \subseteq seen[c]
    /\ \A h, k \in response.slivers : SiteOf[h] = SiteOf[k] => h = k
    /\ response.code = "content" /\ q.format = "json" =>
           \A h \in response.slivers : \E i \in response.ips :
               i[1] = h /\ q.family \in {i[2], "any"}

AnswersMatchQuery == \A c \in Clients : AnswerMatches(c)

(* The geo policies answer the nearest sites: one that they do not answer, *)
(* though a sliver of it matched all along, is no nearer than the ones     *)
(* they answer, which are as many as the policy allows.                    *)
Limit(q, code) ==
    IF q.policy = "geo_options" /\ code = "content" THEN MaxOptions ELSE 1

AnswersNearest(c) ==
    LET q == lookup[c].query
        response == lookup[c].response IN
    /\ response.code \in {"content", "redirect"}
    /\ ByDistance(q)
    => \A h \in SteadyInBoth(c) :
           SurelyKept(h, q) =>
               \/ \E k \in response.slivers : SiteOf[k] = SiteOf[h]
               \/ /\ Cardinality(response.slivers) = Limit(q, response.code)
                  /\ \A k \in response.slivers : Closer(q, k, h)

NearestSteadySites == \A c \in Clients : AnswersNearest(c)

(* Policy all answers a sliver of every site of which one matched all      *)
(* along: a site is not lost because another of its hosts is down.         *)
AnswersAllSites(c) ==
    /\ lookup[c].query # Absent
    /\ lookup[c].query.policy = "all"
    /\ lookup[c].response.code = "content"
    => \A h \in SteadyInBoth(c) :
           \E k \in lookup[c].response.slivers : SiteOf[k] = SiteOf[h]

AllSitesAnswered == \A c \in Clients : AnswersAllSites(c)

-----------------------------------------------------------------------------
(* What the docs say.  It does not hold: see the README.                   *)

(* "A single-element list of SliverTools in case of success, or None if    *)
(* there is no SliverTool available" (GeoResolver, resolver.py:155).       *)
GeoAnswersOneOrNone ==
    \A c \in Clients :
        lookup[c].response.code = "content" => lookup[c].response.slivers # {}

(* "Returns a list of all currently available servers" (policy all,        *)
(* DESIGN_DOC.md:125).                                                     *)
AllAnswersAll ==
    \A c \in Clients :
        /\ lookup[c].query # Absent
        /\ lookup[c].query.policy = "all"
        /\ lookup[c].response.code = "content"
        => SteadyInBoth(c) \subseteq lookup[c].response.slivers

-----------------------------------------------------------------------------
(* What a running lookup has found so far: the strengthening of the        *)
(* invariants above.                                                       *)

SliversHaveSites ==
    \A t \in Tools : \A h \in Present(db[t]) : SiteOf[h] \in sites

(* The histories follow the tables, and the response is still to come.     *)
Watched(c) ==
    LET q == lookup[c].query IN
    lookup[c].pc # "idle" =>
        /\ steady[c].stored \subseteq Matching(db, q)
        /\ steady[c].cached \subseteq Matching(cache, q)
        /\ Matching(db, q) \cup Matching(cache, q) \subseteq seen[c]
        /\ lookup[c].response = Respond("none", {})

(* Only a metro is looked for among the sites, and the sites found are     *)
(* those of the metro, among them the site of every steady sliver.         *)
SitesMatch(c) ==
    LET q == lookup[c].query IN
    /\ lookup[c].pc = "sites" => q.policy = "metro"
    /\ lookup[c].pc = "memcache" => q.policy # "metro"
    /\ lookup[c].pc = "datastore" /\ q.policy = "metro" =>
           /\ \A s \in lookup[c].siteIds : q.place \in MetrosOf[s]
           /\ \A h \in steady[c].stored : SiteOf[h] \in lookup[c].siteIds

(* The candidates match, are of one site each, and stand for the sites of  *)
(* all slivers that matched all along.                                     *)
CandidatesMatch(c) ==
    LET r == lookup[c] IN
    r.pc = "answer" =>
        /\ r.candidates \subseteq seen[c]
        /\ \A h \in r.candidates : OnlineIn(r.entities[h], r.query.family)
        /\ \A h, k \in r.candidates : SiteOf[h] = SiteOf[k] => h = k
        /\ r.candidates = {} => steady[c].stored = {}
        /\ \A h \in SteadyInBoth(c) :
               \E k \in r.candidates : SiteOf[k] = SiteOf[h]

LookupsMatch ==
    /\ SliversHaveSites
    /\ \A c \in Clients : Watched(c) /\ SitesMatch(c) /\ CandidatesMatch(c)
=============================================================================
