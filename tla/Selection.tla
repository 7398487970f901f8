----------------------------- MODULE Selection -----------------------------
(***************************************************************************)
(* How a lookup selects slivers: the filters of SliverToolFetcher          *)
(* (db/sliver_tool_fetcher.py) on the entities of a tool, and the          *)
(* resolvers of the policies (util/resolver.py) on what the fetcher finds. *)
(*                                                                         *)
(* A list of entities is the set of its hosts: the order of a list matters *)
(* to the code's draws only, and a draw is a choice here.                  *)
(***************************************************************************)
EXTENDS Naturals, FiniteSets, Slivers

CONSTANTS
    UnknownTool,           \* a tool id without Tool entity
    Metros, MetrosOf,      \* metros, and the set of them of a site
    Countries, CountryOf,  \* countries, and the one of a host
    Locations, Distance,   \* places of clients, and how far a site is
    Rank,                  \* the order of hosts by FQDN
    BackupSites,           \* the sites whose id ends with c
    DroppableSites,        \* the keys of site_keep_probability
    MaxOptions             \* how many slivers geo_options answers

GeoPolicies == {"geo", "geo_options"}
Policies == GeoPolicies \cup {"metro", "country", "random", "all"}
Formats == {"json", "html", "bt", "redirect", "map"}

(* What a policy selects by.  Absent is a metro or country without         *)
(* argument, a country or a location geolocation did not find.             *)
PlacesOf(policy) ==
    {Absent} \cup CASE policy \in GeoPolicies -> Locations
                    [] policy = "metro"       -> Metros
                    [] policy = "country"     -> Countries
                    [] OTHER                  -> {}

(* A LookupQuery.  family "any": the request names none.  signed: memcache *)
(* has the client's signature, with a probability below 1.                 *)
Query == {q \in [tool   : Tools \cup {UnknownTool},
                 policy : Policies,
                 place  : {Absent} \cup Locations \cup Metros \cup Countries,
                 family : Families \cup {"any"},
                 signed : BOOLEAN,
                 format : Formats] : q.place \in PlacesOf(q.policy)}

ASSUME HostsAssumption == IsFiniteSet(Hosts)
ASSUME UnknownToolAssumption == UnknownTool \notin Tools
ASSUME PlacesAssumption ==
    /\ MetrosOf \in [Sites -> SUBSET Metros]
    /\ CountryOf \in [Hosts -> Countries]
    /\ Distance \in [Locations -> [Sites -> Nat]]
    /\ Absent \notin Metros \cup Countries \cup Locations
ASSUME RankAssumption ==
    /\ Rank \in [Hosts -> Nat]
    /\ \A h, k \in Hosts : Rank[h] = Rank[k] => h = k
ASSUME OptionsAssumption == MaxOptions \in Nat \ {0}

-----------------------------------------------------------------------------
(* The fetcher's filters.                                                  *)

OnlineIn(entity, family) ==
    \E f \in Families : family \in {f, "any"} /\ entity.status[f] = "online"

(* Wrong on purpose: the address family of the query is forgotten.         *)
FilterByStatusOfAny(table, q) ==
    {h \in Present(table) : OnlineIn(table[h], "any")}

(* _filter_by_status, for the status online that all resolvers ask for.    *)
FilterByStatus(table, q) ==
    {h \in Present(table) : OnlineIn(table[h], q.family)}

(* _filter_by_country, and the country clause of the datastore's query.    *)
FilterByCountry(hosts, q) ==
    {h \in hosts : q.policy = "country" => CountryOf[h] = q.place}

(* _filter_choose_one_host_per_site, on the hosts of one site in any       *)
(* order: a roundrobin sliver may be kept wherever it stands; another one  *)
(* only if it comes first by FQDN, or if it takes the place of a           *)
(* roundrobin sliver behind it that a draw kept before.                    *)
MayBeKept(k, hosts, roundrobin) ==
    \/ k \in roundrobin
    \/ \A h \in hosts \ roundrobin : Rank[k] <= Rank[h]
    \/ \E h \in hosts \cap roundrobin : Rank[k] < Rank[h]

Neighbours(k, hosts) == {h \in hosts : SiteOf[h] = SiteOf[k]}

OneHostPerSite(kept, hosts, table) ==
    LET roundrobin == {h \in hosts : table[h].roundrobin} IN
    /\ kept \subseteq hosts
    /\ \A k \in kept : MayBeKept(k, Neighbours(k, hosts), roundrobin)
    /\ \A h \in hosts : Cardinality(Neighbours(h, kept)) = 1

-----------------------------------------------------------------------------
(* The resolvers.                                                          *)

Closer(q, h, k) == Distance[q.place][SiteOf[h]] <= Distance[q.place][SiteOf[k]]

(* The first of a shuffled list.                                           *)
Some(picked, hosts, n) ==
    /\ picked \subseteq hosts
    /\ Cardinality(picked) = IF Cardinality(hosts) < n
                             THEN Cardinality(hosts) ELSE n

(* Wrong on purpose: the list is cut before it is sorted.                  *)
ClosestOfShuffled(picked, hosts, n, q) == Some(picked, hosts, n)

(* The first of a list sorted by distance.                                 *)
Closest(picked, hosts, n, q) ==
    /\ Some(picked, hosts, n)
    /\ \A h \in picked, k \in hosts \ picked : Closer(q, h, k)

(* The first draw sends a client with a signature to the backup sites, or  *)
(* else to the regular ones, where all others go; then each droppable site *)
(* draws.                                                                  *)
SurvivesDraws(survivors, candidates, q) ==
    \E backup \in {FALSE, q.signed} :
       LET pool == {h \in candidates : SiteOf[h] \in BackupSites <=> backup} IN
       /\ survivors \subseteq pool
       /\ {h \in pool : SiteOf[h] \notin DroppableSites} \subseteq survivors

(* _get_closest_n_candidates                                               *)
ClosestCandidates(picked, candidates, n, q) ==
    IF q.place = Absent THEN Some(picked, candidates, n)
    ELSE \E survivors \in SUBSET candidates :
            /\ SurvivesDraws(survivors, candidates, q)
            /\ Closest(picked, survivors, n, q)

(* answer_query of the policy's resolver, given candidates.                *)
AnswerQuery(picked, candidates, q) ==
    CASE q.policy = "all"         -> picked = candidates
      [] q.policy = "geo"         -> ClosestCandidates(picked, candidates, 1, q)
      [] q.policy = "geo_options" ->
             ClosestCandidates(picked, candidates, MaxOptions, q)
      [] OTHER                    -> Some(picked, candidates, 1)
=============================================================================
