------------------------------- MODULE Lookups -------------------------------
(***************************************************************************)
(* A lookup: LookupHandler.get (handlers/lookup.py) from the parsed query  *)
(* to the response, while the listing it reads changes.                    *)
(*                                                                         *)
(* The resolver of the query's policy asks SliverToolFetcher, which reads  *)
(* memcache first and, if no cached sliver matches, the datastore; then    *)
(* the handler answers in the format of the query.  Every call that leaves *)
(* the process is a step; once candidates are found, the entities in hand  *)
(* are all that counts.  The reverse proxy, which comes before all this,   *)
(* and the log lines, which come after, are left out.                      *)
(***************************************************************************)
EXTENDS SliverListing, Selection

CONSTANTS
    Clients,    \* requests that may be running
    WebTools,   \* the tools with an http_port
    Queries     \* the queries clients make: all, or some of them

ASSUME QueriesAssumption == Queries \subseteq Query

(* ips: the addresses of a json response, as <<host, family, address>>.    *)
Responses ==
    [code    : {"none", "content", "redirect", "no_content", "not_found",
                "error"},
     slivers : SUBSET Hosts,
     ips     : SUBSET (Hosts \X Families \X (Addresses \cup {NoAddress}))]

Respond(code, slivers) == [code |-> code, slivers |-> slivers, ips |-> {}]

VARIABLES
    lookup,     \* the requests, with their last response
    steady,     \* history: the hosts that matched all along, in each place
    seen        \* history: the hosts that matched at some time, somewhere

vars == <<listing, lookup, steady, seen>>

Lookup == [pc         : {"idle", "sites", "memcache", "datastore", "answer"},
           query      : Queries \cup {Absent},
           siteIds    : SUBSET Sites,
           entities   : Table,
           candidates : SUBSET Hosts,
           response   : Responses]

IdleLookup == [pc |-> "idle", query |-> Absent, siteIds |-> {},
               entities |-> NoEntities, candidates |-> {},
               response |-> Respond("none", {})]

TypeOK ==
    /\ ListingTypeOK
    /\ lookup \in [Clients -> Lookup]
    /\ \A c \in Clients :
          /\ lookup[c].pc # "idle" => lookup[c].query \in Queries
          /\ lookup[c].candidates \subseteq Present(lookup[c].entities)
    /\ steady \in [Clients -> [stored : SUBSET Hosts, cached : SUBSET Hosts]]
    /\ seen \in [Clients -> SUBSET Hosts]

Init ==
    /\ ListingInit
    /\ lookup = [c \in Clients |-> IdleLookup]
    /\ steady = [c \in Clients |-> [stored |-> {}, cached |-> {}]]
    /\ seen = [c \in Clients |-> {}]

-----------------------------------------------------------------------------
(* History: the slivers a query is after, in each place.                   *)

Fetched(tables, q) ==
    IF q.tool \in Tools THEN tables[q.tool] ELSE NoEntities

Matching(tables, q) ==
    LET table == Fetched(tables, q) IN
    {h \in Present(table) :
        /\ OnlineIn(table[h], q.family)
        /\ q.policy = "country" => CountryOf[h] = q.place
        /\ q.policy = "metro" => q.place \in MetrosOf[SiteOf[h]]}

WatchFrom(c, q) ==
    /\ steady' = [steady EXCEPT ![c] = [stored |-> Matching(db, q),
                                        cached |-> Matching(cache, q)]]
    /\ seen' = [seen EXCEPT ![c] = Matching(db, q) \cup Matching(cache, q)]

Watch ==
    LET running == {c \in Clients : lookup[c].pc # "idle"}
        Stored(c) == Matching(db', lookup[c].query)
        Cached(c) == Matching(cache', lookup[c].query) IN
    /\ steady' = [c \in Clients |->
          IF c \in running
          THEN [stored |-> steady[c].stored \cap Stored(c),
                cached |-> steady[c].cached \cap Cached(c)]
          ELSE steady[c]]
    /\ seen' = [c \in Clients |->
          IF c \in running THEN seen[c] \cup Stored(c) \cup Cached(c)
          ELSE seen[c]]

(* The cron jobs go on meanwhile, whether the listing changes or not.      *)
CronJobs == [ListingNext]_listing /\ Watch /\ UNCHANGED lookup

-----------------------------------------------------------------------------
(* Finding candidates.                                                     *)

SetLookup(c, new) ==
    /\ lookup' = [lookup EXCEPT ![c] = new]
    /\ UNCHANGED listing

(* A metro or country resolver without its argument asks for nothing.      *)
(* Memcache cannot be filtered by metro: its fetcher returns at once, and  *)
(* the datastore's reads the sites first.                                  *)
FirstStep(q) ==
    IF q.policy \in {"metro", "country"} /\ q.place = Absent THEN "answer"
    ELSE IF q.policy = "metro" THEN "sites"
    ELSE "memcache"

LookupStart(c) ==
    /\ lookup[c].pc = "idle"
    /\ \E q \in Queries :
          /\ SetLookup(c, [IdleLookup EXCEPT !.pc = FirstStep(q), !.query = q])
          /\ WatchFrom(c, q)

(* Wrong on purpose: the metro is not looked at.                           *)
FindAllSiteIds(c) ==
    /\ lookup[c].pc = "sites"
    /\ SetLookup(c, [lookup[c] EXCEPT !.pc = "datastore", !.siteIds = sites])
    /\ UNCHANGED <<steady, seen>>

(* _find_site_ids_for_metro                                                *)
FindSiteIds(c) ==
    LET metro == lookup[c].query.place IN
    /\ lookup[c].pc = "sites"
    /\ SetLookup(c, [lookup[c] EXCEPT
           !.pc = "datastore",
           !.siteIds = {s \in sites : metro \in MetrosOf[s]}])
    /\ UNCHANGED <<steady, seen>>

(* One host per site of those that match is a candidate.                   *)
Choose(c, hosts, table) ==
    \E kept \in SUBSET hosts :
       /\ OneHostPerSite(kept, hosts, table)
       /\ SetLookup(c, [lookup[c] EXCEPT !.pc = "answer", !.entities = table,
                                         !.candidates = kept])

(* Wrong on purpose: the datastore is not asked when memcache has a list.  *)
FetchMemcacheOnly(c) ==
    LET q == lookup[c].query
        table == Fetched(cache, q) IN
    /\ lookup[c].pc = "memcache"
    /\ IF table = NoEntities
       THEN SetLookup(c, [lookup[c] EXCEPT !.pc = "datastore"])
       ELSE Choose(c, FilterByCountry(FilterByStatus(table, q), q), table)
    /\ UNCHANGED <<steady, seen>>

(* Wrong on purpose: the host of a site is chosen before the status of its *)
(* hosts is looked at.                                                     *)
FetchMemcacheUnordered(c) ==
    LET q == lookup[c].query
        table == Fetched(cache, q) IN
    /\ lookup[c].pc = "memcache"
    /\ \E kept \in SUBSET Present(table) :
          /\ OneHostPerSite(kept, Present(table), table)
          /\ kept \cap FilterByStatus(table, q) # {}
          /\ SetLookup(c, [lookup[c] EXCEPT
                 !.pc = "answer", !.entities = table,
                 !.candidates = kept \cap FilterByStatus(table, q)])
    /\ UNCHANGED <<steady, seen>>

(* SliverToolFetcherMemcache.fetch.  No match in memcache, or no answer    *)
(* from it, sends SliverToolFetcher to the datastore.                      *)
FetchMemcache(c) ==
    LET q == lookup[c].query
        table == Fetched(cache, q)
        hosts == FilterByCountry(FilterByStatus(table, q), q) IN
    /\ lookup[c].pc = "memcache"
    /\ hosts # {}
    /\ Choose(c, hosts, table)
    /\ UNCHANGED <<steady, seen>>

FallBackToDatastore(c) ==
    /\ lookup[c].pc = "memcache"
    /\ SetLookup(c, [lookup[c] EXCEPT !.pc = "datastore"])
    /\ UNCHANGED <<steady, seen>>

(* Wrong on purpose: the entities answered from are those of memcache.     *)
FetchDatastoreThenMemcache(c) ==
    LET q == lookup[c].query
        table == Fetched(db, q) IN
    /\ lookup[c].pc = "datastore"
    /\ \E kept \in SUBSET FilterByStatus(table, q) :
          /\ OneHostPerSite(kept, FilterByStatus(table, q), table)
          /\ SetLookup(c, [lookup[c] EXCEPT !.pc = "answer",
                                            !.entities = Fetched(cache, q),
                                            !.candidates = kept])
    /\ UNCHANGED <<steady, seen>>

(* SliverToolFetcherDatastore.fetch                                        *)
FetchDatastore(c) ==
    LET q == lookup[c].query
        table == Fetched(db, q)
        hosts == FilterByCountry(FilterByStatus(table, q), q)
        InMetro(h) == q.policy = "metro" => SiteOf[h] \in lookup[c].siteIds IN
    /\ lookup[c].pc = "datastore"
    /\ Choose(c, {h \in hosts : InMetro(h)}, table)
    /\ UNCHANGED <<steady, seen>>

-----------------------------------------------------------------------------
(* Answering.                                                              *)

Finish(c, response) ==
    /\ SetLookup(c, [IdleLookup EXCEPT !.query = lookup[c].query,
                                       !.response = response])
    /\ UNCHANGED <<steady, seen>>

Responding(c, format) ==
    /\ lookup[c].pc = "answer"
    /\ lookup[c].candidates # {}
    /\ lookup[c].query.format = format

(* What answer_query may return.                                           *)
Answers(c) == {slivers \in SUBSET lookup[c].candidates :
                  AnswerQuery(slivers, lookup[c].candidates, lookup[c].query)}

(* answer_query is None: no capacity, or no such tool.                     *)
AnswerNone(c) ==
    /\ lookup[c].pc = "answer"
    /\ lookup[c].candidates = {}
    /\ Finish(c, IF lookup[c].query.tool \in Tools
                 THEN Respond("no_content", {}) ELSE Respond("not_found", {}))

(* The address of the family asked for, or those of the online families.   *)
JsonIPs(slivers, entities, family) ==
    {<<s[1], s[2], entities[s[1]].ip[s[2]]>> : s \in
        {i \in slivers \X Families :
            IF family \in Families THEN i[2] = family
            ELSE entities[i[1]].status[i[2]] = "online"}}

SendJsonResponse(c) ==
    LET q == lookup[c].query IN
    /\ Responding(c, "json")
    /\ \E slivers \in Answers(c) :
          Finish(c, IF slivers = {} THEN Respond("no_content", {})
                    ELSE [code |-> "content", slivers |-> slivers,
                          ips |-> JsonIPs(slivers, lookup[c].entities,
                                          q.family)])

(* The text or the page of a list, which may be empty.                     *)
SendList(c) == \E slivers \in Answers(c) : Finish(c, Respond("content", slivers))

SendBtResponse(c) == Responding(c, "bt") /\ SendList(c)
SendHtmlResponse(c) == Responding(c, "html") /\ SendList(c)

(* sliver_tools[0], of a list sorted by distance or of any list.           *)
ComesFirst(h, slivers, q) ==
    /\ h \in slivers
    /\ q.policy \in GeoPolicies /\ q.place # Absent =>
           \A k \in slivers : Closer(q, h, k)

(* Of an empty list it is an IndexError.                                   *)
SendRedirectResponse(c) ==
    LET q == lookup[c].query IN
    /\ Responding(c, "redirect")
    /\ \E slivers \in Answers(c) :
          IF slivers = {} THEN Finish(c, Respond("error", {}))
          ELSE IF q.tool \notin WebTools
          THEN Finish(c, Respond("not_found", {}))
          ELSE \E h \in slivers : /\ ComesFirst(h, slivers, q)
                                  /\ Finish(c, Respond("redirect", {h}))

(* The handler calls get_candidates, which no resolver has.                *)
SendMapResponse(c) ==
    /\ Responding(c, "map")
    /\ Finish(c, Respond("error", {}))

(* A datastore query fails, and nothing catches the error: that of the     *)
(* candidates, of is_valid_tool, or of the tool a json response is about.  *)
LookupFails(c) ==
    /\ \/ lookup[c].pc \in {"sites", "datastore"}
       \/ /\ lookup[c].pc = "answer"
          /\ lookup[c].candidates = {} \/ lookup[c].query.format = "json"
    /\ Finish(c, Respond("error", {}))

LookupStep(c) ==
    \/ LookupStart(c)
    \/ FindSiteIds(c) \/ FetchMemcache(c)
    \/ FallBackToDatastore(c) \/ FetchDatastore(c)
    \/ AnswerNone(c)
    \/ SendJsonResponse(c) \/ SendBtResponse(c) \/ SendHtmlResponse(c)
    \/ SendRedirectResponse(c) \/ SendMapResponse(c)
    \/ LookupFails(c)

Next == CronJobs \/ \E c \in Clients : LookupStep(c)

Spec == Init /\ [][Next]_vars
=============================================================================
