---------------------------- MODULE LookupProofs ----------------------------
(***************************************************************************)
(* Proofs about the lookups, for every platform, listing, query and number *)
(* of clients: the type invariant, then what a lookup promises, from the   *)
(* invariant LookupsMatch on what a running lookup has found so far.       *)
(***************************************************************************)
EXTENDS LookupProperties, FiniteSetTheorems, TLAPS

LEMMA NoEntitiesType == NoEntities \in Table /\ Present(NoEntities) = {}
  BY DEF NoEntities, Table, Present

LEMMA FetchedType ==
    ASSUME NEW tables \in [Tools -> Table], NEW q \in Query
    PROVE  /\ Fetched(tables, q) \in Table
           /\ Matching(tables, q) \subseteq Present(Fetched(tables, q))
           /\ Matching(tables, q) \subseteq Hosts
  <1>1. Fetched(tables, q) \in Table
    BY NoEntitiesType DEF Fetched
  <1>2. QED  BY <1>1 DEF Matching, Present

LEMMA RespondType ==
    ASSUME NEW slivers \in SUBSET Hosts,
           NEW code \in {"none", "content", "redirect", "no_content",
                         "not_found", "error"}
    PROVE  Respond(code, slivers) \in Responses
  BY DEF Respond, Responses

LEMMA IdleLookupType == IdleLookup \in Lookup /\ IdleLookup.candidates = {}
  BY NoEntitiesType, RespondType DEF IdleLookup, Lookup

(* What TypeOK says of one client.                                         *)
ClientTypeOK(r) ==
    /\ r \in Lookup
    /\ r.pc # "idle" => r.query \in Queries
    /\ r.candidates \subseteq Present(r.entities)

LEMMA TypeOfClient ==
    ASSUME TypeOK, NEW c \in Clients
    PROVE  /\ ClientTypeOK(lookup[c])
           /\ lookup[c].pc # "idle" => lookup[c].query \in Query
  BY QueriesAssumption DEF TypeOK, ClientTypeOK

LEMMA SetLookupType ==
    ASSUME TypeOK, NEW c \in Clients, NEW r, ClientTypeOK(r), SetLookup(c, r)
    PROVE  ListingTypeOK' /\ lookup' \in [Clients -> Lookup]
           /\ \A d \in Clients : ClientTypeOK(lookup'[d])
  <1>1. ListingTypeOK'
    BY DEF TypeOK, SetLookup, listing, ListingTypeOK
  <1>2. \A d \in Clients : lookup'[d] = IF d = c THEN r ELSE lookup[d]
    BY DEF SetLookup, TypeOK
  <1>3. \A d \in Clients : ClientTypeOK(lookup[d])
    BY TypeOfClient
  <1>4. lookup' \in [Clients -> Lookup]
    BY DEF SetLookup, TypeOK, ClientTypeOK
  <1>5. QED  BY <1>1, <1>2, <1>3, <1>4

(* A lookup that goes on with some of its fields changed, and one that     *)
(* ends with a response.                                                   *)
LEMMA GoOnType ==
    ASSUME TypeOK, NEW c \in Clients, lookup[c].pc # "idle",
           NEW table \in Table, NEW kept \in SUBSET Present(table),
           NEW ids \in SUBSET Sites
    PROVE  /\ ClientTypeOK([lookup[c] EXCEPT !.pc = "datastore",
                                             !.siteIds = ids])
           /\ ClientTypeOK([lookup[c] EXCEPT !.pc = "datastore"])
           /\ ClientTypeOK([lookup[c] EXCEPT !.pc = "answer",
                                             !.entities = table,
                                             !.candidates = kept])
  <1>1. ClientTypeOK(lookup[c]) /\ kept \subseteq Hosts
    BY TypeOfClient DEF Present
  <1>2. QED  BY <1>1 DEF ClientTypeOK, Lookup

LEMMA FinishType ==
    ASSUME TypeOK, NEW c \in Clients, lookup[c].pc # "idle",
           NEW response \in Responses
    PROVE  ClientTypeOK([IdleLookup EXCEPT !.query = lookup[c].query,
                                           !.response = response])
  <1>1. lookup[c].query \in Queries
    BY TypeOfClient DEF ClientTypeOK
  <1>2. QED
    BY <1>1, NoEntitiesType, IdleLookupType
       DEF ClientTypeOK, IdleLookup, Lookup

(* What the filters and the resolvers select, they select from their input *)
LEMMA AnswersAreCandidates ==
    ASSUME NEW c \in Clients, NEW slivers \in Answers(c)
    PROVE  slivers \subseteq lookup[c].candidates
  BY DEF Answers

LEMMA JsonType ==
    ASSUME NEW slivers \in SUBSET Hosts, NEW entities \in Table,
           slivers \subseteq Present(entities), NEW family
    PROVE  [code |-> "content", slivers |-> slivers,
            ips |-> JsonIPs(slivers, entities, family)] \in Responses
  <1>1. \A h \in slivers : entities[h] \in Entity
    BY DEF Table, Present
  <1>2. JsonIPs(slivers, entities, family)
            \subseteq Hosts \X Families \X (Addresses \cup {NoAddress})
    BY <1>1 DEF JsonIPs, Entity, Row
  <1>3. QED  BY <1>2 DEF Responses

LEMMA ChooseType ==
    ASSUME TypeOK, NEW c \in Clients, lookup[c].pc # "idle",
           NEW table \in Table, NEW hosts \in SUBSET Present(table),
           Choose(c, hosts, table)
    PROVE  ListingTypeOK' /\ lookup' \in [Clients -> Lookup]
           /\ \A d \in Clients : ClientTypeOK(lookup'[d])
  <1>1. PICK kept \in SUBSET hosts :
            SetLookup(c, [lookup[c] EXCEPT !.pc = "answer",
                                           !.entities = table,
                                           !.candidates = kept])
    BY DEF Choose
  <1>2. ClientTypeOK([lookup[c] EXCEPT !.pc = "answer", !.entities = table,
                                       !.candidates = kept])
    BY GoOnType
  <1>3. QED  BY <1>1, <1>2, SetLookupType

LEMMA FinishedType ==
    ASSUME TypeOK, NEW c \in Clients, lookup[c].pc # "idle",
           NEW response \in Responses, Finish(c, response)
    PROVE  TypeOK'
  <1>1. ClientTypeOK([IdleLookup EXCEPT !.query = lookup[c].query,
                                        !.response = response])
    BY FinishType
  <1>2. QED  BY <1>1, SetLookupType DEF Finish, TypeOK, ClientTypeOK

(* What each way to respond makes of the lookup.                           *)
LEMMA RespondStepType ==
    ASSUME TypeOK, NEW c \in Clients,
           \/ AnswerNone(c) \/ SendJsonResponse(c) \/ SendBtResponse(c)
           \/ SendHtmlResponse(c) \/ SendRedirectResponse(c)
           \/ SendMapResponse(c) \/ LookupFails(c)
    PROVE  \E response \in Responses : Finish(c, response)
  <1> DEFINE r == lookup[c]
  <1>1. /\ r.candidates \subseteq Hosts
        /\ r.candidates \subseteq Present(r.entities)
        /\ r.entities \in Table
    BY TypeOfClient DEF ClientTypeOK, Lookup
  <1>2. \A slivers \in Answers(c) : /\ slivers \subseteq Hosts
                                    /\ slivers \subseteq Present(r.entities)
    BY <1>1, AnswersAreCandidates
  <1>3. /\ Respond("no_content", {}) \in Responses
        /\ Respond("not_found", {}) \in Responses
        /\ Respond("error", {}) \in Responses
    BY RespondType
  <1>4. CASE AnswerNone(c)
    BY <1>3, <1>4 DEF AnswerNone
  <1>5. CASE SendJsonResponse(c)
    <2>1. PICK slivers \in Answers(c) :
             Finish(c, IF slivers = {} THEN Respond("no_content", {})
                       ELSE [code |-> "content", slivers |-> slivers,
                             ips |-> JsonIPs(slivers, r.entities,
                                             r.query.family)])
      BY <1>5 DEF SendJsonResponse
    <2>2. [code |-> "content", slivers |-> slivers,
           ips |-> JsonIPs(slivers, r.entities, r.query.family)] \in Responses
      BY <1>1, <1>2, JsonType
    <2>3. QED  BY <1>3, <2>1, <2>2
  <1>6. CASE SendList(c)
    <2>1. PICK slivers \in Answers(c) : Finish(c, Respond("content", slivers))
      BY <1>6 DEF SendList
    <2>2. QED  BY <1>2, <2>1, RespondType
  <1>7. CASE SendRedirectResponse(c)
    <2>1. PICK slivers \in Answers(c) :
             IF slivers = {} THEN Finish(c, Respond("error", {}))
             ELSE IF r.query.tool \notin WebTools
             THEN Finish(c, Respond("not_found", {}))
             ELSE \E h \in slivers : /\ ComesFirst(h, slivers, r.query)
                                     /\ Finish(c, Respond("redirect", {h}))
      BY <1>7 DEF SendRedirectResponse
    <2>2. \A h \in slivers : Respond("redirect", {h}) \in Responses
      BY <1>2, RespondType
    <2>3. QED  BY <1>3, <2>1, <2>2
  <1>8. CASE SendMapResponse(c) \/ LookupFails(c)
    BY <1>3, <1>8 DEF SendMapResponse, LookupFails
  <1>9. QED
    BY <1>4, <1>5, <1>6, <1>7, <1>8 DEF SendBtResponse, SendHtmlResponse

LEMMA Respondents ==
    ASSUME NEW c \in Clients,
           \/ AnswerNone(c) \/ SendJsonResponse(c) \/ SendBtResponse(c)
           \/ SendHtmlResponse(c) \/ SendRedirectResponse(c)
           \/ SendMapResponse(c) \/ LookupFails(c)
    PROVE  lookup[c].pc # "idle"
  BY DEF AnswerNone, SendJsonResponse, SendBtResponse, SendHtmlResponse,
         SendRedirectResponse, SendMapResponse, LookupFails, Responding

LEMMA ListingStepType ==
    ASSUME ListingTypeOK, [ListingNext]_listing
    PROVE  ListingTypeOK'
  <1>4. CASE UNCHANGED listing
    BY <1>4 DEF listing, ListingTypeOK
  <1>1. CASE RegisterASite
    BY <1>1 DEF RegisterASite, ListingTypeOK
  <1>2. CASE StoreSlivers
    BY <1>2, TablesAssumption DEF StoreSlivers, ListingTypeOK
  <1>3. CASE RefreshMemcache
    BY <1>3, TablesAssumption DEF RefreshMemcache, ListingTypeOK
  <1>5. QED  BY <1>1, <1>2, <1>3, <1>4 DEF ListingNext

LEMMA CronJobsType == TypeOK /\ CronJobs => TypeOK'
  <1> SUFFICES ASSUME TypeOK, CronJobs PROVE TypeOK'
    OBVIOUS
  <1>1. ListingTypeOK'
    BY ListingStepType DEF CronJobs, TypeOK
  <1>2. \A c \in Clients : lookup[c].pc # "idle" => lookup[c].query \in Query
    BY TypeOfClient
  <1>3. \A c \in Clients : lookup[c].pc # "idle" =>
            /\ Matching(db', lookup[c].query) \subseteq Hosts
            /\ Matching(cache', lookup[c].query) \subseteq Hosts
    BY <1>1, <1>2, FetchedType DEF ListingTypeOK
  <1>4. steady' \in [Clients -> [stored : SUBSET Hosts, cached : SUBSET Hosts]]
    BY <1>3 DEF CronJobs, Watch, TypeOK
  <1>5. seen' \in [Clients -> SUBSET Hosts]
    BY <1>3 DEF CronJobs, Watch, TypeOK
  <1>6. QED  BY <1>1, <1>4, <1>5 DEF CronJobs, TypeOK

LEMMA LookupStartType ==
    ASSUME TypeOK, NEW c \in Clients, LookupStart(c)
    PROVE  TypeOK'
  <1>1. PICK q \in Queries :
            /\ SetLookup(c, [IdleLookup EXCEPT !.pc = FirstStep(q),
                                               !.query = q])
            /\ WatchFrom(c, q)
    BY DEF LookupStart
  <1>2. q \in Query /\ ListingTypeOK
    BY QueriesAssumption DEF TypeOK
  <1>3. Matching(db, q) \subseteq Hosts /\ Matching(cache, q) \subseteq Hosts
    BY <1>2, FetchedType DEF ListingTypeOK
  <1>4. FirstStep(q) \in {"answer", "sites", "memcache"}
    BY DEF FirstStep
  <1>5. ClientTypeOK([IdleLookup EXCEPT !.pc = FirstStep(q), !.query = q])
    BY <1>4, NoEntitiesType, IdleLookupType
       DEF ClientTypeOK, IdleLookup, Lookup
  <1>6. /\ steady' \in [Clients -> [stored : SUBSET Hosts,
                                    cached : SUBSET Hosts]]
        /\ seen' \in [Clients -> SUBSET Hosts]
    BY <1>1, <1>3 DEF WatchFrom, TypeOK
  <1>7. QED
    BY <1>1, <1>5, <1>6, SetLookupType DEF TypeOK, ClientTypeOK

LEMMA LookupStepType ==
    ASSUME TypeOK, NEW c \in Clients, LookupStep(c)
    PROVE  TypeOK'
  <1> DEFINE q == lookup[c].query
             filtered(table) == FilterByCountry(FilterByStatus(table, q), q)
  <1>1. lookup[c].pc # "idle" =>
            /\ q \in Query
            /\ Fetched(db, q) \in Table /\ Fetched(cache, q) \in Table
    BY TypeOfClient, FetchedType DEF TypeOK, ListingTypeOK
  <1>2. \A table \in Table : filtered(table) \subseteq Present(table)
    BY DEF FilterByCountry, FilterByStatus
  <1>3. CASE LookupStart(c)
    BY <1>3, LookupStartType
  <1>4. CASE FindSiteIds(c)
    <2>1. ClientTypeOK([lookup[c] EXCEPT
             !.pc = "datastore", !.siteIds = {s \in sites : q.place \in MetrosOf[s]}])
      BY <1>4, NoEntitiesType, GoOnType
         DEF FindSiteIds, TypeOK, ListingTypeOK
    <2>2. QED
      BY <1>4, <2>1, SetLookupType DEF FindSiteIds, TypeOK, ClientTypeOK
  <1>5. CASE FetchMemcache(c)
    <2> DEFINE hosts == filtered(Fetched(cache, q))
    <2>1. /\ hosts \subseteq Present(Fetched(cache, q))
          /\ Choose(c, hosts, Fetched(cache, q))
          /\ lookup[c].pc # "idle" /\ UNCHANGED <<steady, seen>>
      BY <1>1, <1>2, <1>5 DEF FetchMemcache
    <2>2. QED  BY <1>1, <2>1, ChooseType DEF TypeOK, ClientTypeOK
  <1>6. CASE FallBackToDatastore(c)
    <2>1. ClientTypeOK([lookup[c] EXCEPT !.pc = "datastore"])
      BY <1>6, NoEntitiesType, GoOnType DEF FallBackToDatastore
    <2>2. QED
      BY <1>6, <2>1, SetLookupType
         DEF FallBackToDatastore, TypeOK, ClientTypeOK
  <1>7. CASE FetchDatastore(c)
    <2> DEFINE hosts == {h \in filtered(Fetched(db, q)) :
                            q.policy = "metro" =>
                                SiteOf[h] \in lookup[c].siteIds}
    <2>1. /\ hosts \subseteq Present(Fetched(db, q))
          /\ Choose(c, hosts, Fetched(db, q))
          /\ lookup[c].pc # "idle" /\ UNCHANGED <<steady, seen>>
      BY <1>1, <1>2, <1>7 DEF FetchDatastore
    <2>2. QED  BY <1>1, <2>1, ChooseType DEF TypeOK, ClientTypeOK
  <1>8. CASE \/ AnswerNone(c) \/ SendJsonResponse(c) \/ SendBtResponse(c)
             \/ SendHtmlResponse(c) \/ SendRedirectResponse(c)
             \/ SendMapResponse(c) \/ LookupFails(c)
    BY <1>8, Respondents, RespondStepType, FinishedType
  <1>9. QED
    BY <1>3, <1>4, <1>5, <1>6, <1>7, <1>8 DEF LookupStep

(* Every variable keeps its type; a running lookup has a query, and its    *)
(* candidates are among the entities in hand.                              *)
THEOREM LookupsTypeCorrect == Spec => []TypeOK
  <1>1. Init => TypeOK
    BY NoEntitiesType, IdleLookupType
       DEF Init, TypeOK, ListingInit, ListingTypeOK, IdleLookup
  <1>2. TypeOK /\ [Next]_vars => TypeOK'
    <2> SUFFICES ASSUME TypeOK, [Next]_vars PROVE TypeOK'
      OBVIOUS
    <2>1. CASE UNCHANGED vars
      BY <2>1 DEF vars, listing, TypeOK, ListingTypeOK
    <2>2. CASE Next
      BY <2>2, CronJobsType, LookupStepType DEF Next
    <2>3. QED  BY <2>1, <2>2
  <1>3. QED  BY <1>1, <1>2, PTL DEF Spec

-----------------------------------------------------------------------------
(* Cardinalities of what a choice leaves.                                  *)

LEMMA HostsAreFinite ==
    ASSUME NEW hosts \in SUBSET Hosts
    PROVE  IsFiniteSet(hosts) /\ Cardinality(hosts) \in Nat
  BY HostsAssumption, FS_Subset, FS_CardinalityType

LEMMA OneOfEachSite ==
    ASSUME NEW table, NEW hosts \in SUBSET Hosts, NEW kept,
           OneHostPerSite(kept, hosts, table)
    PROVE  /\ kept \subseteq hosts
           /\ \A h \in hosts : \E k \in kept : SiteOf[k] = SiteOf[h]
           /\ \A h, k \in kept : SiteOf[h] = SiteOf[k] => h = k
  <1>1. kept \subseteq hosts
    BY DEF OneHostPerSite
  <1>2. \A h \in hosts : \E k \in Hosts : Neighbours(h, kept) = {k}
    <2> TAKE h \in hosts
    <2>1. Cardinality(Neighbours(h, kept)) = 1
      BY DEF OneHostPerSite
    <2>2. Neighbours(h, kept) \subseteq Hosts
      BY <1>1 DEF Neighbours
    <2>3. PICK k : Neighbours(h, kept) = {k}
      BY <2>1, <2>2, HostsAreFinite, FS_Singleton
    <2>4. QED  BY <2>2, <2>3
  <1>3. QED  BY <1>1, <1>2 DEF Neighbours

LEMMA SomeOfNone ==
    ASSUME NEW picked, NEW hosts \in SUBSET Hosts, NEW n \in Nat \ {0},
           Some(picked, hosts, n), picked = {}
    PROVE  hosts = {}
  <1>1. Cardinality(picked) = 0
    BY FS_EmptySet
  <1>2. Cardinality(hosts) = 0
    BY <1>1, HostsAreFinite DEF Some
  <1>3. QED  BY <1>2, HostsAreFinite, FS_EmptySet

(* What the draws of a choice by distance must leave alone is picked, or   *)
(* as many as are asked for, all of them closer, are.                      *)
LEMMA ClosestOfSteady ==
    ASSUME NEW picked, NEW candidates \in SUBSET Hosts, NEW n \in Nat \ {0},
           NEW q, ByDistance(q), ClosestCandidates(picked, candidates, n, q),
           NEW k \in candidates, SurelyKept(k, q)
    PROVE  \/ k \in picked
           \/ /\ Cardinality(picked) = n
              /\ \A p \in picked : Closer(q, p, k)
  <1>1. PICK survivors \in SUBSET candidates :
            /\ SurvivesDraws(survivors, candidates, q)
            /\ Closest(picked, survivors, n, q)
    BY DEF ClosestCandidates, ByDistance
  <1>2. k \in survivors
    <2>1. ~q.signed /\ SiteOf[k] \notin BackupSites \cup DroppableSites
      BY DEF SurelyKept
    <2>2. PICK backup \in {FALSE, q.signed} :
             {h \in {g \in candidates : SiteOf[g] \in BackupSites <=> backup} :
                 SiteOf[h] \notin DroppableSites} \subseteq survivors
      BY <1>1 DEF SurvivesDraws
    <2>3. ~backup
      BY <2>1, <2>2
    <2>4. QED  BY <2>1, <2>2, <2>3
  <1>3. SUFFICES ASSUME k \notin picked
                 PROVE  /\ Cardinality(picked) = n
                        /\ \A p \in picked : Closer(q, p, k)
    OBVIOUS
  <1>4. \A p \in picked : Closer(q, p, k)
    BY <1>1, <1>2, <1>3 DEF Closest
  <1>5. /\ picked \subseteq survivors /\ survivors \subseteq Hosts
        /\ Cardinality(picked) = IF Cardinality(survivors) < n
                                 THEN Cardinality(survivors) ELSE n
    BY <1>1 DEF Closest, Some
  <1>6. Cardinality(picked) # Cardinality(survivors)
    BY <1>2, <1>3, <1>5, HostsAreFinite, FS_Subset
  <1>7. Cardinality(picked) = n
    BY <1>5, <1>6
  <1>8. QED  BY <1>4, <1>7

(* An empty answer to a query that had candidates is the draws' doing.     *)
LEMMA EmptyAnswer ==
    ASSUME NEW candidates \in SUBSET Hosts, NEW q \in Query,
           AnswerQuery({}, candidates, q), candidates # {}
    PROVE  ByDistance(q) /\ \A k \in candidates : ~SurelyKept(k, q)
  <1>1. q.policy \in GeoPolicies
    <2>1. ASSUME q.policy = "all" PROVE FALSE
      BY <2>1 DEF AnswerQuery
    <2>2. ASSUME q.policy \notin GeoPolicies, q.policy # "all" PROVE FALSE
      <3>1. Some({}, candidates, 1)
        BY <2>2 DEF AnswerQuery, GeoPolicies
      <3>2. QED  BY <3>1, SomeOfNone
    <2>3. QED  BY <2>1, <2>2
  <1>2. PICK n \in Nat \ {0} : ClosestCandidates({}, candidates, n, q)
    BY <1>1, OptionsAssumption DEF AnswerQuery, GeoPolicies
  <1>3. q.place # Absent
    <2>1. ASSUME q.place = Absent PROVE Some({}, candidates, n)
      BY <1>2, <2>1 DEF ClosestCandidates
    <2>2. QED  BY <2>1, SomeOfNone
  <1>4. ByDistance(q)
    BY <1>1, <1>3 DEF ByDistance
  <1>5. \A k \in candidates : SurelyKept(k, q) => Cardinality({}) = n
    BY <1>2, <1>4, ClosestOfSteady
  <1>6. QED  BY <1>4, <1>5, FS_EmptySet

-----------------------------------------------------------------------------
(* LookupsMatch is inductive.                                              *)

ClientMatches(c) == Watched(c) /\ SitesMatch(c) /\ CandidatesMatch(c)

LEMMA ListingKeepsSites ==
    ASSUME ListingTypeOK, SliversHaveSites, [ListingNext]_listing
    PROVE  SliversHaveSites'
  <1>4. CASE UNCHANGED listing
    BY <1>4 DEF listing, SliversHaveSites
  <1>1. CASE RegisterASite
    BY <1>1 DEF RegisterASite, SliversHaveSites
  <1>2. CASE StoreSlivers
    BY <1>2 DEF StoreSlivers, SliversHaveSites, ListingTypeOK, Present
  <1>3. CASE RefreshMemcache
    BY <1>3 DEF RefreshMemcache, SliversHaveSites
  <1>5. QED  BY <1>1, <1>2, <1>3, <1>4 DEF ListingNext

LEMMA CronJobsMatch == TypeOK /\ LookupsMatch /\ CronJobs => LookupsMatch'
  <1> SUFFICES ASSUME TypeOK, LookupsMatch, CronJobs PROVE LookupsMatch'
    OBVIOUS
  <1>1. SliversHaveSites'
    BY ListingKeepsSites DEF CronJobs, TypeOK, LookupsMatch
  <1>2. ASSUME NEW c \in Clients
        PROVE  ClientMatches(c)'
    <2> DEFINE q == lookup[c].query
    <2>1. lookup'[c] = lookup[c] /\ ClientMatches(c)
      BY DEF CronJobs, LookupsMatch, ClientMatches
    <2>2. CASE lookup[c].pc = "idle"
      BY <2>1, <2>2
         DEF ClientMatches, Watched, SitesMatch, CandidatesMatch
    <2>3. CASE lookup[c].pc # "idle"
      <3>1. /\ steady'[c].stored = steady[c].stored \cap Matching(db', q)
            /\ steady'[c].cached = steady[c].cached \cap Matching(cache', q)
            /\ seen'[c] = seen[c] \cup Matching(db', q) \cup Matching(cache', q)
        BY <2>3 DEF CronJobs, Watch, TypeOK
      <3>2. Watched(c)'
        <4>1. Matching(db, q)' = Matching(db', q)
          BY <2>1 DEF Matching, Fetched
        <4>2. Matching(cache, q)' = Matching(cache', q)
          BY <2>1 DEF Matching, Fetched
        <4>3. QED
          BY <2>1, <2>3, <3>1, <4>1, <4>2 DEF ClientMatches, Watched
      <3>3. SitesMatch(c)'
        BY <2>1, <3>1 DEF ClientMatches, SitesMatch
      <3>4. CandidatesMatch(c)'
        BY <2>1, <3>1 DEF ClientMatches, CandidatesMatch, SteadyInBoth
      <3>5. QED  BY <3>2, <3>3, <3>4 DEF ClientMatches
    <2>4. QED  BY <2>2, <2>3
  <1>3. QED  BY <1>1, <1>2 DEF LookupsMatch, ClientMatches

(* A step of one lookup leaves the others as they are.                     *)
LEMMA OthersMatch ==
    ASSUME TypeOK, LookupsMatch, UNCHANGED <<sites, db, cache>>,
           NEW c \in Clients, NEW d \in Clients, lookup'[d] = lookup[d],
           steady'[d] = steady[d], seen'[d] = seen[d]
    PROVE  ClientMatches(d)'
  BY DEF LookupsMatch, ClientMatches, Watched, SitesMatch, CandidatesMatch,
         SteadyInBoth, Matching, Fetched

LEMMA OneLookupMatches ==
    ASSUME TypeOK, LookupsMatch, NEW c \in Clients, NEW r,
           SetLookup(c, r), ClientMatches(c)',
           \A d \in Clients \ {c} : steady'[d] = steady[d] /\ seen'[d] = seen[d]
    PROVE  LookupsMatch'
  <1>1. UNCHANGED <<sites, db, cache>>
    BY DEF SetLookup, listing
  <1>2. \A d \in Clients \ {c} : lookup'[d] = lookup[d]
    BY DEF SetLookup, TypeOK
  <1>3. \A d \in Clients \ {c} : ClientMatches(d)'
    BY <1>1, <1>2, OthersMatch
  <1>4. SliversHaveSites'
    BY <1>1 DEF LookupsMatch, SliversHaveSites
  <1>5. QED  BY <1>3, <1>4 DEF LookupsMatch, ClientMatches

(* Nothing matches a country or a metro that is not known.                 *)
LEMMA NothingMatchesNowhere ==
    ASSUME NEW tables, NEW q \in Query, q.policy \in {"metro", "country"},
           q.place = Absent
    PROVE  Matching(tables, q) = {}
  <1>1. \A h \in Hosts : CountryOf[h] # Absent /\ Absent \notin MetrosOf[SiteOf[h]]
    BY PlacesAssumption, SiteOfAssumption
  <1>2. QED  BY <1>1 DEF Matching, Present

LEMMA LookupStartMatches ==
    ASSUME TypeOK, LookupsMatch, NEW c \in Clients, LookupStart(c)
    PROVE  LookupsMatch'
  <1>1. PICK q \in Queries :
            /\ SetLookup(c, [IdleLookup EXCEPT !.pc = FirstStep(q),
                                               !.query = q])
            /\ WatchFrom(c, q)
    BY DEF LookupStart
  <1>2. /\ q \in Query
        /\ lookup'[c] = [IdleLookup EXCEPT !.pc = FirstStep(q), !.query = q]
        /\ UNCHANGED <<sites, db, cache>>
    BY <1>1, QueriesAssumption DEF SetLookup, TypeOK, listing
  <1>3. /\ lookup'[c].pc = FirstStep(q) /\ lookup'[c].query = q
        /\ lookup'[c].response = Respond("none", {})
        /\ lookup'[c].candidates = {}
    BY <1>2 DEF IdleLookup
  <1>4. /\ steady'[c].stored = Matching(db, q)
        /\ steady'[c].cached = Matching(cache, q)
        /\ seen'[c] = Matching(db, q) \cup Matching(cache, q)
    BY <1>1 DEF WatchFrom, TypeOK
  <1>5. /\ Matching(db, q) = Matching(db', q)
        /\ Matching(cache, q) = Matching(cache', q)
    BY <1>2
  <1>6. Watched(c)'
    BY <1>3, <1>4, <1>5 DEF Watched
  <1>7. SitesMatch(c)'
    BY <1>3 DEF SitesMatch, FirstStep
  <1>8. CandidatesMatch(c)'
    <2>1. SUFFICES ASSUME FirstStep(q) = "answer"
                   PROVE  steady'[c].stored = {}
      BY <1>3 DEF CandidatesMatch, SteadyInBoth
    <2>2. q.policy \in {"metro", "country"} /\ q.place = Absent
      BY <2>1 DEF FirstStep
    <2>3. QED  BY <1>2, <1>4, <2>2, NothingMatchesNowhere
  <1>9. ClientMatches(c)'
    BY <1>6, <1>7, <1>8 DEF ClientMatches
  <1>10. \A d \in Clients \ {c} : steady'[d] = steady[d] /\ seen'[d] = seen[d]
    BY <1>1 DEF WatchFrom, TypeOK
  <1>11. QED  BY <1>1, <1>9, <1>10, OneLookupMatches

LEMMA FindSiteIdsMatches ==
    ASSUME TypeOK, LookupsMatch, NEW c \in Clients, FindSiteIds(c)
    PROVE  LookupsMatch'
  <1> DEFINE q == lookup[c].query
             ids == {s \in sites : q.place \in MetrosOf[s]}
             r == [lookup[c] EXCEPT !.pc = "datastore", !.siteIds = ids]
  <1>1. /\ SetLookup(c, r) /\ lookup[c].pc = "sites"
        /\ UNCHANGED <<steady, seen, sites, db, cache>>
    BY DEF FindSiteIds, SetLookup, listing
  <1>2. ClientMatches(c) /\ SliversHaveSites /\ q \in Query
    BY <1>1, TypeOfClient DEF LookupsMatch, ClientMatches
  <1>3. lookup'[c] = r /\ lookup[c] \in Lookup
    BY <1>1 DEF SetLookup, TypeOK
  <1>4. /\ lookup'[c].pc = "datastore" /\ lookup'[c].query = q
        /\ lookup'[c].siteIds = ids
        /\ lookup'[c].response = lookup[c].response
    BY <1>3 DEF Lookup
  <1>5. /\ Matching(db, q) = Matching(db', q)
        /\ Matching(cache, q) = Matching(cache', q)
    BY <1>1
  <1>6. Watched(c)'
    BY <1>1, <1>2, <1>4, <1>5 DEF ClientMatches, Watched
  <1>7. \A h \in steady[c].stored : SiteOf[h] \in ids
    <2> TAKE h \in steady[c].stored
    <2>1. h \in Matching(db, q) /\ q.policy = "metro"
      BY <1>1, <1>2 DEF ClientMatches, Watched, SitesMatch
    <2>2. q.tool \in Tools /\ h \in Present(db[q.tool])
      BY <2>1, NoEntitiesType DEF Matching, Fetched
    <2>3. QED
      BY <1>2, <2>1, <2>2 DEF SliversHaveSites, Matching
  <1>8. SitesMatch(c)' /\ CandidatesMatch(c)'
    BY <1>1, <1>4, <1>7 DEF SitesMatch, CandidatesMatch
  <1>9. QED
    BY <1>1, <1>6, <1>8, OneLookupMatches DEF ClientMatches

LEMMA FallBackMatches ==
    ASSUME TypeOK, LookupsMatch, NEW c \in Clients, FallBackToDatastore(c)
    PROVE  LookupsMatch'
  <1> DEFINE q == lookup[c].query
             r == [lookup[c] EXCEPT !.pc = "datastore"]
  <1>1. /\ SetLookup(c, r) /\ lookup[c].pc = "memcache"
        /\ UNCHANGED <<steady, seen, sites, db, cache>>
    BY DEF FallBackToDatastore, SetLookup, listing
  <1>2. ClientMatches(c)
    BY DEF LookupsMatch, ClientMatches
  <1>3. lookup'[c] = r /\ lookup[c] \in Lookup
    BY <1>1 DEF SetLookup, TypeOK
  <1>4. /\ lookup'[c].pc = "datastore" /\ lookup'[c].query = q
        /\ lookup'[c].response = lookup[c].response
    BY <1>3 DEF Lookup
  <1>5. /\ Matching(db, q) = Matching(db', q)
        /\ Matching(cache, q) = Matching(cache', q)
    BY <1>1
  <1>6. Watched(c)'
    BY <1>1, <1>2, <1>4, <1>5 DEF ClientMatches, Watched
  <1>7. SitesMatch(c)' /\ CandidatesMatch(c)'
    BY <1>1, <1>2, <1>4 DEF ClientMatches, SitesMatch, CandidatesMatch
  <1>8. QED
    BY <1>1, <1>6, <1>7, OneLookupMatches DEF ClientMatches

(* The choice of candidates, from a place where the hosts that matched all *)
(* along still match, if it is done in the datastore or finds something.   *)
LEMMA ChooseMatches ==
    ASSUME TypeOK, LookupsMatch, NEW c \in Clients, lookup[c].pc # "idle",
           UNCHANGED <<steady, seen>>,
           NEW table \in Table, NEW hosts \in SUBSET Present(table),
           Choose(c, hosts, table),
           hosts \subseteq seen[c],
           \A h \in hosts : OnlineIn(table[h], lookup[c].query.family),
           SteadyInBoth(c) \subseteq hosts,
           steady[c].stored \subseteq hosts \/ hosts # {}
    PROVE  LookupsMatch'
  <1> DEFINE q == lookup[c].query
  <1>1. PICK kept \in SUBSET hosts :
            /\ OneHostPerSite(kept, hosts, table)
            /\ SetLookup(c, [lookup[c] EXCEPT !.pc = "answer",
                                              !.entities = table,
                                              !.candidates = kept])
    BY DEF Choose
  <1> DEFINE r == [lookup[c] EXCEPT !.pc = "answer", !.entities = table,
                                    !.candidates = kept]
  <1>2. ClientMatches(c)
    BY DEF LookupsMatch, ClientMatches
  <1>3. lookup'[c] = r /\ lookup[c] \in Lookup
    BY <1>1 DEF SetLookup, TypeOK
  <1>4. /\ lookup'[c].pc = "answer" /\ lookup'[c].query = q
        /\ lookup'[c].response = lookup[c].response
        /\ lookup'[c].entities = table /\ lookup'[c].candidates = kept
    BY <1>3 DEF Lookup
  <1>5. /\ Matching(db, q) = Matching(db', q)
        /\ Matching(cache, q) = Matching(cache', q)
    BY <1>1 DEF SetLookup, listing
  <1>6. Watched(c)'
    BY <1>2, <1>4, <1>5 DEF ClientMatches, Watched
  <1>7. SitesMatch(c)'
    BY <1>4 DEF SitesMatch
  <1>8. /\ kept \subseteq hosts
        /\ \A h \in hosts : \E k \in kept : SiteOf[k] = SiteOf[h]
        /\ \A h, k \in kept : SiteOf[h] = SiteOf[k] => h = k
    <2>1. hosts \in SUBSET Hosts
      BY DEF Present
    <2>2. QED  BY <1>1, <2>1, OneOfEachSite
  <1>9. CandidatesMatch(c)'
    <2>1. kept = {} => steady[c].stored = {}
      BY <1>8
    <2>2. \A h \in SteadyInBoth(c) : \E k \in kept : SiteOf[k] = SiteOf[h]
      BY <1>8
    <2>3. SteadyInBoth(c)' = SteadyInBoth(c)
      BY DEF SteadyInBoth
    <2>4. QED  BY <1>4, <1>8, <2>1, <2>2, <2>3 DEF CandidatesMatch
  <1>10. QED
    BY <1>1, <1>6, <1>7, <1>9, OneLookupMatches DEF ClientMatches

LEMMA FetchMemcacheMatches ==
    ASSUME TypeOK, LookupsMatch, NEW c \in Clients, FetchMemcache(c)
    PROVE  LookupsMatch'
  <1> DEFINE q == lookup[c].query
             table == Fetched(cache, q)
             hosts == FilterByCountry(FilterByStatus(table, q), q)
  <1>1. /\ lookup[c].pc = "memcache" /\ hosts # {}
        /\ Choose(c, hosts, table) /\ UNCHANGED <<steady, seen>>
    BY DEF FetchMemcache
  <1>2. q \in Query /\ table \in Table
    BY <1>1, TypeOfClient, FetchedType DEF TypeOK, ListingTypeOK
  <1>3. ClientMatches(c) /\ q.policy # "metro"
    BY <1>1 DEF LookupsMatch, ClientMatches, SitesMatch
  <1>4. hosts = Matching(cache, q)
    BY <1>3 DEF Matching, FilterByCountry, FilterByStatus
  <1>5. /\ hosts \subseteq Present(table)
        /\ \A h \in hosts : OnlineIn(table[h], q.family)
    BY DEF FilterByCountry, FilterByStatus
  <1>6. /\ hosts \subseteq seen[c]
        /\ SteadyInBoth(c) \subseteq hosts
    BY <1>1, <1>3, <1>4 DEF ClientMatches, Watched, SteadyInBoth
  <1> HIDE DEF hosts, table
  <1>7. QED  BY <1>1, <1>2, <1>5, <1>6, ChooseMatches

LEMMA FetchDatastoreMatches ==
    ASSUME TypeOK, LookupsMatch, NEW c \in Clients, FetchDatastore(c)
    PROVE  LookupsMatch'
  <1> DEFINE q == lookup[c].query
             table == Fetched(db, q)
             hosts == {h \in FilterByCountry(FilterByStatus(table, q), q) :
                          q.policy = "metro" =>
                              SiteOf[h] \in lookup[c].siteIds}
  <1>1. /\ lookup[c].pc = "datastore"
        /\ Choose(c, hosts, table) /\ UNCHANGED <<steady, seen>>
    BY DEF FetchDatastore
  <1>2. q \in Query /\ table \in Table
    BY <1>1, TypeOfClient, FetchedType DEF TypeOK, ListingTypeOK
  <1>3. ClientMatches(c)
    BY DEF LookupsMatch, ClientMatches
  <1>4. hosts \subseteq Matching(db, q)
    BY <1>1, <1>3 DEF ClientMatches, SitesMatch, Matching, FilterByCountry,
                      FilterByStatus
  <1>5. steady[c].stored \subseteq hosts
    BY <1>1, <1>3 DEF ClientMatches, SitesMatch, Watched, Matching,
                      FilterByCountry, FilterByStatus
  <1>6. /\ hosts \subseteq Present(table)
        /\ \A h \in hosts : OnlineIn(table[h], q.family)
    BY DEF FilterByCountry, FilterByStatus
  <1>7. /\ hosts \subseteq seen[c]
        /\ SteadyInBoth(c) \subseteq hosts
    BY <1>1, <1>3, <1>4, <1>5 DEF ClientMatches, Watched, SteadyInBoth
  <1> HIDE DEF hosts, table
  <1>8. QED  BY <1>1, <1>2, <1>5, <1>6, <1>7, ChooseMatches

(* A lookup that has ended promises nothing about what it was finding.     *)
LEMMA FinishMatches ==
    ASSUME TypeOK, LookupsMatch, NEW c \in Clients, NEW response,
           Finish(c, response)
    PROVE  LookupsMatch'
  <1> DEFINE r == [IdleLookup EXCEPT !.query = lookup[c].query,
                                     !.response = response]
  <1>1. SetLookup(c, r) /\ UNCHANGED <<steady, seen>>
    BY DEF Finish
  <1>2. lookup'[c] = r /\ r.pc = "idle"
    BY <1>1 DEF SetLookup, TypeOK, IdleLookup
  <1>3. ClientMatches(c)'
    BY <1>2 DEF ClientMatches, Watched, SitesMatch, CandidatesMatch
  <1>4. QED  BY <1>1, <1>3, OneLookupMatches

LEMMA LookupStepMatches ==
    ASSUME TypeOK, LookupsMatch, NEW c \in Clients, LookupStep(c)
    PROVE  LookupsMatch'
  <1>1. CASE \/ AnswerNone(c) \/ SendJsonResponse(c) \/ SendBtResponse(c)
             \/ SendHtmlResponse(c) \/ SendRedirectResponse(c)
             \/ SendMapResponse(c) \/ LookupFails(c)
    BY <1>1, RespondStepType, FinishMatches
  <1>2. QED
    BY <1>1, LookupStartMatches, FindSiteIdsMatches, FetchMemcacheMatches,
       FallBackMatches, FetchDatastoreMatches DEF LookupStep

(* What a lookup has found so far, at every step of it and whatever the    *)
(* listing did meanwhile, fits what matched all along and what ever did.   *)
THEOREM LookupsAlwaysMatch == Spec => []LookupsMatch
  <1>1. Init => LookupsMatch
    BY NoEntitiesType
       DEF Init, LookupsMatch, ListingInit, SliversHaveSites, IdleLookup,
           Watched, SitesMatch, CandidatesMatch
  <1>2. TypeOK /\ LookupsMatch /\ [Next]_vars => LookupsMatch'
    <2> SUFFICES ASSUME TypeOK, LookupsMatch, [Next]_vars PROVE LookupsMatch'
      OBVIOUS
    <2>1. CASE UNCHANGED vars
      <3>1. /\ UNCHANGED <<sites, db, cache>>
            /\ \A d \in Clients : /\ lookup'[d] = lookup[d]
                                  /\ steady'[d] = steady[d]
                                  /\ seen'[d] = seen[d]
        BY <2>1 DEF vars, listing
      <3>2. \A d \in Clients : ClientMatches(d)'
        BY <3>1, OthersMatch
      <3>3. QED
        BY <3>1, <3>2 DEF LookupsMatch, SliversHaveSites, ClientMatches
    <2>2. CASE Next
      BY <2>2, CronJobsMatch, LookupStepMatches DEF Next
    <2>3. QED  BY <2>1, <2>2
  <1>3. QED  BY <1>1, <1>2, LookupsTypeCorrect, PTL DEF Spec

-----------------------------------------------------------------------------
(* What a lookup promises.  The response is written in the last step, when *)
(* LookupsMatch says what its candidates are; before, there is none.       *)

Promises(c) == /\ FindsSteadySliver(c) /\ AnswerMatches(c)
               /\ AnswersNearest(c) /\ AnswersAllSites(c)

(* What a step that responds leaves behind.                                *)
LEMMA Finished ==
    ASSUME TypeOK, NEW c \in Clients, NEW response, Finish(c, response)
    PROVE  /\ lookup'[c].query = lookup[c].query
           /\ lookup'[c].response = response
           /\ UNCHANGED <<steady, seen>>
           /\ SteadyInBoth(c)' = SteadyInBoth(c)
  <1>1. lookup'[c] = [IdleLookup EXCEPT !.query = lookup[c].query,
                                        !.response = response]
    BY DEF Finish, SetLookup, TypeOK
  <1>2. UNCHANGED <<steady, seen>>
    BY DEF Finish
  <1>3. QED  BY <1>1, <1>2 DEF IdleLookup, SteadyInBoth

LEMMA NothingPromised ==
    ASSUME NEW c \in Clients,
           lookup'[c].response \in {Respond("none", {}), Respond("error", {}),
                                   Respond("not_found", {})}
    PROVE  Promises(c)'
  BY DEF Promises, FindsSteadySliver, AnswersNothing, AnswerMatches,
         AnswersNearest, AnswersAllSites, Respond

(* What is known of a lookup that answers.                                 *)
LEMMA Answering ==
    ASSUME TypeOK, LookupsMatch, NEW c \in Clients, lookup[c].pc = "answer"
    PROVE  /\ lookup[c].query \in Query
           /\ lookup[c].candidates \in SUBSET Hosts
           /\ CandidatesMatch(c)
  <1>1. lookup[c].query \in Query /\ lookup[c] \in Lookup
    BY TypeOfClient DEF ClientTypeOK
  <1>2. QED  BY <1>1 DEF Lookup, LookupsMatch

LEMMA NothingFound ==
    ASSUME TypeOK, LookupsMatch, NEW c \in Clients, lookup[c].pc = "answer",
           lookup[c].candidates = {} \/ {} \in Answers(c)
    PROVE  IF ByDistance(lookup[c].query)
           THEN \A h \in SteadyInBoth(c) : ~SurelyKept(h, lookup[c].query)
           ELSE steady[c].stored = {}
  <1> DEFINE q == lookup[c].query
  <1>1. CandidatesMatch(c) /\ q \in Query /\ lookup[c].candidates \in SUBSET Hosts
    BY Answering
  <1>2. CASE lookup[c].candidates = {}
    BY <1>1, <1>2 DEF CandidatesMatch, SteadyInBoth
  <1>3. CASE {} \in Answers(c) /\ lookup[c].candidates # {}
    <2>1. AnswerQuery({}, lookup[c].candidates, q)
      BY <1>3 DEF Answers
    <2>2. ByDistance(q) /\ \A k \in lookup[c].candidates : ~SurelyKept(k, q)
      BY <1>1, <1>3, <2>1, EmptyAnswer
    <2>3. \A h \in SteadyInBoth(c) : \E k \in lookup[c].candidates :
             SiteOf[k] = SiteOf[h]
      BY <1>1 DEF CandidatesMatch
    <2>4. QED  BY <2>2, <2>3 DEF SurelyKept
  <1>4. QED  BY <1>2, <1>3

LEMMA NoContentPromised ==
    ASSUME TypeOK, LookupsMatch, NEW c \in Clients, lookup[c].pc = "answer",
           lookup[c].candidates = {} \/ {} \in Answers(c),
           Finish(c, Respond("no_content", {}))
    PROVE  Promises(c)'
  <1>1. /\ lookup'[c].query = lookup[c].query
        /\ lookup'[c].response = Respond("no_content", {})
        /\ steady' = steady
        /\ SteadyInBoth(c)' = SteadyInBoth(c)
    BY Finished
  <1>2. FindsSteadySliver(c)'
    BY <1>1, NothingFound DEF FindsSteadySliver
  <1>3. QED
    BY <1>1, <1>2 DEF Promises, AnswerMatches, AnswersNearest,
                      AnswersAllSites, Respond

(* A steady sliver that the draws leave alone has a candidate of its site, *)
(* which is answered, or beaten by as many as are asked for.               *)
LEMMA NearestFound ==
    ASSUME TypeOK, LookupsMatch, NEW c \in Clients, lookup[c].pc = "answer",
           ByDistance(lookup[c].query),
           NEW slivers \in Answers(c),
           NEW h \in SteadyInBoth(c), SurelyKept(h, lookup[c].query)
    PROVE  \/ \E k \in slivers : SiteOf[k] = SiteOf[h]
           \/ /\ Cardinality(slivers) = Limit(lookup[c].query, "content")
              /\ \A k \in slivers : Closer(lookup[c].query, k, h)
  <1> DEFINE q == lookup[c].query
             n == Limit(q, "content")
  <1>1. /\ CandidatesMatch(c) /\ q \in Query
        /\ lookup[c].candidates \in SUBSET Hosts
    BY Answering
  <1>2. n \in Nat \ {0}
    BY OptionsAssumption DEF Limit
  <1>3. AnswerQuery(slivers, lookup[c].candidates, q)
    BY DEF Answers
  <1>4. ClosestCandidates(slivers, lookup[c].candidates, n, q)
    BY <1>3 DEF AnswerQuery, ByDistance, GeoPolicies, Limit
  <1>5. PICK k \in lookup[c].candidates : SiteOf[k] = SiteOf[h]
    BY <1>1 DEF CandidatesMatch
  <1>6. SurelyKept(k, q)
    BY <1>5 DEF SurelyKept
  <1> HIDE DEF n
  <1>7. \/ k \in slivers
        \/ /\ Cardinality(slivers) = n
           /\ \A p \in slivers : Closer(q, p, k)
    BY <1>1, <1>2, <1>4, <1>6, ClosestOfSteady
  <1>8. QED  BY <1>5, <1>7 DEF Closer, n

LEMMA SliversMatch ==
    ASSUME TypeOK, LookupsMatch, NEW c \in Clients, lookup[c].pc = "answer",
           NEW slivers \in Answers(c)
    PROVE  /\ slivers \subseteq seen[c]
           /\ \A h, k \in slivers : SiteOf[h] = SiteOf[k] => h = k
           /\ \A h \in slivers :
                 OnlineIn(lookup[c].entities[h], lookup[c].query.family)
  BY Answering, AnswersAreCandidates DEF CandidatesMatch

LEMMA ContentPromised ==
    ASSUME TypeOK, LookupsMatch, NEW c \in Clients, lookup[c].pc = "answer",
           NEW slivers \in Answers(c), NEW response, Finish(c, response),
           response.code = "content", response.slivers = slivers,
           lookup[c].query.format = "json" =>
               response.ips = JsonIPs(slivers, lookup[c].entities,
                                      lookup[c].query.family)
    PROVE  Promises(c)'
  <1> DEFINE q == lookup[c].query
             entities == lookup[c].entities
  <1>1. /\ lookup'[c].query = q /\ lookup'[c].response = response
        /\ steady' = steady /\ seen' = seen
        /\ SteadyInBoth(c)' = SteadyInBoth(c)
    BY Finished
  <1>2. FindsSteadySliver(c)'
    <2>1. CASE slivers = {}
      BY <1>1, <2>1, NothingFound DEF FindsSteadySliver
    <2>2. CASE slivers # {}
      BY <1>1, <2>2 DEF FindsSteadySliver, AnswersNothing
    <2>3. QED  BY <2>1, <2>2
  <1>3. AnswerMatches(c)'
    <2>1. ASSUME q.format = "json", NEW h \in slivers
          PROVE  \E i \in response.ips : i[1] = h /\ q.family \in {i[2], "any"}
      <3>1. PICK f \in Families : /\ q.family \in {f, "any"}
                                  /\ entities[h].status[f] = "online"
        BY SliversMatch DEF OnlineIn
      <3>2. <<h, f>> \in {i \in slivers \X Families :
                  IF q.family \in Families THEN i[2] = q.family
                  ELSE entities[i[1]].status[i[2]] = "online"}
        BY <3>1 DEF Families
      <3>3. <<h, f, entities[h].ip[f]>> \in JsonIPs(slivers, entities, q.family)
        BY <3>2 DEF JsonIPs
      <3>4. QED  BY <2>1, <3>1, <3>3
    <2>2. QED  BY <1>1, <2>1, SliversMatch DEF AnswerMatches
  <1>4. AnswersNearest(c)'
    BY <1>1, NearestFound DEF AnswersNearest
  <1>5. AnswersAllSites(c)'
    <2>1. q.policy = "all" => slivers = lookup[c].candidates
      BY DEF Answers, AnswerQuery
    <2>2. QED
      BY <1>1, <2>1, Answering DEF AnswersAllSites, CandidatesMatch
  <1>6. QED  BY <1>2, <1>3, <1>4, <1>5 DEF Promises

LEMMA RedirectPromised ==
    ASSUME TypeOK, LookupsMatch, NEW c \in Clients, lookup[c].pc = "answer",
           NEW slivers \in Answers(c), NEW first \in slivers,
           ComesFirst(first, slivers, lookup[c].query),
           Finish(c, Respond("redirect", {first}))
    PROVE  Promises(c)'
  <1> DEFINE q == lookup[c].query
  <1>1. /\ lookup'[c].query = q
        /\ lookup'[c].response = Respond("redirect", {first})
        /\ steady' = steady /\ seen' = seen
        /\ SteadyInBoth(c)' = SteadyInBoth(c)
    BY Finished
  <1>2. /\ lookup'[c].response.code = "redirect"
        /\ lookup'[c].response.slivers = {first}
    BY <1>1 DEF Respond
  <1>3. FindsSteadySliver(c)' /\ AnswersAllSites(c)'
    BY <1>2 DEF FindsSteadySliver, AnswersNothing, AnswersAllSites
  <1>4. AnswerMatches(c)'
    BY <1>1, <1>2, SliversMatch DEF AnswerMatches
  <1>5. AnswersNearest(c)'
    <2>1. SUFFICES ASSUME ByDistance(q), NEW h \in SteadyInBoth(c),
                          SurelyKept(h, q)
                   PROVE  SiteOf[first] = SiteOf[h] \/ Closer(q, first, h)
      <3>1. Cardinality({first}) = Limit(q, "redirect")
        BY FS_Singleton DEF Limit
      <3>2. QED  BY <1>1, <1>2, <3>1 DEF AnswersNearest
    <2>2. \/ \E k \in slivers : SiteOf[k] = SiteOf[h]
          \/ \A k \in slivers : Closer(q, k, h)
      BY <2>1, NearestFound
    <2>3. \A k \in slivers : Closer(q, first, k)
      BY <2>1 DEF ComesFirst, ByDistance
    <2>4. QED  BY <2>2, <2>3 DEF Closer
  <1>6. QED  BY <1>3, <1>4, <1>5 DEF Promises

Responds(c) ==
    \/ AnswerNone(c) \/ SendJsonResponse(c) \/ SendBtResponse(c)
    \/ SendHtmlResponse(c) \/ SendRedirectResponse(c)
    \/ SendMapResponse(c) \/ LookupFails(c)

LEMMA ResponsesPromised ==
    ASSUME TypeOK, LookupsMatch, NEW c \in Clients, Responds(c)
    PROVE  Promises(c)'
  <1> DEFINE r == lookup[c]
  <1>1. ASSUME NEW code \in {"error", "not_found"}, Finish(c, Respond(code, {}))
        PROVE  Promises(c)'
    BY <1>1, Finished, NothingPromised
  <1>2. CASE AnswerNone(c)
    BY <1>1, <1>2, NoContentPromised DEF AnswerNone
  <1>3. CASE SendJsonResponse(c)
    <2>1. PICK slivers \in Answers(c) :
             Finish(c, IF slivers = {} THEN Respond("no_content", {})
                       ELSE [code |-> "content", slivers |-> slivers,
                             ips |-> JsonIPs(slivers, r.entities,
                                             r.query.family)])
      BY <1>3 DEF SendJsonResponse
    <2>2. r.pc = "answer"
      BY <1>3 DEF SendJsonResponse, Responding
    <2>3. CASE slivers = {}
      BY <2>1, <2>2, <2>3, NoContentPromised
    <2>4. CASE slivers # {}
      <3> DEFINE response ==
                    [code |-> "content", slivers |-> slivers,
                     ips |-> JsonIPs(slivers, r.entities, r.query.family)]
      <3>1. Finish(c, response)
        BY <2>1, <2>4
      <3>2. QED  BY <2>2, <3>1, ContentPromised
    <2>5. QED  BY <2>3, <2>4
  <1>4. CASE SendBtResponse(c) \/ SendHtmlResponse(c)
    <2>1. r.pc = "answer" /\ r.query.format # "json" /\ SendList(c)
      BY <1>4 DEF SendBtResponse, SendHtmlResponse, Responding
    <2>2. PICK slivers \in Answers(c) : Finish(c, Respond("content", slivers))
      BY <2>1 DEF SendList
    <2>3. /\ Respond("content", slivers).code = "content"
          /\ Respond("content", slivers).slivers = slivers
      BY DEF Respond
    <2>4. QED  BY <2>1, <2>2, <2>3, ContentPromised
  <1>5. CASE SendRedirectResponse(c)
    <2>1. PICK slivers \in Answers(c) :
             IF slivers = {} THEN Finish(c, Respond("error", {}))
             ELSE IF r.query.tool \notin WebTools
             THEN Finish(c, Respond("not_found", {}))
             ELSE \E h \in slivers : /\ ComesFirst(h, slivers, r.query)
                                     /\ Finish(c, Respond("redirect", {h}))
      BY <1>5 DEF SendRedirectResponse
    <2>2. r.pc = "answer"
      BY <1>5 DEF SendRedirectResponse, Responding
    <2>3. QED  BY <1>1, <2>1, <2>2, RedirectPromised
  <1>6. CASE SendMapResponse(c) \/ LookupFails(c)
    BY <1>1, <1>6 DEF SendMapResponse, LookupFails
  <1>7. QED
    BY <1>2, <1>3, <1>4, <1>5, <1>6 DEF Responds

LEMMA LookupStepElsewhere ==
    ASSUME TypeOK, NEW c \in Clients, NEW d \in Clients \ {c}, LookupStep(d)
    PROVE  /\ lookup'[c] = lookup[c]
           /\ steady'[c] = steady[c] /\ seen'[c] = seen[c]
  <1>1. CASE Responds(d)
    <2>1. PICK response \in Responses : Finish(d, response)
      BY <1>1, RespondStepType DEF Responds
    <2>2. QED  BY <2>1 DEF Finish, SetLookup, TypeOK
  <1>2. CASE LookupStart(d)
    BY <1>2 DEF LookupStart, SetLookup, WatchFrom, TypeOK
  <1>3. CASE FindSiteIds(d) \/ FallBackToDatastore(d)
    BY <1>3 DEF FindSiteIds, FallBackToDatastore, SetLookup, TypeOK
  <1>4. CASE FetchMemcache(d) \/ FetchDatastore(d)
    BY <1>4 DEF FetchMemcache, FetchDatastore, Choose, SetLookup, TypeOK
  <1>5. QED  BY <1>1, <1>2, <1>3, <1>4 DEF LookupStep, Responds

LEMMA LookupStepHere ==
    ASSUME TypeOK, NEW c \in Clients,
           \/ LookupStart(c) \/ FindSiteIds(c) \/ FallBackToDatastore(c)
           \/ FetchMemcache(c) \/ FetchDatastore(c)
    PROVE  lookup'[c].pc # "idle"
  <1>1. lookup[c] \in Lookup
    BY DEF TypeOK
  <1>2. CASE LookupStart(c)
    BY <1>2 DEF LookupStart, SetLookup, FirstStep, IdleLookup, TypeOK
  <1>3. CASE FindSiteIds(c) \/ FallBackToDatastore(c)
    BY <1>1, <1>3
       DEF FindSiteIds, FallBackToDatastore, SetLookup, TypeOK, Lookup
  <1>4. CASE FetchMemcache(c) \/ FetchDatastore(c)
    BY <1>1, <1>4
       DEF FetchMemcache, FetchDatastore, Choose, SetLookup, TypeOK, Lookup
  <1>5. QED  BY <1>2, <1>3, <1>4

(* In any other step the lookup keeps its response, or has none.           *)
LEMMA StepPromised ==
    ASSUME TypeOK, LookupsMatch, LookupsMatch', [Next]_vars,
           NEW c \in Clients, Promises(c)
    PROVE  Promises(c)'
  <1>1. CASE lookup'[c].pc # "idle"
    BY <1>1, NothingPromised DEF LookupsMatch, Watched
  <1>2. ASSUME lookup'[c].pc = "idle", ~Responds(c)
        PROVE  /\ lookup'[c] = lookup[c]
               /\ steady'[c] = steady[c] /\ seen'[c] = seen[c]
    <2>1. CASE UNCHANGED vars
      BY <2>1 DEF vars
    <2>2. CASE CronJobs
      BY <1>2, <2>2 DEF CronJobs, Watch, TypeOK
    <2>3. CASE \E d \in Clients \ {c} : LookupStep(d)
      BY <2>3, LookupStepElsewhere
    <2>4. CASE LookupStep(c)
      BY <1>2, <2>4, LookupStepHere DEF LookupStep, Responds
    <2>5. QED  BY <2>1, <2>2, <2>3, <2>4 DEF Next
  <1>3. CASE /\ lookup'[c] = lookup[c]
             /\ steady'[c] = steady[c] /\ seen'[c] = seen[c]
    BY <1>3 DEF Promises, FindsSteadySliver, AnswerMatches, AnswersNearest,
                AnswersAllSites, SteadyInBoth
  <1>4. QED  BY <1>1, <1>2, <1>3, ResponsesPromised

(* Every response of get, once written, keeps the four promises below,     *)
(* whatever the listing becomes.                                           *)
THEOREM PromisesKept == Spec => [](\A c \in Clients : Promises(c))
  <1>1. Init => \A c \in Clients : Promises(c)
    BY DEF Init, IdleLookup, Promises, FindsSteadySliver, AnswersNothing,
           AnswerMatches, AnswersNearest, AnswersAllSites, Respond
  <1>2. TypeOK /\ LookupsMatch /\ LookupsMatch' /\ [Next]_vars
            /\ (\A c \in Clients : Promises(c))
        => (\A c \in Clients : Promises(c))'
    BY StepPromised
  <1>3. QED
    BY <1>1, <1>2, LookupsTypeCorrect, LookupsAlwaysMatch, PTL DEF Spec

(* A lookup never says that there is no capacity while one sliver matches  *)
(* its query in the datastore all along.                                   *)
THEOREM CapacityNotDenied == Spec => []SteadySliverFound
  <1>1. (\A c \in Clients : Promises(c)) => SteadySliverFound
    BY DEF Promises, SteadySliverFound
  <1>2. QED  BY <1>1, PromisesKept, PTL

(* An answer holds only slivers that matched during the lookup, one of a   *)
(* site, each with an address of the family asked for.                     *)
THEOREM AnswersAreMatches == Spec => []AnswersMatchQuery
  <1>1. (\A c \in Clients : Promises(c)) => AnswersMatchQuery
    BY DEF Promises, AnswersMatchQuery
  <1>2. QED  BY <1>1, PromisesKept, PTL

(* The geo policies answer the nearest of the sites that matched all along *)
THEOREM NearestAnswered == Spec => []NearestSteadySites
  <1>1. (\A c \in Clients : Promises(c)) => NearestSteadySites
    BY DEF Promises, NearestSteadySites
  <1>2. QED  BY <1>1, PromisesKept, PTL

(* Policy all answers every site that matched all along.                   *)
THEOREM NoSiteLeftOut == Spec => []AllSitesAnswered
  <1>1. (\A c \in Clients : Promises(c)) => AllSitesAnswered
    BY DEF Promises, AllSitesAnswered
  <1>2. QED  BY <1>1, PromisesKept, PTL
=============================================================================
