---------------------------- MODULE ServiceProofs ----------------------------
(***************************************************************************)
(* Proofs about the whole service, for every number of tools, hosts, jobs, *)
(* clients and viewers: it implements the lookups as they were specified   *)
(* over a listing, and so keeps their promises; what it answers was said   *)
(* by monitoring and hostnames.json; and what the readers hold has its     *)
(* type.                                                                   *)
(***************************************************************************)
EXTENDS Service, SliverDirectoryListing

(* The readers change nothing.                                             *)
LEMMA DirectoryGoesOn == [ServiceNext]_serviceVars => [Next]_vars
  BY DEF ServiceNext, DirectoryStep, ClientStep, ViewerStep, serviceVars

LEMMA ServiceIsADirectory == ServiceSpec => Spec
  <1>1. ServiceInit => Init
    BY DEF ServiceInit
  <1>2. QED  BY <1>1, DirectoryGoesOn, PTL DEF ServiceSpec, Spec

LEMMA LookupsGoOn ==
    TypeOK /\ AllVouched /\ SitesFirst /\ [ServiceNext]_serviceVars
        => [L!Next]_(L!vars)
  <1> SUFFICES ASSUME TypeOK, AllVouched, SitesFirst,
                      [ServiceNext]_serviceVars
               PROVE  [L!Next]_(L!vars)
    OBVIOUS
  <1>1. ASSUME UNCHANGED vars PROVE UNCHANGED L!listing
    BY <1>1 DEF vars, L!listing, Registered
  <1>2. CASE DirectoryStep
    <2>1. [Listing!ListingNext]_(Listing!listing)
      BY <1>2, StepListed DEF DirectoryStep
    <2>2. [L!ListingNext]_(L!listing)
      BY <2>1 DEF Listing!ListingNext, Listing!listing, Listing!RegisterASite,
                  Listing!StoreSlivers, Listing!RefreshMemcache,
                  Listing!Present, L!ListingNext, L!listing,
                  L!RegisterASite, L!StoreSlivers, L!RefreshMemcache,
                  L!Present
    <2>3. QED  BY <1>2, <2>2 DEF DirectoryStep, L!CronJobs, L!Next
  <1>3. CASE \E c \in Clients : ClientStep(c)
    BY <1>3 DEF ClientStep, L!Next
  <1>4. CASE \E v \in Viewers : ViewerStep(v)
    BY <1>1, <1>4 DEF ViewerStep, L!vars
  <1>5. CASE UNCHANGED serviceVars
    BY <1>1, <1>5 DEF serviceVars, readers, L!vars
  <1>6. QED  BY <1>2, <1>3, <1>4, <1>5 DEF ServiceNext

(* The lookups of the whole service are lookups over a listing as Lookups  *)
(* specifies them, and so all that is proved there holds here.             *)
THEOREM ServiceImplementsLookups == ServiceSpec => L!Spec
  <1>1. ServiceInit => L!Init
    BY DEF ServiceInit, Init, L!Init, L!ListingInit, NoSites, NoSlivers,
           NoEntities, L!NoEntities, Registered
  <1>2. QED
    BY <1>1, LookupsGoOn, ServiceIsADirectory, TypeCorrect,
       EverythingVouched, SitesBeforeSlivers, PTL DEF ServiceSpec, L!Spec

-----------------------------------------------------------------------------
(* What the readers have in hand was said by monitoring and hostnames.json *)
(* when the jobs read it, and so ever after.                               *)

OnlineSaid(h, q) ==
    \E f \in Families : q.family \in {f, "any"} /\ <<q.tool, h, f>> \in reported

AddressesSaid(h, entity) ==
    \A f \in Families :
        entity.ip[f] # NoAddress => <<h, f, entity.ip[f]>> \in published

LookupFields == DOMAIN L!IdleLookup

LookupVouched(r) ==
    /\ DOMAIN r = LookupFields
    /\ r.pc = "answer" => \A h \in r.candidates :
           OnlineSaid(h, r.query) /\ AddressesSaid(h, r.entities[h])
    /\ \A h \in r.response.slivers : OnlineSaid(h, r.query)
    /\ \A i \in r.response.ips : i[3] # NoAddress => i \in published

LookupsVouched ==
    /\ DOMAIN lookup = Clients
    /\ \A c \in Clients : LookupVouched(lookup[c])

(* Nothing said is forgotten.                                              *)
LEMMA NothingForgotten ==
    [Next]_vars => reported \subseteq reported' /\ published \subseteq published'
  <1> SUFFICES ASSUME [Next]_vars
               PROVE  reported \subseteq reported' /\ published \subseteq published'
    OBVIOUS
  <1>1. CASE \E w \in StatusWorkers : StatusProgress(w) \/ StatusFailure(w)
    BY <1>1 DEF StatusProgress, StatusFailure, StatusStart, QueryMonitoring,
                SkipTurn, FetchSliverTools, PutStatuses, SetMemcache,
                PutStatusesFails, SetMemcacheFails, StatusCrash
  <1>2. CASE \E w \in SiteWorkers : SiteProgress(w) \/ SiteFailure(w)
    BY <1>2 DEF SiteProgress, SiteFailure, SiteStart, RegisterSite,
                FetchHostnames, ReadUpFront, UpdateSliverTool, SiteDone,
                RegisterSiteFails, UpdateSliverToolFails, SiteCrash
  <1>3. CASE Environment
    BY <1>3 DEF Environment, ChangeMonitor, ChangeHostnames, ChangeSiteinfo,
                EvictMemcache, inside
  <1>4. CASE UNCHANGED vars
    BY <1>4 DEF vars
  <1>5. QED  BY <1>1, <1>2, <1>3, <1>4 DEF Next

LEMMA VouchedForGood ==
    ASSUME NEW r, LookupVouched(r),
           reported \subseteq reported', published \subseteq published'
    PROVE  /\ DOMAIN r = LookupFields
           /\ r.pc = "answer" => \A h \in r.candidates :
                  OnlineSaid(h, r.query)' /\ AddressesSaid(h, r.entities[h])'
           /\ \A h \in r.response.slivers : OnlineSaid(h, r.query)'
           /\ \A i \in r.response.ips : i[3] # NoAddress => i \in published'
  BY DEF LookupVouched, OnlineSaid, AddressesSaid

LEMMA JobsVouch ==
    ASSUME LookupsVouched, [Next]_vars, UNCHANGED lookup
    PROVE  LookupsVouched'
  <1>1. reported \subseteq reported' /\ published \subseteq published'
    BY NothingForgotten
  <1>2. ASSUME NEW c \in Clients PROVE LookupVouched(lookup[c])'
    <2>1. LookupVouched(lookup[c]) /\ lookup'[c] = lookup[c]
      BY DEF LookupsVouched
    <2>2. QED  BY <1>1, <2>1 DEF LookupVouched, OnlineSaid, AddressesSaid,
                                 LookupFields
  <1>3. QED  BY <1>2 DEF LookupsVouched

(* A step of one lookup makes it new, and need only vouch for that.        *)
LEMMA SetLookupVouches ==
    ASSUME LookupsVouched, UNCHANGED <<reported, published>>,
           NEW c \in Clients, NEW new, L!SetLookup(c, new), LookupVouched(new)
    PROVE  LookupsVouched'
  <1>1. lookup' = [lookup EXCEPT ![c] = new]
    BY DEF L!SetLookup
  <1>2. ASSUME NEW d \in Clients PROVE LookupVouched(lookup[d])'
    <2>1. LookupVouched(lookup'[d])
      BY <1>1 DEF LookupsVouched
    <2>2. QED  BY <2>1 DEF LookupVouched, OnlineSaid, AddressesSaid,
                           LookupFields
  <1>3. QED  BY <1>1, <1>2 DEF LookupsVouched

(* The lookup that goes on without candidates keeps its fields.            *)
LEMMA GoOnVouches ==
    ASSUME LookupsVouched, NEW c \in Clients,
           NEW pc, pc # "answer", NEW ids
    PROVE  /\ LookupVouched([lookup[c] EXCEPT !.pc = pc])
           /\ LookupVouched([lookup[c] EXCEPT !.pc = pc, !.siteIds = ids])
  <1> DEFINE r == lookup[c]
             one == [r EXCEPT !.pc = pc]
             two == [r EXCEPT !.pc = pc, !.siteIds = ids]
  <1>1. LookupVouched(r) /\ DOMAIN r = LookupFields
    BY DEF LookupsVouched, LookupVouched
  <1>2. "pc" \in LookupFields
    BY DEF LookupFields, L!IdleLookup
  <1> HIDE DEF r
  <1>3. /\ DOMAIN one = LookupFields /\ DOMAIN two = LookupFields
        /\ one.pc = pc /\ two.pc = pc
        /\ one.query = r.query /\ two.query = r.query
        /\ one.response = r.response /\ two.response = r.response
    BY <1>1, <1>2 DEF LookupFields, L!IdleLookup
  <1> HIDE DEF one, two
  <1>4. LookupVouched(one) /\ LookupVouched(two)
    BY <1>1, <1>3 DEF LookupVouched
  <1>5. QED  BY <1>4 DEF one, two, r

(* A finished lookup vouches for its response.                             *)
LEMMA FinishVouches ==
    ASSUME LookupsVouched, UNCHANGED <<reported, published>>,
           NEW c \in Clients, NEW response, L!Finish(c, response),
           \A h \in response.slivers : OnlineSaid(h, lookup[c].query),
           \A i \in response.ips : i[3] # NoAddress => i \in published
    PROVE  LookupsVouched'
  <1> DEFINE new == [L!IdleLookup EXCEPT !.query = lookup[c].query,
                                         !.response = response]
  <1>1. L!SetLookup(c, new)
    BY DEF L!Finish
  <1>2. /\ DOMAIN new = LookupFields /\ new.pc = "idle"
        /\ new.query = lookup[c].query /\ new.response = response
    BY DEF LookupFields, L!IdleLookup
  <1> HIDE DEF new
  <1>3. LookupVouched(new)
    BY <1>2 DEF LookupVouched
  <1>4. QED  BY <1>1, <1>3, SetLookupVouches

(* The tables of datastore and memcache vouch for what is chosen of them.  *)
LEMMA ChooseVouches ==
    ASSUME LookupsVouched, AllVouched, UNCHANGED <<reported, published>>,
           NEW c \in Clients, NEW table,
           \/ table = L!Fetched(db, lookup[c].query)
           \/ table = L!Fetched(cache, lookup[c].query),
           NEW hosts, L!Choose(c, hosts, table),
           hosts \subseteq L!FilterByStatus(table, lookup[c].query)
    PROVE  LookupsVouched'
  <1> DEFINE q == lookup[c].query
  <1>1. PICK kept \in SUBSET hosts :
           L!SetLookup(c, [lookup[c] EXCEPT !.pc = "answer",
                               !.entities = table, !.candidates = kept])
    BY DEF L!Choose
  <1> DEFINE r == lookup[c]
             new == [r EXCEPT !.pc = "answer", !.entities = table,
                              !.candidates = kept]
  <1>2. ASSUME NEW h \in kept
        PROVE  OnlineSaid(h, q) /\ AddressesSaid(h, table[h])
    <2>1. h \in Present(table) /\ L!OnlineIn(table[h], q.family)
      BY DEF L!FilterByStatus, L!Present, Present
    <2>2. q.tool \in Tools
      BY <2>1 DEF L!Fetched, L!NoEntities, Present
    <2>3. /\ OnlineReported(q.tool, table, reported)
          /\ AddressPublished(table, published)
      BY <2>2 DEF AllVouched, Vouched, L!Fetched
    <2> HIDE DEF q
    <2>4. OnlineSaid(h, q)
      BY <2>1, <2>3 DEF L!OnlineIn, Families, L!Families, OnlineReported, OnlineSaid
    <2>5. AddressesSaid(h, table[h])
      BY <2>1, <2>3 DEF AddressPublished, AddressesSaid
    <2>6. QED  BY <2>4, <2>5
  <1>3. LookupVouched(r) /\ DOMAIN r = LookupFields
    BY DEF LookupsVouched, LookupVouched
  <1> HIDE DEF r, q
  <1>4. /\ DOMAIN new = LookupFields /\ new.pc = "answer"
        /\ new.query = r.query /\ new.response = r.response
        /\ new.entities = table /\ new.candidates = kept
    BY <1>3 DEF LookupFields, L!IdleLookup
  <1> HIDE DEF new
  <1>5. r.query = q
    BY DEF q, r
  <1>6. LookupVouched(new)
    BY <1>2, <1>3, <1>4, <1>5 DEF LookupVouched
  <1>7. QED
    BY <1>1, <1>6, SetLookupVouches DEF new, r

LEMMA LookupStartVouches ==
    ASSUME LookupsVouched, UNCHANGED <<reported, published>>,
           NEW c \in Clients, L!LookupStart(c)
    PROVE  LookupsVouched'
  <1>1. PICK q : L!SetLookup(c, [L!IdleLookup EXCEPT !.pc = L!FirstStep(q),
                                                     !.query = q])
    BY DEF L!LookupStart
  <1> DEFINE new == [L!IdleLookup EXCEPT !.pc = L!FirstStep(q), !.query = q]
  <1>2. /\ DOMAIN new = LookupFields /\ new.candidates = {}
        /\ new.response = L!Respond("none", {})
    BY DEF LookupFields, L!IdleLookup
  <1> HIDE DEF new
  <1>3. LookupVouched(new)
    BY <1>2 DEF LookupVouched, L!Respond
  <1>4. QED  BY <1>1, <1>3, SetLookupVouches DEF new

(* The answer is a part of the candidates.                                 *)
LEMMA AnswersVouch ==
    ASSUME LookupsVouched, NEW c \in Clients, lookup[c].pc = "answer",
           NEW slivers \in L!Answers(c)
    PROVE  \A h \in slivers : /\ OnlineSaid(h, lookup[c].query)
                              /\ AddressesSaid(h, lookup[c].entities[h])
  BY DEF LookupsVouched, LookupVouched, L!Answers

LEMMA ResponsesVouch ==
    ASSUME LookupsVouched, UNCHANGED <<reported, published>>,
           NEW c \in Clients,
           \/ L!AnswerNone(c) \/ L!SendJsonResponse(c)
           \/ L!SendBtResponse(c) \/ L!SendHtmlResponse(c)
           \/ L!SendRedirectResponse(c) \/ L!SendMapResponse(c)
           \/ L!LookupFails(c)
    PROVE  LookupsVouched'
  <1> DEFINE q == lookup[c].query
  <1>0. ASSUME NEW code, NEW slivers,
               \A h \in slivers : OnlineSaid(h, q),
               L!Finish(c, L!Respond(code, slivers))
        PROVE  LookupsVouched'
    BY <1>0, FinishVouches DEF L!Respond
  <1>1. CASE L!AnswerNone(c) \/ L!SendMapResponse(c) \/ L!LookupFails(c)
    <2>1. \E code : L!Finish(c, L!Respond(code, {}))
      BY <1>1 DEF L!AnswerNone, L!SendMapResponse, L!LookupFails
    <2>2. QED  BY <2>1, <1>0
  <1>2. CASE L!SendBtResponse(c) \/ L!SendHtmlResponse(c)
    <2>1. PICK slivers \in L!Answers(c) :
             L!Finish(c, L!Respond("content", slivers))
      BY <1>2 DEF L!SendBtResponse, L!SendHtmlResponse, L!SendList
    <2>2. lookup[c].pc = "answer"
      BY <1>2 DEF L!SendBtResponse, L!SendHtmlResponse, L!Responding
    <2>3. QED  BY <1>0, <2>1, <2>2, AnswersVouch
  <1>3. CASE L!SendRedirectResponse(c)
    <2>1. PICK slivers \in L!Answers(c) :
             \/ \E code : L!Finish(c, L!Respond(code, {}))
             \/ \E h \in slivers : \E code :
                     L!Finish(c, L!Respond(code, {h}))
      BY <1>3 DEF L!SendRedirectResponse
    <2>2. lookup[c].pc = "answer"
      BY <1>3 DEF L!SendRedirectResponse, L!Responding
    <2>3. \A h \in slivers : OnlineSaid(h, q)
      BY <2>2, AnswersVouch
    <2>4. ASSUME NEW code, L!Finish(c, L!Respond(code, {}))
          PROVE  LookupsVouched'
      BY <1>0, <2>4
    <2>5. ASSUME NEW h \in slivers, NEW code,
                 L!Finish(c, L!Respond(code, {h}))
          PROVE  LookupsVouched'
      <3>1. \A k \in {h} : OnlineSaid(k, q)
        BY <2>3
      <3>2. QED  BY <1>0, <2>5, <3>1
    <2>6. QED  BY <2>1, <2>4, <2>5
  <1>4. CASE L!SendJsonResponse(c)
    <2> DEFINE ips(slivers) ==
                  L!JsonIPs(slivers, lookup[c].entities, q.family)
               full(slivers) == [code |-> "content", slivers |-> slivers,
                                 ips |-> ips(slivers)]
    <2>1. PICK slivers \in L!Answers(c) :
             L!Finish(c, L!Respond("no_content", {}))
             \/ L!Finish(c, full(slivers))
      BY <1>4 DEF L!SendJsonResponse
    <2>2. \A h \in slivers : /\ OnlineSaid(h, q)
                             /\ AddressesSaid(h, lookup[c].entities[h])
      BY <1>4, AnswersVouch DEF L!SendJsonResponse, L!Responding
    <2>3. ASSUME NEW i \in ips(slivers), i[3] # NoAddress
          PROVE  i \in published
      <3> DEFINE Address(s) == lookup[c].entities[s[1]].ip[s[2]]
      <3>1. PICK s \in slivers \X Families : i = <<s[1], s[2], Address(s)>>
        BY DEF L!JsonIPs, L!Families, Families
      <3>2. i[3] = Address(s)
        BY <3>1
      <3>3. s[1] \in slivers /\ s[2] \in Families
        OBVIOUS
      <3>4. i[3] # NoAddress => <<s[1], s[2], Address(s)>> \in published
        BY <2>2, <3>2, <3>3 DEF AddressesSaid
      <3>5. QED  BY <2>3, <3>1, <3>4
    <2>4. CASE L!Finish(c, full(slivers))
      <3>1. full(slivers).slivers = slivers /\ full(slivers).ips = ips(slivers)
        OBVIOUS
      <3> HIDE DEF full, ips
      <3>2. QED  BY <2>2, <2>3, <2>4, <3>1, FinishVouches
    <2>5. CASE L!Finish(c, L!Respond("no_content", {}))
      BY <1>0, <2>5
    <2>6. QED  BY <2>1, <2>4, <2>5
  <1>5. QED  BY <1>1, <1>2, <1>3, <1>4

LEMMA ServiceStepVouches ==
    LookupsVouched /\ AllVouched /\ [ServiceNext]_serviceVars
        => LookupsVouched'
  <1> SUFFICES ASSUME LookupsVouched, AllVouched, [ServiceNext]_serviceVars
               PROVE  LookupsVouched'
    OBVIOUS
  <1>1. CASE UNCHANGED lookup
    BY <1>1, DirectoryGoesOn, JobsVouch
  <1>2. ASSUME NEW c \in Clients, ClientStep(c) PROVE LookupsVouched'
    <2>1. UNCHANGED <<reported, published>>
      BY <1>2 DEF ClientStep, vars
    <2>2. CASE L!LookupStart(c)
      BY <2>1, <2>2, LookupStartVouches
    <2>3. CASE L!FindSiteIds(c)
      BY <2>1, <2>3, GoOnVouches, SetLookupVouches DEF L!FindSiteIds
    <2>4. CASE L!FallBackToDatastore(c)
      BY <2>1, <2>4, GoOnVouches, SetLookupVouches DEF L!FallBackToDatastore
    <2> DEFINE q == lookup[c].query
    <2>5. CASE L!FetchMemcache(c)
      <3> DEFINE table == L!Fetched(cache, q)
                 hosts == L!FilterByCountry(L!FilterByStatus(table, q), q)
      <3>1. L!Choose(c, hosts, table)
        BY <2>5 DEF L!FetchMemcache
      <3>2. hosts \subseteq L!FilterByStatus(table, q)
        BY DEF L!FilterByCountry
      <3>3. table = L!Fetched(cache, lookup[c].query)
        OBVIOUS
      <3> HIDE DEF hosts, table
      <3>4. QED  BY <2>1, <3>1, <3>2, <3>3, ChooseVouches
    <2>6. CASE L!FetchDatastore(c)
      <3> DEFINE table == L!Fetched(db, q)
                 matching == L!FilterByCountry(L!FilterByStatus(table, q), q)
                 hosts == {h \in matching : q.policy = "metro" =>
                              SiteOf[h] \in lookup[c].siteIds}
      <3>1. L!Choose(c, hosts, table)
        BY <2>6 DEF L!FetchDatastore
      <3>2. hosts \subseteq L!FilterByStatus(table, q)
        BY DEF L!FilterByCountry
      <3>3. table = L!Fetched(db, lookup[c].query)
        OBVIOUS
      <3> HIDE DEF hosts, table
      <3>4. QED  BY <2>1, <3>1, <3>2, <3>3, ChooseVouches
    <2>7. QED
      BY <1>2, <2>1, <2>2, <2>3, <2>4, <2>5, <2>6, ResponsesVouch
      DEF ClientStep, L!LookupStep
  <1>3. QED
    BY <1>1, <1>2 DEF ServiceNext, DirectoryStep, ViewerStep, serviceVars,
                      readers

(* Whatever a lookup has in hand was said.                                 *)
THEOREM AnswersAreVouched == ServiceSpec => []LookupsVouched
  <1>1. ServiceInit => LookupsVouched
    <2> SUFFICES ASSUME ServiceInit PROVE LookupsVouched
      OBVIOUS
    <2>1. ASSUME NEW c \in Clients PROVE LookupVouched(lookup[c])
      BY DEF ServiceInit, LookupVouched, LookupFields, L!IdleLookup, L!Respond
    <2>2. QED  BY <2>1 DEF ServiceInit, LookupsVouched
  <1>2. QED
    BY <1>1, ServiceStepVouches, ServiceIsADirectory, EverythingVouched, PTL
    DEF ServiceSpec

(* However the jobs and the lookup interleave, fail or crash, a client is  *)
(* sent only to slivers that monitoring once called online, in the family  *)
(* the client asked for.                                                   *)
THEOREM AnswersOnlyReported == ServiceSpec => []AnswersWereReported
  <1>1. LookupsVouched => AnswersWereReported
    BY DEF LookupsVouched, LookupVouched, OnlineSaid, AnswersWereReported
  <1>2. QED  BY <1>1, AnswersAreVouched, PTL

(* And it is told only addresses that hostnames.json once gave for the     *)
(* host and family.                                                        *)
THEOREM AnswersOnlyPublished == ServiceSpec => []AnswersWerePublished
  <1>1. LookupsVouched => AnswersWerePublished
    BY DEF LookupsVouched, LookupVouched, AnswersWerePublished
  <1>2. QED  BY <1>1, AnswersAreVouched, PTL

-----------------------------------------------------------------------------
(* The map page.                                                           *)

PageFields == DOMAIN P!IdlePage

PagesFit ==
    /\ DOMAIN page = Viewers
    /\ \A v \in Viewers :
          /\ DOMAIN page[v] = PageFields
          /\ page[v].tools \subseteq Tools
          /\ page[v].response = "error" => page[v].pc = "idle"
    /\ PageFailsOnlyAsSitesGrow

LEMMA SitesGrow ==
    TypeOK /\ AllVouched /\ SitesFirst /\ [Next]_vars
        => Registered \subseteq Registered'
  <1> SUFFICES ASSUME TypeOK, AllVouched, SitesFirst, [Next]_vars
               PROVE  Registered \subseteq Registered'
    OBVIOUS
  <1>1. CASE Next
    BY <1>1, StepListed
    DEF Listing!ListingNext, Listing!RegisterASite, Listing!StoreSlivers,
        Listing!RefreshMemcache, Listing!listing
  <1>2. CASE UNCHANGED vars
    BY <1>2 DEF vars, Registered
  <1>3. QED  BY <1>1, <1>2

LEMMA SetPageFits ==
    ASSUME PagesFit, UNCHANGED sites, NEW v \in Viewers, NEW new,
           P!SetPage(v, new), DOMAIN new = PageFields,
           new.sites \subseteq Registered,
           new.response = "error" => new.sites # Registered,
           new.tools \subseteq Tools,
           new.response = "error" => new.pc = "idle"
    PROVE  PagesFit'
  <1>1. page' = [page EXCEPT ![v] = new]
    BY DEF P!SetPage
  <1>2. Registered' = Registered /\ PageFields' = PageFields
    BY DEF Registered, PageFields
  <1>3. \A w \in Viewers : /\ DOMAIN page'[w] = PageFields
                           /\ page'[w].tools \subseteq Tools
                           /\ page'[w].response = "error" =>
                                  page'[w].pc = "idle"
                           /\ page'[w].sites \subseteq Registered
                           /\ page'[w].response = "error" =>
                                  page'[w].sites # Registered
    BY <1>1 DEF PagesFit, PageFailsOnlyAsSitesGrow
  <1>4. QED
    BY <1>1, <1>2, <1>3 DEF PagesFit, PageFailsOnlyAsSitesGrow

LEMMA MapViewFits ==
    ASSUME PagesFit, UNCHANGED sites, NEW v \in Viewers, P!MapView(v)
    PROVE  PagesFit'
  <1>1. PICK tools \in SUBSET Tools : P!SetPage(v, [P!IdlePage EXCEPT !.pc = "sites",
                                                     !.tools = tools])
    BY DEF P!MapView
  <1> DEFINE new == [P!IdlePage EXCEPT !.pc = "sites", !.tools = tools]
  <1>2. /\ DOMAIN new = PageFields
        /\ new.sites = {} /\ new.response = "shown"
        /\ new.tools = tools
    BY DEF PageFields, P!IdlePage
  <1> HIDE DEF new
  <1>3. QED  BY <1>1, <1>2, SetPageFits DEF new

LEMMA ReadSitesFits ==
    ASSUME PagesFit, UNCHANGED sites, NEW v \in Viewers, P!ReadSites(v)
    PROVE  PagesFit'
  <1> DEFINE r == page[v]
             new == [r EXCEPT !.pc = "slivers", !.sites = Registered]
  <1>1. P!SetPage(v, new)
    BY DEF P!ReadSites
  <1>2. DOMAIN r = PageFields /\ r.tools \subseteq Tools
    BY DEF PagesFit
  <1>3. r.response # "error"
    BY DEF P!ReadSites, PagesFit
  <1> HIDE DEF r
  <1>4. /\ DOMAIN new = PageFields
        /\ new.sites = Registered /\ new.response = r.response
        /\ new.tools = r.tools
    BY <1>2 DEF PageFields, P!IdlePage
  <1> HIDE DEF new
  <1>5. QED  BY <1>1, <1>2, <1>3, <1>4, SetPageFits

(* Every sliver has its site among those registered by now; one without a  *)
(* site on the page was not registered when the page read the sites.       *)
LEMMA ReadSliversFits ==
    ASSUME PagesFit, SitesFirst, UNCHANGED sites, NEW v \in Viewers,
           P!ReadSlivers(v)
    PROVE  PagesFit'
  <1> DEFINE r == page[v]
             failed == [r EXCEPT !.pc = "idle", !.response = "error"]
             shown == \A h \in P!SliversOf(r.tools) : SiteOf[h] \in r.sites
  <1>1. P!SetPage(v, IF shown THEN P!IdlePage ELSE failed)
    BY DEF P!ReadSlivers
  <1>2. /\ DOMAIN P!IdlePage = PageFields
        /\ P!IdlePage.sites = {} /\ P!IdlePage.response = "shown"
        /\ P!IdlePage.tools = {}
    BY DEF PageFields, P!IdlePage
  <1>3. /\ DOMAIN r = PageFields /\ r.sites \subseteq Registered
        /\ r.tools \subseteq Tools
    BY DEF PagesFit, PageFailsOnlyAsSitesGrow
  <1>4. ~shown => r.sites # Registered
    BY <1>3 DEF P!SliversOf, P!Present, Present, SitesFirst, SliversHaveSites
  <1> HIDE DEF r, shown
  <1>5. /\ DOMAIN failed = PageFields /\ failed.sites = r.sites
        /\ failed.tools = r.tools /\ failed.pc = "idle"
    BY <1>3 DEF PageFields, P!IdlePage
  <1> HIDE DEF failed
  <1>6. CASE shown
    BY <1>1, <1>2, <1>6, SetPageFits
  <1>7. CASE ~shown
    BY <1>1, <1>3, <1>4, <1>5, <1>7, SetPageFits
  <1>8. QED  BY <1>6, <1>7

LEMMA ServiceStepFits ==
    TypeOK /\ AllVouched /\ SitesFirst /\ PagesFit /\ [ServiceNext]_serviceVars
        => PagesFit'
  <1> SUFFICES ASSUME TypeOK, AllVouched, SitesFirst, PagesFit,
                      [ServiceNext]_serviceVars
               PROVE  PagesFit'
    OBVIOUS
  <1>1. CASE UNCHANGED page
    <2>1. Registered \subseteq Registered' /\ PageFields' = PageFields
      BY DirectoryGoesOn, SitesGrow DEF PageFields
    <2>2. QED  BY <1>1, <2>1 DEF PagesFit, PageFailsOnlyAsSitesGrow
  <1>2. ASSUME NEW v \in Viewers, ViewerStep(v) PROVE PagesFit'
    <2>1. UNCHANGED sites
      BY <1>2 DEF ViewerStep, vars
    <2>2. QED
      BY <1>2, <2>1, MapViewFits, ReadSitesFits, ReadSliversFits
      DEF ViewerStep, P!PageStep
  <1>3. QED
    BY <1>1, <1>2 DEF ServiceNext, DirectoryStep, ClientStep, serviceVars,
                      readers

(* The map page fails only because the platform grew while it was made:    *)
(* the order of the IP update, sites before slivers, protects it.          *)
THEOREM MapPageRarelyFails == ServiceSpec => []PageFailsOnlyAsSitesGrow
  <1>1. ServiceInit => PagesFit
    BY DEF ServiceInit, P!PageInit, P!IdlePage, PageFields, PagesFit,
           PageFailsOnlyAsSitesGrow
  <1>2. PagesFit => PageFailsOnlyAsSitesGrow
    BY DEF PagesFit
  <1>3. QED
    BY <1>1, <1>2, ServiceStepFits, ServiceIsADirectory, TypeCorrect,
       EverythingVouched, SitesBeforeSlivers, PTL DEF ServiceSpec

-----------------------------------------------------------------------------
(* What the readers hold has its type, whatever table the jobs may write   *)
(* while they run.                                                         *)

ClientTyped(r) ==
    /\ r \in L!Lookup
    /\ r.pc # "idle" => r.query \in Queries
    /\ r.candidates \subseteq L!Present(r.entities)

ClientsTyped ==
    /\ lookup \in [Clients -> L!Lookup]
    /\ \A c \in Clients : ClientTyped(lookup[c])

HistoryTyped ==
    /\ steady \in [Clients -> [stored : SUBSET Hosts, cached : SUBSET Hosts]]
    /\ seen \in [Clients -> SUBSET Hosts]

(* What a query is after are hosts, and what it fetches is a table.        *)
LEMMA MatchingTyped ==
    ASSUME NEW tables, NEW q PROVE L!Matching(tables, q) \subseteq Hosts
  BY DEF L!Matching, L!Present

LEMMA FetchedTyped ==
    ASSUME TypeOK, NEW q
    PROVE  /\ L!Fetched(db, q) \in L!Table
           /\ L!Fetched(cache, q) \in L!Table
  <1>1. L!Table = Table /\ L!NoEntities \in Table
    BY DEF L!Table, L!Entity, L!Row, L!Families, L!Statuses, L!NoEntities,
           Table, Entity, Row, Families, Statuses
  <1>2. QED  BY <1>1 DEF L!Fetched, TypeOK

LEMMA IdleTyped ==
    /\ L!IdleLookup \in L!Lookup
    /\ L!IdleLookup.pc = "idle" /\ L!IdleLookup.candidates = {}
    /\ L!NoEntities \in L!Table
  BY DEF L!IdleLookup, L!Lookup, L!Respond, L!Responses, L!NoEntities, L!Table

LEMMA RespondTyped ==
    ASSUME NEW slivers \in SUBSET Hosts,
           NEW code \in {"content", "redirect", "no_content", "not_found",
                         "error"}
    PROVE  L!Respond(code, slivers) \in L!Responses
  BY DEF L!Respond, L!Responses

LEMMA SetLookupTyped ==
    ASSUME ClientsTyped, NEW c \in Clients, NEW r, ClientTyped(r),
           L!SetLookup(c, r)
    PROVE  ClientsTyped'
  <1>1. \A d \in Clients : lookup'[d] = IF d = c THEN r ELSE lookup[d]
    BY DEF L!SetLookup, ClientsTyped
  <1>2. lookup' \in [Clients -> L!Lookup]
    BY DEF L!SetLookup, ClientsTyped, ClientTyped
  <1>3. \A d \in Clients : ClientTyped(lookup'[d])
    BY <1>1 DEF ClientsTyped
  <1>4. QED  BY <1>2, <1>3 DEF ClientsTyped, ClientTyped

(* A running lookup that goes on with some of its fields changed.          *)
LEMMA GoOnTyped ==
    ASSUME ClientsTyped, NEW c \in Clients, lookup[c].pc # "idle",
           NEW table \in L!Table, NEW kept \in SUBSET L!Present(table),
           NEW ids \in SUBSET Sites
    PROVE  /\ ClientTyped([lookup[c] EXCEPT !.pc = "datastore",
                                            !.siteIds = ids])
           /\ ClientTyped([lookup[c] EXCEPT !.pc = "datastore"])
           /\ ClientTyped([lookup[c] EXCEPT !.pc = "answer",
                                            !.entities = table,
                                            !.candidates = kept])
  <1>1. ClientTyped(lookup[c]) /\ kept \subseteq Hosts
    BY DEF ClientsTyped, L!Present
  <1>2. QED  BY <1>1 DEF ClientTyped, L!Lookup

(* One that ends, with a response.                                         *)
LEMMA FinishTyped ==
    ASSUME ClientsTyped, NEW c \in Clients, lookup[c].pc # "idle",
           NEW response \in L!Responses, L!Finish(c, response)
    PROVE  ClientsTyped'
  <1> DEFINE new == [L!IdleLookup EXCEPT !.query = lookup[c].query,
                                         !.response = response]
  <1>1. lookup[c].query \in Queries
    BY DEF ClientsTyped, ClientTyped
  <1>2. ClientTyped(new)
    BY <1>1, IdleTyped DEF ClientTyped, L!IdleLookup, L!Lookup
  <1>3. QED  BY <1>2, SetLookupTyped DEF L!Finish

LEMMA ChooseTyped ==
    ASSUME ClientsTyped, NEW c \in Clients, lookup[c].pc # "idle",
           NEW table \in L!Table, NEW hosts \in SUBSET L!Present(table),
           L!Choose(c, hosts, table)
    PROVE  ClientsTyped'
  <1>1. PICK kept \in SUBSET hosts :
           L!SetLookup(c, [lookup[c] EXCEPT !.pc = "answer",
                                            !.entities = table,
                                            !.candidates = kept])
    BY Zenon DEF L!Choose
  <1>2. ClientTyped([lookup[c] EXCEPT !.pc = "answer", !.entities = table,
                                      !.candidates = kept])
    BY GoOnTyped, Zenon
  <1>3. QED  BY <1>1, <1>2, SetLookupTyped

LEMMA JsonTyped ==
    ASSUME NEW slivers \in SUBSET Hosts, NEW entities \in L!Table,
           slivers \subseteq L!Present(entities), NEW family
    PROVE  [code |-> "content", slivers |-> slivers,
            ips |-> L!JsonIPs(slivers, entities, family)] \in L!Responses
  <1>1. \A h \in slivers : entities[h] \in L!Entity
    BY DEF L!Table, L!Present
  <1>2. L!JsonIPs(slivers, entities, family)
            \subseteq Hosts \X L!Families \X (Addresses \cup {NoAddress})
    BY <1>1 DEF L!JsonIPs, L!Entity, L!Row
  <1>3. QED  BY <1>2 DEF L!Responses

(* Every way to respond gives a response.                                  *)
LEMMA ResponseTyped ==
    ASSUME ClientsTyped, NEW c \in Clients,
           \/ L!AnswerNone(c) \/ L!SendJsonResponse(c)
           \/ L!SendBtResponse(c) \/ L!SendHtmlResponse(c)
           \/ L!SendRedirectResponse(c) \/ L!SendMapResponse(c)
           \/ L!LookupFails(c)
    PROVE  /\ lookup[c].pc # "idle"
           /\ \E response \in L!Responses : L!Finish(c, response)
  <1> DEFINE r == lookup[c]
             full(slivers) ==
                 [code |-> "content", slivers |-> slivers,
                  ips |-> L!JsonIPs(slivers, r.entities, r.query.family)]
  <1>1. \A slivers \in L!Answers(c) :
           slivers \subseteq Hosts /\ slivers \subseteq L!Present(r.entities)
    BY DEF L!Answers, ClientsTyped, ClientTyped, L!Lookup
  <1>2. r.entities \in L!Table
    BY DEF ClientsTyped, L!Lookup
  <1>3. /\ L!Respond("no_content", {}) \in L!Responses
        /\ L!Respond("not_found", {}) \in L!Responses
        /\ L!Respond("error", {}) \in L!Responses
    BY RespondTyped
  <1>4. r.pc # "idle"
    BY DEF L!AnswerNone, L!SendJsonResponse, L!SendBtResponse,
           L!SendHtmlResponse, L!SendRedirectResponse, L!SendMapResponse,
           L!LookupFails, L!Responding
  <1>5. CASE L!AnswerNone(c) \/ L!SendMapResponse(c) \/ L!LookupFails(c)
    BY <1>3, <1>4, <1>5 DEF L!AnswerNone, L!SendMapResponse, L!LookupFails
  <1>6. CASE L!SendJsonResponse(c)
    <2>1. PICK slivers \in L!Answers(c) :
             L!Finish(c, IF slivers = {} THEN L!Respond("no_content", {})
                         ELSE full(slivers))
      BY <1>6 DEF L!SendJsonResponse
    <2>2. full(slivers) \in L!Responses
      BY <1>1, <1>2, JsonTyped
    <2>3. QED  BY <1>3, <1>4, <2>1, <2>2
  <1>7. CASE L!SendBtResponse(c) \/ L!SendHtmlResponse(c)
    <2>1. PICK slivers \in L!Answers(c) :
             L!Finish(c, L!Respond("content", slivers))
      BY <1>7 DEF L!SendBtResponse, L!SendHtmlResponse, L!SendList
    <2>2. QED  BY <1>1, <1>4, <2>1, RespondTyped
  <1>8. CASE L!SendRedirectResponse(c)
    <2>1. PICK slivers \in L!Answers(c) :
             \/ L!Finish(c, L!Respond("error", {}))
             \/ L!Finish(c, L!Respond("not_found", {}))
             \/ \E h \in slivers : L!Finish(c, L!Respond("redirect", {h}))
      BY <1>8 DEF L!SendRedirectResponse
    <2>2. \A h \in slivers : L!Respond("redirect", {h}) \in L!Responses
      BY <1>1, RespondTyped
    <2>3. QED  BY <1>3, <1>4, <2>1, <2>2
  <1>9. QED  BY <1>5, <1>6, <1>7, <1>8

LEMMA LookupStepTyped ==
    ASSUME TypeOK, ClientsTyped, HistoryTyped, NEW c \in Clients,
           L!LookupStep(c)
    PROVE  ClientsTyped' /\ HistoryTyped'
  <1> DEFINE r == lookup[c]
             q == r.query
             filtered(table) ==
                 L!FilterByCountry(L!FilterByStatus(table, q), q)
  <1>1. \A table : filtered(table) \subseteq L!Present(table)
    BY DEF L!FilterByCountry, L!FilterByStatus
  <1>2. L!Fetched(db, q) \in L!Table /\ L!Fetched(cache, q) \in L!Table
    BY FetchedTyped
  <1>4. UNCHANGED <<steady, seen>> => HistoryTyped'
    BY DEF HistoryTyped
  <1>5. CASE L!LookupStart(c)
    <2>1. PICK s \in Queries :
             /\ L!SetLookup(c, [L!IdleLookup EXCEPT !.pc = L!FirstStep(s),
                                                    !.query = s])
             /\ L!WatchFrom(c, s)
      BY <1>5, Zenon DEF L!LookupStart
    <2>2. L!FirstStep(s) \in {"answer", "sites", "memcache"}
      BY DEF L!FirstStep
    <2>3. ClientTyped([L!IdleLookup EXCEPT !.pc = L!FirstStep(s),
                                           !.query = s])
      BY <2>2, IdleTyped DEF ClientTyped, L!IdleLookup, L!Lookup
    <2>4. HistoryTyped'
      BY <2>1, MatchingTyped DEF L!WatchFrom, HistoryTyped
    <2>5. QED  BY <2>1, <2>3, <2>4, SetLookupTyped
  <1>6. CASE L!FindSiteIds(c)
    <2> DEFINE ids == {s \in Registered : q.place \in MetrosOf[s]}
    <2>1. /\ L!SetLookup(c, [lookup[c] EXCEPT !.pc = "datastore",
                                              !.siteIds = ids])
          /\ lookup[c].pc # "idle" /\ UNCHANGED <<steady, seen>>
      BY <1>6 DEF L!FindSiteIds
    <2>2. ids \in SUBSET Sites
      BY DEF Registered
    <2> HIDE DEF ids
    <2>3. ClientTyped([lookup[c] EXCEPT !.pc = "datastore",
                                        !.siteIds = ids])
      BY <2>1, <2>2, IdleTyped, GoOnTyped, Zenon
    <2>4. QED  BY <1>4, <2>1, <2>3, SetLookupTyped
  <1>7. CASE L!FallBackToDatastore(c)
    <2>1. /\ L!SetLookup(c, [lookup[c] EXCEPT !.pc = "datastore"])
          /\ lookup[c].pc # "idle" /\ UNCHANGED <<steady, seen>>
      BY <1>7 DEF L!FallBackToDatastore
    <2>2. ClientTyped([lookup[c] EXCEPT !.pc = "datastore"])
      BY <2>1, IdleTyped, GoOnTyped, Zenon
    <2>3. QED  BY <1>4, <2>1, <2>2, SetLookupTyped
  <1>8. CASE L!FetchMemcache(c)
    <2> DEFINE table == L!Fetched(cache, q)
    <2>1. /\ L!Choose(c, filtered(table), table)
          /\ r.pc # "idle" /\ UNCHANGED <<steady, seen>>
      BY <1>8 DEF L!FetchMemcache
    <2>2. QED  BY <1>1, <1>2, <1>4, <2>1, ChooseTyped
  <1>9. CASE L!FetchDatastore(c)
    <2> DEFINE table == L!Fetched(db, q)
    <2>1. PICK hosts \in SUBSET filtered(table) : L!Choose(c, hosts, table)
      BY <1>9 DEF L!FetchDatastore
    <2>2. r.pc # "idle" /\ UNCHANGED <<steady, seen>>
      BY <1>9 DEF L!FetchDatastore
    <2>3. QED  BY <1>1, <1>2, <1>4, <2>1, <2>2, ChooseTyped
  <1>10. CASE \/ L!AnswerNone(c) \/ L!SendJsonResponse(c)
              \/ L!SendBtResponse(c) \/ L!SendHtmlResponse(c)
              \/ L!SendRedirectResponse(c) \/ L!SendMapResponse(c)
              \/ L!LookupFails(c)
    <2>1. /\ r.pc # "idle"
          /\ \E response \in L!Responses : L!Finish(c, response)
      BY <1>10, ResponseTyped
    <2>2. PICK response \in L!Responses : L!Finish(c, response)
      BY <2>1
    <2>3. UNCHANGED <<steady, seen>>
      BY <2>2 DEF L!Finish
    <2>4. QED  BY <1>4, <2>1, <2>2, <2>3, FinishTyped
  <1>11. QED
    BY <1>5, <1>6, <1>7, <1>8, <1>9, <1>10 DEF L!LookupStep

LEMMA PageStepTyped ==
    ASSUME P!PageTypeOK, NEW v \in Viewers, P!PageStep(v)
    PROVE  P!PageTypeOK'
  <1> DEFINE r == page[v]
  <1>1. r \in P!Page /\ P!IdlePage \in P!Page
    BY DEF P!PageTypeOK, P!IdlePage, P!Page
  <1>2. ASSUME NEW new \in P!Page, P!SetPage(v, new) PROVE P!PageTypeOK'
    BY <1>2 DEF P!SetPage, P!PageTypeOK
  <1>3. CASE P!MapView(v)
    BY <1>1, <1>2, <1>3 DEF P!MapView, P!IdlePage, P!Page
  <1>4. CASE P!ReadSites(v)
    BY <1>1, <1>2, <1>4 DEF P!ReadSites, P!Page, Registered
  <1>5. CASE P!ReadSlivers(v)
    BY <1>1, <1>2, <1>5 DEF P!ReadSlivers, P!Page
  <1>6. QED  BY <1>3, <1>4, <1>5 DEF P!PageStep

ReadersTyped == ClientsTyped /\ HistoryTyped /\ P!PageTypeOK

LEMMA ServiceStepTyped ==
    TypeOK /\ ReadersTyped /\ [ServiceNext]_serviceVars => ReadersTyped'
  <1> SUFFICES ASSUME TypeOK, ReadersTyped, [ServiceNext]_serviceVars
               PROVE  ReadersTyped'
    OBVIOUS
  <1>1. UNCHANGED lookup => ClientsTyped'
    BY DEF ReadersTyped, ClientsTyped, ClientTyped
  <1>2. UNCHANGED page => P!PageTypeOK'
    BY DEF ReadersTyped, P!PageTypeOK
  <1>3. UNCHANGED <<steady, seen>> => HistoryTyped'
    BY DEF ReadersTyped, HistoryTyped
  <1>4. CASE DirectoryStep
    <2>1. HistoryTyped'
      BY <1>4, MatchingTyped
      DEF DirectoryStep, L!Watch, ReadersTyped, HistoryTyped
    <2>2. QED  BY <1>1, <1>2, <1>4, <2>1 DEF DirectoryStep, ReadersTyped
  <1>5. ASSUME NEW c \in Clients, ClientStep(c) PROVE ReadersTyped'
    BY <1>2, <1>5, LookupStepTyped DEF ClientStep, ReadersTyped
  <1>6. ASSUME NEW v \in Viewers, ViewerStep(v) PROVE ReadersTyped'
    BY <1>1, <1>3, <1>6, PageStepTyped DEF ViewerStep, ReadersTyped
  <1>7. CASE UNCHANGED serviceVars
    BY <1>1, <1>2, <1>3, <1>7 DEF serviceVars, readers, ReadersTyped
  <1>8. QED  BY <1>4, <1>5, <1>6, <1>7 DEF ServiceNext

(* Every variable of the service keeps its type: a lookup keeps its query  *)
(* and candidates that are among the entities in hand, a page its tools    *)
(* and sites, though the jobs rewrite the tables they were taken from.     *)
THEOREM ServiceTypeCorrect == ServiceSpec => []ServiceTypeOK
  <1>1. ServiceInit => ReadersTyped
    BY IdleTyped DEF ServiceInit, ReadersTyped, ClientsTyped, ClientTyped,
       HistoryTyped, P!PageInit, P!PageTypeOK, P!IdlePage, P!Page
  <1>2. TypeOK /\ ReadersTyped => ServiceTypeOK
    <2> SUFFICES ASSUME TypeOK, ReadersTyped PROVE ServiceTypeOK
      OBVIOUS
    <2>1. L!Table = Table
      BY DEF L!Table, L!Entity, L!Row, L!Families, L!Statuses,
             Table, Entity, Row, Families, Statuses
    <2>2. L!ListingTypeOK
      BY <2>1 DEF L!ListingTypeOK, TypeOK, Registered
    <2>3. L!TypeOK
      BY <2>2 DEF L!TypeOK, ReadersTyped, ClientsTyped, ClientTyped,
                  HistoryTyped
    <2>4. QED  BY <2>3 DEF ServiceTypeOK, ReadersTyped
  <1>3. QED
    BY <1>1, <1>2, ServiceStepTyped, ServiceIsADirectory, TypeCorrect, PTL
    DEF ServiceSpec
=============================================================================
