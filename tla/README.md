# Verification models of mlab-ns

mlab-ns tells clients of measurement tools which server ("sliver": a tool
running on a host) of the M-Lab platform to use. It is a Python 2.7 App Engine
application; its own code is under `src/server/mlabns`. Cron jobs keep a
directory of slivers in the datastore and in memcache; lookups answer from it.
Deployed with it is the App Engine map engine (`src/server/mapreduce`), made to
load the lookup logs. Nothing in the code takes a lock and little of it uses a
transaction, every instance may run every handler at any time, and most failures
are only logged. These modules say what the program promises under those
circumstances.

## The system

| part | code | state | operations | interacts with |
|---|---|---|---|---|
| status update | `handlers/update.py` StatusUpdateHandler | SliverTool statuses, memcache lists | check_status, every minute: for each tool and family query monitoring, fetch, put, set | monitoring, datastore, memcache |
| site registration, IP update | `handlers/update.py` SiteRegistrationHandler, IPUpdateHandler | Site, SliverTool addresses | check_site, every day: put the valid sites of siteinfo, then the rows of hostnames.json | siteinfo, hostnames.json, datastore |
| entities | `db/model.py` | Site, SliverTool, Tool, configuration | queries and puts | datastore |
| monitoring | `util/prometheus_status.py`, `util/nagios_status.py` | none | query and parse a report | status update |
| fetcher | `db/sliver_tool_fetcher.py` | none | fetch from memcache or datastore, filter, one host per site | resolvers, update handlers |
| resolvers | `util/resolver.py`, `util/distance.py`, `db/client_signature_fetcher.py` | none (request counts in memcache, read only) | answer_query of six policies | fetcher |
| lookup query | `util/lookup_query.py`, `util/util.py` | none | location and policy of a request, the client's signature | geolocation, resolvers |
| lookup handler | `handlers/lookup.py` | none | get, one response per format | all of the above |
| reverse proxy | `util/reverse_proxy.py` | copies of its settings in memcache, for half an hour | read through, draw, fetch | datastore, memcache, another server |
| geolocation | `util/maxmind.py`, WarmupHandler, ReloadMaxmindDb | one reader per instance | create, reload, look up | bucket, lookup query |
| map page | `handlers/admin.py` | none | two queries, joined | datastore |
| other pages, signature count, log upload | `handlers/admin.py`, `docs.py`, `privacy.py`, `update.py`, `log2bq.py` | none | render, log | datastore |
| map engine | `mapreduce/handlers.py`, `model.py`, `output_writers.py`, `mapper_pipeline.py` | state of a job and of its shards, files, tasks | start, slices, controllers, finalisation, callback, abort | datastore, task queue, files, pipeline |

The datastore and memcache are the shared state; a tool's entities live in both.
The jobs write them, the lookups read them. What is hard:

- both jobs read whole entities, change some fields and put whole entities back,
  so that each can undo the other (and check_status runs every minute, so that it
  may overlap with itself);
- the IP update works on a snapshot, row after row, for as long as it takes;
- a status update sets memcache after a put whatever became of the put;
- every call may fail or the request may die, and the next run starts over;
- a lookup reads memcache, then perhaps sites, then the datastore, while they
  change, and decides more than once on what it read;
- answers are drawn at random, and a draw may leave nothing;
- a request may say where it is in five ways at once, some of them malformed, zero
  or NaN, and the code tests some by truth and others against None;
- settings are copied to memcache, and a slow reader may set an old copy late;
- an instance keeps the database it opened, whatever becomes of the file;
- the tasks of the map engine run at least once, may stop anywhere and then begin
  again, and rely on names and on the state they find to do nothing twice.

What makes the parts correct: the directory never invents a status or an address
and does not lose slivers; each job keeps the fields that belong to the other, as
far as it can; the directory ends up saying what its sources say; a request is
located as it asks, and asks the resolver something it can answer; a lookup says
there is no capacity only if there is none, answers only slivers that matched,
and the nearest ones when asked for those; a changed setting is used in the end;
every shard of a job ends once, a job that succeeded has everything its shards
read in its files, and it ends.

`PROJECT.json` lists what is hard to test, each hazard at its line with the
properties about it.

## Modules

| module | what it is |
|---|---|
| `Slivers` | the entity, the report, a tool's table; what a status report and a row of hostnames.json make of an entity |
| `SliverDirectory` | state machine of both jobs, datastore, memcache and the outside world |
| `SliverDirectoryProperties` | what is checked of it |
| `SliverListing` | abstract specification: what readers of datastore and memcache may rely on |
| `SliverDirectoryProofs` | proofs of the type invariant, on what the directory may say, and on what memcache keeps |
| `SliverDirectoryOwnership` | proofs on which job changes which field |
| `SliverDirectoryListing` | proof that the directory implements the listing |
| `Selection` | the fetcher's filters and the resolvers, on a table |
| `Lookups` | state machine of lookups over a `SliverListing` |
| `LookupProperties`, `LookupProofs` | what is checked of it, and the proofs |
| `HostPerSite` | the loop that draws one host of a site, with the odds |
| `HostPerSiteProofs` | proofs that the draws are fair and keep what may be kept |
| `MapPage` | the page that joins sites and slivers, over a `SliverListing` |
| `Service` | directory, lookups and page composed, and what is checked of the whole |
| `ServiceProofs` | proofs on the composition |
| `LookupQuery` | location, policy and query of a request, as operators |
| `Instances` | state machine of the instances that serve requests: reader, reverse proxy, warm-up, reload |
| `InstancesProperties`, `InstancesProofs` | what is checked of it, and the proofs |
| `MapReduce` | state machine of one job of the map engine |
| `MapReduceProperties`, `MapReduceProofs` | what is checked of it, and the proofs |
| `MCSliverDirectory`, `MCLookups`, `MCHostPerSite`, `MCService`, `MCInstances`, `MCMapReduce` | constants of the instances for TLC |

`SliverDirectory` and `Lookups` meet in `SliverListing`: the directory implements
it (proved), and the lookups use its next-state relation as their environment.
What a lookup promises therefore holds over any directory that implements the
listing; `Service` puts the real one under them, and `ServiceProofs` shows that
the composition implements `Lookups`. `Instances` ends where `Lookups` begins: it
says which query a request becomes, and that this is a member of `Selection!Query`,
the set from which the lookups take theirs. The map engine shares no state with the
rest.

### The directory

`db[t][h]` is the SliverTool entity of tool t on host h or `Absent`; its `ip` and
`status` fields are functions of the family, for `sliver_ipv4`, `sliver_ipv6`,
`status_ipv4` and `status_ipv6`. `cache[t]` is the memcache list of a tool; a miss
and an empty list are the same to every reader. `sites[s]` is the Site entity (its
roundrobin flag). `monitor`, `hostnames` and `siteinfo` are the outside world.
Each request is a record with a program counter and its local variables:

- `statusJob[w]`: QueryMonitoring or SkipTurn, FetchSliverTools, PutStatuses,
  SetMemcache, for each tool and family, the families in the order of the code's
  loop and the tools in any order. A failed put may have written some of its
  entities (PutStatusesFails); the job goes on to memcache, as the code does.
- `siteJob[w]`: SiteStart, RegisterSite for each valid site, FetchHostnames,
  ReadUpFront, UpdateSliverTool for each entity, SiteDone. Rows of sites that are
  not registered are dropped in ReadUpFront; an entity is put only if its row
  changes something.
- StatusCrash and SiteCrash end a request at any of its calls.

`reported`, `published` and `dirty` are history variables for the properties.

What is abstracted: tool_extra, timestamps, ports, city, country and coordinates
(copied when an entity is created); the three queries ReadUpFront makes are one
step; tools are fixed; each host has one row in hostnames.json and one FQDN; what
a datastore query returns is what was put (the eventual consistency of
non-ancestor queries is left out); the text formats of the sources. A tool without
monitoring query for a family is skipped each time, as SkipTurn may do. A site
check that fails before it registered anything is no step.

### Lookups

`lookup[c]` is a request: LookupStart with a parsed query, FindSiteIds for a metro,
FetchMemcache or FallBackToDatastore, FetchDatastore, then one action per response:
AnswerNone, SendJsonResponse, SendBtResponse, SendHtmlResponse,
SendRedirectResponse, SendMapResponse; LookupFails when a datastore query raises.
FallBackToDatastore is always possible: memcache has no match, or does not answer.
Draws (shuffle, sample, choice, signature, keep probability) are choices in
`Selection`; CronJobs is any step of the listing. `steady` and `seen` are history
variables: the hosts that matched the query all along in either place, and those
that ever did.

A response keeps its code, its slivers and, in json, the addresses. FQDN rewriting,
URLs, pages and log lines are left out. SendMapResponse is an error because the
handler calls `get_candidates` (lookup.py:90), which no resolver has.

`HostPerSite` is the same choice as OneHostPerSite of `Selection`, step by step and
with weights instead of probabilities: a draw of one in n multiplies the other
weights by n - 1, and so everything stays an integer.

### The whole service

`Service` has the variables of the directory, of the lookups and of the page. The
readers know of a site only its id (`sites <- Registered`), and a tool may have any
table (`Tables <- Table`). A step is one of the directory, which the lookups watch
in their history (DirectoryStep), of a client (ClientStep) or of a viewer of the
map page (ViewerStep).

`MapPage` is map_view with its two queries: ReadSites, then ReadSlivers, which is a
KeyError for a sliver whose site is not among those read. The page looks in
memcache without the namespace in which the lists are set, misses, and always goes
on to the datastore, so memcache is not in it.

### Requests and instances

`LookupQuery` is the class of that name as operators on a `Request`, a record of
its arguments and headers, each of them absent, malformed or a value: HasLatLon,
IPAddress, Source (the order of initialize_from_http_request), Geolocation, Policy
with its defaults, PlaceOf and QueryOf. A coordinate is an integer or NaN: zero is
false in Python, NaN passes every range test. SignatureSize has the lengths of the
parts of a client's signature.

`Instances` has the database file in the bucket (`file`), the `reader` each
instance has open, the datastore's `setting` of each reverse proxy and its `copy`
in memcache, and `serving[i]`, the request an instance works on: it serves one at a
time (app.yaml: threadsafe false). ReceiveLookup; Parse, which opens the database
if the request needs it, or ParseFails; then, for a tool with a proxy, GetCopy and
on a miss QuerySettings, SetCopy for each setting read, UseSetting; Draw,
FetchProxied or its failure; Answer, which stands for all of `Lookups`;
LogLocation, which compares two locations after the answer was sent. A call whose
exception the code does not catch may fail, and ends the request. WarmUp, Reload, and Restart, which forgets the reader. Upload, ChangeSetting
and ExpireCopy are the world. WarmUp always fails: it calls get_reverse_proxy
without its argument (update.py:528).

### The map engine

A task is a record with a program counter; a handler is a sequence of actions
between which other tasks run, one for each call to the datastore, the queue or a
file. StartMap puts the job's state and adds the kickoff task. KickOff makes the
files, PutShards puts the shards that are missing, KickOffSlice and
KickOffController add the first tasks. A worker: WorkerBegins (reads its shard, drops
itself if it is late, scans some entities), Flush, FinalizeShard if it is done,
PutShard (in a transaction that finds a shard ended meanwhile), RescheduleSlice;
or, on a command to abort, FinalizeShard, AbortShard and RepeatCommand, which puts
the command again. A controller: ControllerBegins, ReadShards, AbortLost, PutState,
RescheduleController while shards are active, and at the end FinalizeFiles,
ScheduleFinalizer, CommitState, which in one transaction commits the state and adds
the done callback. The finalizer deletes the control and the shards; Callback tells
the pipeline. AbortJob and CleanUpJob are what a user may ask for.

`Stop` is a run that ends halfway, at any point of any task: the task goes back to
its beginning, with what it has written left behind. A task that has a name (slice,
controller) is added once: `slices` and `polls` count the names given out.
`kickoff.run` counts the attempts of the kickoff, each of which makes new files.

Left out: counters, quotas (a slice may end after any entity, which includes
whatever a quota does), payloads too large for a task, hooks, jobs without input or
without writer, the other readers and writers.

## Runs

| run | instance | what it shows |
|---|---|---|
| `one_sliver` | one tool, host and site; one request of each job; one change of the world, two failures or crashes; fair | type invariant; no status or address out of nowhere (OnlineWasReported, AddressWasPublished); memcache holds registered slivers only; each job keeps the other's fields of entities that did not change since it read them (FieldsKeptWithoutOverlap); the directory implements the listing; it settles (ConvergesWithoutOverlap, ListedGetsRegistered) |
| `two_hosts` | two hosts; puts that fail halfway; one failure | CacheKeepsSlivers: a refresh of memcache does not drop a sliver because one family's report lacks it |
| `lookups` | four hosts at three sites, six tables, 14 queries of all policies and formats | type invariant; AnswersMatchQuery, NearestSteadySites, SteadySliverFound, AllSitesAnswered |
| `host_per_site` | every list of up to four hosts, all flags | RoundRobinIsFair, KeepsWhatMayBeKept |
| `service` | one sliver, both jobs, a client and a viewer; fair | what clients are answered was reported and published; the map page fails only as sites grow; CapacityIsFound |
| `serving` | one instance, two database versions, 18 requests, one upload, one change of a setting; fair | QueriesAreLegal, LocatedAsAsked, CopiesSettle, RequestsEnd |
| `mapreduce` | two shards of one entity, two slices of the first, one poll, one stop or command; fair | NothingSkipped, ShardsEndOnce, SuccessMeansAll, JobEnds |
| `lost_updates`, `empty_answers`, `all_policy`, `reload`, `map_restart` | as the above | violations: see Findings |

Bounds. MaxChanges and MaxFaults bound how often the outside world changes and how
many calls fail in a behaviour; the initial world is arbitrary. A lost update needs
one change and no failure; a put that fails, a memcache set that fails after it, and
a crash at any point need two at most. One host is enough where entities do not
touch each other, and the properties on entities speak of one at a time; two hosts
are needed for a partial put and for a report that knows one of them. In the lookup
instance s1 has two hosts (the choice of one per site), s2 may be dropped by its
keep probability, s3 is a backup site that may be dropped too; the two places have
different orders of distance; geo_options answers two slivers instead of four, which
is fewer than the sites. The six tables a tool's slivers may form are chosen so that
a site's first host is down while its second is up, that statuses differ between
families, that flags are set, and that hosts are not yet known; memcache and
datastore hold any two of them that the listing allows. Lookups write nothing, so
one client is enough. The service needs no changes and no failures for what the
composition adds, the orders in which jobs and readers interleave, since the initial
world is arbitrary; the theorems of `ServiceProofs` lift the bounds. The 18 requests
take each way through LookupQuery, with coordinates that are zero in one or both
places, beyond the range, NaN or malformed, and two versions of the database that
disagree; one instance is enough for locations, which share nothing, and its
restart brings a slow request and a fast one to the same copy. In the job, one
shard has a second slice, which begins where the first left off, and both have an
entity to lose; one poll finds shards active and the next one ended; one stop, at
any of the points of any task, is what the code's comments claim to survive.

Fairness. Directory: the cron service starts the jobs again and again and a request
makes progress until it ends: weak fairness of the starts and of the calls that
succeed. Failures, changes and evictions are never forced. Since failures and
changes are bounded, from some time on they stop, which is what "without further
failures" means in the liveness properties. ConvergesWithoutOverlap is conditional on
`<>[]NoOverlap`: from some time on, no job changes an entity while the other holds
a copy. Without that premise it is false, however fair the schedule: the two jobs
may undo each other forever. Service: the same for the jobs, and a lookup that was
started goes on; nobody has to ask. Instances: a request goes on until it ends or
the platform's deadline ends it (a failure is a way to end), and memcache forgets an
entry when its time is over; clients, uploads and changes are not forced. Map
engine: the task queue runs every task until one run of it ends, which is weak
fairness for each task; stops are bounded. Requests of users are never forced.

Deadlock is not checked in `host_per_site`, where the loop ends, and in the runs of
the map engine, where the job ends.

## Proofs

TLAPS checks these for every value of the constants, from the assumptions named
beside them: the distinctness of the values that stand for nothing, the types of the
constants, and for lookups that the platform is finite.

The directory, for any number of tools, hosts, sites, requests, changes and failures:

- `SliverDirectoryProofs!TypeCorrect`: the type invariant.
- `SliverDirectoryProofs`, the rest: OnlineWasReported, AddressWasPublished and
  CachedAreRegistered. None is inductive: what will be put or cached sits in a
  request's memory first. AllVouched says of every table, stored, cached, in a batch
  or in a snapshot, that it says only what monitoring and hostnames.json said, and
  holds registered slivers only; it is inductive (EverythingVouched) and implies all
  three. The lemmas on ApplyReport and SetSliverTool say that what the handlers
  compute from vouched tables is vouched. CacheLosesNothing is about CacheKeepsSlivers,
  under the assumption that at most one status update runs at a time, as in the run
  that checks it: two may overtake each other, and the older list then takes
  the place of the newer. It rests on CacheCovered: from the
  fetch on, the batch in a request's hands has every sliver that memcache lists of the
  tool. That holds at the fetch since memcache lists registered slivers only
  (AllVouched), and afterwards since only that request sets memcache.
- `SliverDirectoryOwnership`: FieldsKeptWithoutOverlap, from CopiesFresh: the copy a
  request holds differs from the datastore only in the field about to be written,
  unless the entity is in `dirty`, that is, changed since the copy was read.
- `SliverDirectoryListing`: SitesBeforeSlivers, from SitesInHand on the snapshot of
  the sites; then DirectoryImplementsListing. Initial states map to initial states;
  every step is a step of the listing or leaves it alone: a put of a batch stores
  only slivers known before (AllVouched), a row is stored for a registered site
  (SitesFirst), memcache gets a batch of known slivers (AllVouched). The refinement
  mapping takes `sites` to the set of registered site ids.

The lookups, for any platform, listing, set of queries and number of clients:

- `LookupProofs`: LookupsTypeCorrect; then LookupsMatch, inductive, which ties what a
  running lookup has found (sites, tables, candidates) to the histories: its
  candidates are among `seen`, and stand for `steady`. Each promise follows from it
  at the step that answers: SteadySliverFound, AnswersMatchQuery, NearestSteadySites
  and AllSitesAnswered.
- `ServiceProofs`: every step of the composition is a step of `Lookups` or a stutter
  (ServiceImplementsLookups), from TypeOK, AllVouched and SitesFirst of the
  directory, so that all the above holds of the service. LookupsVouched, what a
  lookup holds is vouched for, gives AnswersWereReported and AnswersWerePublished;
  and that registered sites only grow gives PageFailsOnlyAsSitesGrow.
  ServiceTypeCorrect is ServiceTypeOK, for whatever tables the jobs write in between.

The draw of one host per site, for any number of slivers, in any order and with any
flags (`HostPerSiteProofs`):

- DrawsAreFair and OneThatMayBeIsKept: RoundRobinIsFair and KeepsWhatMayBeKept. LoopInv
  is inductive: the counter is one more than the slivers seen, their weights are
  equal while all after the first have the flag, and a positive weight is that of a
  sliver which may be kept. The total of the weights is a fold of the community
  modules, over a set and hence in an unknown order. Facts about it need induction
  over the set, which the library's induction theorems cannot give here; they are
  proved by contradiction instead, from the smallest number of elements for which
  one of them would fail (Least): the fold exists and is unique (FoldExists,
  FoldUnique), its order does not matter (FoldOrder), and the sum of the whole is
  that of the rest plus any one element (SumOf).

The instances, for any requests, tables and number of servers (`InstancesProofs`):
ServersOK ties a located request to the database its instance has open, and is
inductive because an instance never changes its reader but by a restart, which ends
the request. TypeOK, QueriesAreLegal and LocatedAsAsked follow by lemmas about the
operators of LookupQuery (QueryIsLegal, LocationIsAsAsked). CountriesAssumption says
what they need of the tables: the record found for a country is one of that country. SignatureFits: the signature stays within 250 characters, as the
code's comment says, if the address has at most 208.

The map engine, for any numbers of shards, entities, slices, polls and stops
(`MapReduceProofs`):

- ShardsAreWritten: NothingSkipped, if the kickoff does not stop once it has added a
  slice (~KickOffRepeats; the run `map_restart` is what happens otherwise). WrittenInv:
  each slice in the queue begins where all before it is in its shard's file, and
  nothing is in the queue, and no shard has ended, before the last run of the kickoff.
- SuccessIsComplete: SuccessMeansAll, under the same assumption, from CompleteInv: when
  a controller has decided for success, the shards it read had all succeeded and stay
  so, their files are final, and nobody has been told anything yet.
- EndedShardsStay: ShardsEndOnce, without that assumption.
- TypeCorrect: TypeOK, also without it. The bound on the tasks that tell the pipeline
  is the part that is not local: OneTeller counts them together with the controllers
  that may still add one, and shows that there are never more than the stops plus
  one; a stop that runs a controller twice is what adds one.

Only model-checked: all liveness (fairness is out of the prover's reach), that is
ConvergesWithoutOverlap, ListedGetsRegistered, CapacityIsFound, CopiesSettle,
RequestsEnd, JobEnds. Every invariant and every action property that a passing run
checks is also proved.

## Findings

- `lost_updates`: the comments of initialize_sliver_tool (update.py:297 and 300)
  give the addresses to the IP update and the statuses to the status update. A
  status update that fetched before an IP update's put writes the old addresses
  back, and they stay until the next day's site check. An IP update puts back the
  statuses of its snapshot, of every entity whose row changed, until the next
  status update.
- `empty_answers`: GeoResolver answers an empty list when its draws drop every
  candidate; its docstring (resolver.py:155) knows one sliver or None. The client
  of an html or bt lookup gets an empty page, a redirect fails.
- `all_policy`: the design document (DESIGN_DOC.md:125) promises all available
  servers for policy all; the fetcher keeps one host per site.
- `reload`: ReloadMaxmindDb is to reload the database file (update.py:489, 496), but
  an instance that has a reader keeps it.
- `map_restart`: the kickoff is said to be safe to repeat (mapreduce/handlers.py:706),
  but a second attempt makes new files while the slices of the first go on writing
  to theirs: the job succeeds with empty files.

Seen while modelling, without a run: a format=map lookup that finds slivers always
fails, though the design document lists the format; the warm-up never gets to the
database; a controller of the map engine that stops after its commit and is run again
lists no files, and a slice that stops between the end of its own file and its put
can never write again, which is why JobEnds speaks of jobs with one file.

## Not modelled

- Parsing of monitoring reports, host names and IP addresses (`prometheus_status.py`,
  `nagios_status.py`, `production_check.py`, `parse_fqdn.py`): regular expressions and
  field splitting. The models take what comes out: a report that knows any of the
  hosts, or an exception. `fqdn_rewrite.py` only words the answer.
- Pages rendered from one query or none (admin, documents, privacy), and
  CountRequestSignaturesHandler, which only logs: they change nothing and join nothing.
- The log upload (`log2bq.py`): its route and import are commented out in
  `src/server/main.py`. What it would run, the map engine, is modelled.
- The configuration of monitoring (`db/*_config_wrapper.py`), a copy in memcache set
  once and without expiry.
- The request counters behind client signatures, which another service writes: the
  probability they give is an input of the lookups.
- Vendored libraries: the pipeline engine (`mapreduce/lib/pipeline`), in which nothing
  that is routed starts a pipeline, and of which the job's callback is all the map
  engine sees; the files service of App Engine with its generated protocol buffers,
  modelled as files that are appended to and finalised; readers and writers of the
  map engine that the log upload does not use; `httplib2`, `oauth2client`,
  `apiclient`, `uritemplate`, `gflags`, `third_party`. They are most of the
  repository's lines and none of mlab-ns's logic.
- Routes, configuration and deployment, except `cron.yaml` and `app.yaml`, from which
  fairness and the one request at a time are taken.
