----------------------------- MODULE Instances -----------------------------
(***************************************************************************)
(* The instances that serve lookups (handlers/lookup.py, LookupHandler.get *)
(* around the lookup itself): the reader of the geolocation database that  *)
(* each instance opens once (util/maxmind.py), its warm-up and reload      *)
(* (handlers/update.py), and the reverse proxy that may answer instead     *)
(* (util/reverse_proxy.py), whose settings are cached in memcache.         *)
(*                                                                         *)
(* An instance serves one request at a time (threadsafe: false), and what  *)
(* it has read into memory goes with it.  A draw of exactly 0 or 1, which  *)
(* would proxy with probability 0, is left out.                            *)
(***************************************************************************)
EXTENDS LookupQuery

CONSTANTS
    Servers,        \* the instances
    Databases,      \* versions of the database file
    GeoOfIP,        \* what a version knows of addresses
    Experiments,    \* the tools that have a reverse proxy
    LoggedTools,    \* the tools whose locations are compared in the log
    Requests,       \* the requests clients make
    MaxUploads,     \* bound: changes of the database file
    MaxChanges      \* bound: changes of a proxy's setting

Settings == {"never", "sometimes", "always"}
Jobs == {"lookup", "warmup", "reload"}

ASSUME InstancesAssumption ==
    /\ GeoOfIP \in [Databases -> [IPs -> GeoRecord]]
    /\ {Absent, Malformed} \cap Databases = {}
    /\ Experiments \subseteq Tools
    /\ Requests \subseteq Request /\ Absent \notin Requests
    /\ Absent \notin Settings
    /\ MaxUploads \in Nat /\ MaxChanges \in Nat

VARIABLES
    file,       \* the database file in the bucket, if any and if valid
    reader,     \* the version each instance has read
    setting,    \* datastore: the reverse proxy probability of an experiment
    copy,       \* memcache: the same, for half an hour
    serving,    \* what each instance is doing
    uploads, changes    \* changes so far

proxies == <<setting, copy>>
vars == <<file, reader, proxies, serving, uploads, changes>>

SettingsRead == [Experiments -> Settings \cup {Absent}]
NoSettings == [e \in Experiments |-> Absent]

Serving == [pc       : {"idle", "parse", "proxy", "query", "cache", "draw",
                        "fetch", "answer", "log", "warmup", "reload"},
            request  : Requests \cup {Absent},
            geo      : GeoRecord,
            fetched  : SettingsRead,
            left     : SUBSET Experiments,
            used     : Settings \cup {Absent},
            response : {"none", "proxied", "answered", "nothing", "loaded",
                        "error"}]

Idle == [pc |-> "idle", request |-> Absent, geo |-> Nowhere,
         fetched |-> NoSettings, left |-> {}, used |-> Absent,
         response |-> "none"]

TypeOK ==
    /\ file \in Databases \cup {Absent, Malformed}
    /\ reader \in [Servers -> Databases \cup {Absent}]
    /\ setting \in SettingsRead
    /\ copy \in SettingsRead
    /\ serving \in [Servers -> Serving]
    /\ \A i \in Servers :
          /\ serving[i].pc \notin {"idle", "warmup", "reload"} =>
                 serving[i].request \in Requests
          /\ serving[i].pc \in {"proxy", "query", "cache", "draw", "fetch"} =>
                 serving[i].request.tool \in Experiments
    /\ uploads \in 0..MaxUploads /\ changes \in 0..MaxChanges

Init ==
    /\ file \in Databases \cup {Absent, Malformed}
    /\ reader = [i \in Servers |-> Absent]
    /\ setting \in SettingsRead
    /\ copy = NoSettings
    /\ serving = [i \in Servers |-> Idle]
    /\ uploads = 0 /\ changes = 0

-----------------------------------------------------------------------------
(* The world: operators, the bucket and memcache.                          *)

Upload ==
    /\ uploads < MaxUploads
    /\ uploads' = uploads + 1
    /\ file' \in Databases \cup {Absent, Malformed}
    /\ UNCHANGED <<reader, proxies, serving, changes>>

ChangeSetting ==
    /\ changes < MaxChanges
    /\ changes' = changes + 1
    /\ \E e \in Experiments, s \in Settings \cup {Absent} :
          setting' = [setting EXCEPT ![e] = s]
    /\ UNCHANGED <<file, reader, copy, serving, uploads>>

(* After half an hour, or earlier.                                         *)
ExpireCopy(e) ==
    /\ copy[e] # Absent
    /\ copy' = [copy EXCEPT ![e] = Absent]
    /\ UNCHANGED <<file, reader, setting, serving, uploads, changes>>

(* The platform replaces an instance; a request it was serving is lost.    *)
Restart(i) ==
    /\ reader' = [reader EXCEPT ![i] = Absent]
    /\ serving' = [serving EXCEPT ![i] = Idle]
    /\ UNCHANGED <<file, proxies, uploads, changes>>

-----------------------------------------------------------------------------
(* Serving a request.                                                      *)

Go(i, new) == serving' = [serving EXCEPT ![i] = new]

(* The response is sent.  What the request was and where it came from stay *)
(* until the next one, for the properties only.                            *)
Ended(i, response) == [serving[i] EXCEPT !.pc = "idle", !.response = response]

(* An exception nothing catches: the response is a server error, whatever  *)
(* was written to it before.                                               *)
Fails(i) == /\ Go(i, Ended(i, "error"))
            /\ UNCHANGED <<file, reader, proxies, uploads, changes>>

ReceiveLookup(i) ==
    /\ serving[i].pc = "idle"
    /\ \E r \in Requests :
          Go(i, [Idle EXCEPT !.pc = "parse", !.request = r])
    /\ UNCHANGED <<file, reader, proxies, uploads, changes>>

(* get_geo_reader: a reader that is there is used, or else the file is.    *)
Database(i) == IF reader[i] = Absent THEN file ELSE reader[i]

(* get_geo_reader returns a reader.                                        *)
Opens(i) == /\ Database(i) \in Databases
            /\ reader' = [reader EXCEPT ![i] = Database(i)]

(* Wrong on purpose: every path is looked up.                              *)
AfterParsingAny(r) == "proxy"

AfterParsing(r) == IF r.tool \in Experiments THEN "proxy" ELSE "answer"

(* initialize_from_http_request                                            *)
Parse(i) ==
    LET r == serving[i].request
        Located(geo) == [serving[i] EXCEPT !.pc = AfterParsing(r), !.geo = geo]
    IN
    /\ serving[i].pc = "parse"
    /\ IF AsksForAddress(r)
       THEN /\ Opens(i)
            /\ Go(i, Located(Geolocation(r, GeoOfIP[Database(i)])))
       ELSE /\ Go(i, Located(Geolocation(r, Absent)))
            /\ UNCHANGED reader
    /\ UNCHANGED <<file, proxies, uploads, changes>>

(* The file is not there, cannot be read, or is not valid.  For the first, *)
(* NotFoundError is raised again; for the others an empty GeoRecord takes  *)
(* the place of the reader, and its city, None, is called.  The tables of  *)
(* cities and countries are datastore queries, which may fail too.         *)
ParseFails(i) ==
    /\ serving[i].pc = "parse"
    /\ Source(serving[i].request) = "maxmind"
    /\ AsksForAddress(serving[i].request) => reader[i] = Absent
    /\ Fails(i)

-----------------------------------------------------------------------------
(* The reverse proxy.                                                      *)

(* Wrong on purpose: a copy that is used is set again, to keep it longer.  *)
GetCopyAndRenew(i) ==
    LET e == serving[i].request.tool IN
    /\ serving[i].pc = "proxy"
    /\ IF copy[e] = Absent THEN Go(i, [serving[i] EXCEPT !.pc = "query"])
       ELSE Go(i, [serving[i] EXCEPT !.pc = "cache", !.left = {e},
                                     !.fetched = copy])
    /\ UNCHANGED <<file, reader, proxies, uploads, changes>>

(* get_reverse_proxy: a miss, or no answer from memcache, is a query.      *)
GetCopy(i) ==
    LET e == serving[i].request.tool IN
    /\ serving[i].pc = "proxy"
    /\ \/ /\ copy[e] # Absent
          /\ Go(i, [serving[i] EXCEPT !.pc = "draw", !.used = copy[e]])
       \/ Go(i, [serving[i] EXCEPT !.pc = "query"])
    /\ UNCHANGED <<file, reader, proxies, uploads, changes>>

QuerySettings(i) ==
    /\ serving[i].pc = "query"
    /\ Go(i, [serving[i] EXCEPT
           !.pc = "cache", !.fetched = setting,
           !.left = {e \in Experiments : setting[e] # Absent}])
    /\ UNCHANGED <<file, reader, proxies, uploads, changes>>

QuerySettingsFails(i) == serving[i].pc = "query" /\ Fails(i)

(* Every experiment's setting is set, one after the other; that memcache   *)
(* did not take it is logged.                                              *)
SetCopy(i) ==
    /\ serving[i].pc = "cache"
    /\ \E e \in serving[i].left :
          /\ Go(i, [serving[i] EXCEPT !.left = @ \ {e}])
          /\ \/ copy' = [copy EXCEPT ![e] = serving[i].fetched[e]]
             \/ UNCHANGED copy
    /\ UNCHANGED <<file, reader, setting, uploads, changes>>

(* An experiment without setting has the default one, of probability 0.    *)
UseSetting(i) ==
    LET s == serving[i].fetched[serving[i].request.tool] IN
    /\ serving[i].pc = "cache" /\ serving[i].left = {}
    /\ Go(i, [serving[i] EXCEPT !.pc = "draw",
                                !.used = IF s = Absent THEN "never" ELSE s])
    /\ UNCHANGED <<file, reader, proxies, uploads, changes>>

(* try_reverse_proxy_url: the URL takes the location, and formatting one   *)
(* that is not known is a TypeError.                                       *)
Draw(i) ==
    /\ serving[i].pc = "draw"
    /\ \/ /\ serving[i].used # "always"
          /\ Go(i, [serving[i] EXCEPT !.pc = "answer"])
       \/ /\ serving[i].used # "never"
          /\ Go(i, IF serving[i].geo.place = Absent THEN Ended(i, "error")
                   ELSE [serving[i] EXCEPT !.pc = "fetch"])
    /\ UNCHANGED <<file, reader, proxies, uploads, changes>>

(* Wrong on purpose: after a URLError the proxy is tried again.            *)
FetchProxiedAgain(i) ==
    /\ serving[i].pc = "fetch"
    /\ \/ Go(i, Ended(i, "proxied"))
       \/ Go(i, [serving[i] EXCEPT !.pc = "proxy"])
    /\ UNCHANGED <<file, reader, proxies, uploads, changes>>

(* send_proxy_response: after a URLError the request is handled as usual.  *)
FetchProxied(i) ==
    /\ serving[i].pc = "fetch"
    /\ \/ Go(i, Ended(i, "proxied"))
       \/ Go(i, [serving[i] EXCEPT !.pc = "answer"])
    /\ UNCHANGED <<file, reader, proxies, uploads, changes>>

(* The body ends early, or the address is no URL.                          *)
FetchProxiedFails(i) == serving[i].pc = "fetch" /\ Fails(i)

-----------------------------------------------------------------------------
(* The lookup, as Lookups has it, and the log line after it.               *)

QueryAsked(i) == QueryOf(serving[i].request, serving[i].geo)

(* log_location compares locations that App Engine gave for this tool.     *)
LogsLocation(r) == r.tool \in LoggedTools /\ Source(r) = "app_engine"

Answer(i) ==
    /\ serving[i].pc = "answer"
    /\ \/ /\ ~LogsLocation(serving[i].request)
          /\ Go(i, Ended(i, "answered"))
       \/ /\ LogsLocation(serving[i].request)
          /\ Go(i, [serving[i] EXCEPT !.pc = "log", !.response = "answered"])
       \/ Go(i, Ended(i, "nothing"))
    /\ UNCHANGED <<file, reader, proxies, uploads, changes>>

AnswerFails(i) == serving[i].pc = "answer" /\ Fails(i)

LogLocation(i) ==
    /\ serving[i].pc = "log"
    /\ Opens(i)
    /\ Go(i, Ended(i, "answered"))
    /\ UNCHANGED <<file, proxies, uploads, changes>>

LogLocationFails(i) ==
    /\ serving[i].pc = "log"
    /\ reader[i] = Absent
    /\ Fails(i)

-----------------------------------------------------------------------------
(* Warm-up and reload.                                                     *)

ReceiveWarmup(i) ==
    /\ serving[i].pc = "idle"
    /\ Go(i, [Idle EXCEPT !.pc = "warmup"])
    /\ UNCHANGED <<file, reader, proxies, uploads, changes>>

(* get_reverse_proxy is called without its argument.                       *)
WarmUp(i) == serving[i].pc = "warmup" /\ Fails(i)

ReceiveReload(i) ==
    /\ serving[i].pc = "idle"
    /\ Go(i, [Idle EXCEPT !.pc = "reload"])
    /\ UNCHANGED <<file, reader, proxies, uploads, changes>>

(* get_database_file finds a file, and get_geo_reader has a reader or      *)
(* makes one, or logs that the file is not valid.                          *)
Reload(i) ==
    /\ serving[i].pc = "reload"
    /\ file # Absent
    /\ \/ Opens(i)
       \/ reader[i] = Absent /\ UNCHANGED reader
    /\ Go(i, Ended(i, "loaded"))
    /\ UNCHANGED <<file, proxies, uploads, changes>>

ReloadFails(i) == serving[i].pc = "reload" /\ Fails(i)

-----------------------------------------------------------------------------
Step(i) ==
    \/ Parse(i) \/ ParseFails(i)
    \/ GetCopy(i) \/ QuerySettings(i) \/ QuerySettingsFails(i)
    \/ SetCopy(i) \/ UseSetting(i)
    \/ Draw(i) \/ FetchProxied(i) \/ FetchProxiedFails(i)
    \/ Answer(i) \/ AnswerFails(i) \/ LogLocation(i) \/ LogLocationFails(i)
    \/ WarmUp(i) \/ Reload(i) \/ ReloadFails(i)

Receive(i) == ReceiveLookup(i) \/ ReceiveWarmup(i) \/ ReceiveReload(i)

World == Upload \/ ChangeSetting \/ \E e \in Experiments : ExpireCopy(e)

Next == World \/ \E i \in Servers : Restart(i) \/ Receive(i) \/ Step(i)

Spec == Init /\ [][Next]_vars

(* A request goes on until it ends or the platform's deadline ends it, and *)
(* memcache forgets an entry when its time is over.                        *)
FairSpec ==
    /\ Spec
    /\ \A i \in Servers : WF_vars(Step(i))
    /\ \A e \in Experiments : WF_vars(ExpireCopy(e))
=============================================================================
