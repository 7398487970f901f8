--------------------------- MODULE InstancesProofs ---------------------------
(***************************************************************************)
(* Proofs about the instances, for every number of them, every request,    *)
(* every geolocation table and any number of uploads and changes: types,   *)
(* and that a request is located as it asks and asks a legal query.        *)
(*                                                                         *)
(* The invariant ServersOK says of each instance that its types are right  *)
(* and that a located request has the location that LookupQuery computes   *)
(* from the database the instance has open, which it keeps.  What the      *)
(* properties say of such a location are lemmas about LookupQuery.         *)
(***************************************************************************)
EXTENDS InstancesProperties, TLAPS

ProxyPcs == {"proxy", "query", "cache", "draw", "fetch"}
LocatedPcs == ProxyPcs \cup {"answer", "log"}

(* The location is what the request and the version of the database give.  *)
Located(s, version) ==
    IF AsksForAddress(s.request)
    THEN /\ version \in Databases
         /\ s.geo = Geolocation(s.request, GeoOfIP[version])
    ELSE s.geo = Geolocation(s.request, Absent)

ServerOK(s, version) ==
    /\ s \in Serving
    /\ s.pc \notin {"idle", "warmup", "reload"} => s.request \in Requests
    /\ s.pc \in ProxyPcs => s.request.tool \in Experiments
    /\ s.pc \in LocatedPcs => Located(s, version)

ServersOK == \A i \in Servers : ServerOK(serving[i], reader[i])

WorldOK ==
    /\ file \in Databases \cup {Absent, Malformed}
    /\ setting \in SettingsRead
    /\ copy \in SettingsRead
    /\ uploads \in 0..MaxUploads /\ changes \in 0..MaxChanges

ReadersOK ==
    /\ reader \in [Servers -> Databases \cup {Absent}]
    /\ serving \in [Servers -> Serving]

InstancesInv == WorldOK /\ ReadersOK /\ ServersOK

-----------------------------------------------------------------------------
(* How a location is made.                                                 *)

(* The arguments of a request that count are of the kind they should be.   *)
LEMMA RequestFields ==
    ASSUME NEW r \in Request
    PROVE  /\ r.tool \in Tools \cup {UnknownTool}
           /\ r.format \in Formats \cup {Absent, Malformed}
           /\ r.family \in Families \cup {Absent, Malformed}
           /\ r.policy \in Policies \cup {Absent, Malformed}
           /\ r.metro \in Metros \cup {Absent, Empty}
           /\ r.remote \in IPs
           /\ r.ip \in IPs \cup {Absent, Malformed}
           /\ r.city \in Cities \cup {Absent}
           /\ r.country \in Countries \cup {Absent}
           /\ r.lat \in Coordinates \cup {Absent, Malformed}
           /\ r.lon \in Coordinates \cup {Absent, Malformed}
           /\ r.header.place \in (Coordinates \X Coordinates)
                                     \cup {Absent, Malformed}
           /\ r.header.country \in Countries \cup {Absent}
           /\ r.signed \in BOOLEAN
  BY DEF Request

(* Coordinates in the arguments, or a usable header, are a location.       *)
LEMMA PlacesGiven ==
    ASSUME NEW r \in Request
    PROVE  /\ HasLatLon(r) => <<r.lat, r.lon>> \in Locations
           /\ HeaderLocates(r) => r.header \in GeoRecord
  <1>1. HasLatLon(r) => <<r.lat, r.lon>> \in Coordinates \X Coordinates
    BY DEF HasLatLon
  <1>2. HeaderLocates(r) => r.header.place \in Coordinates \X Coordinates
    BY RequestFields DEF HeaderLocates
  <1>3. Coordinates \X Coordinates \subseteq Locations
    BY CoordinatesAssumption
  <1>4. ASSUME HeaderLocates(r)  PROVE r.header \in GeoRecord
    <2>1. r.header.place \in Locations \cup {Absent}
      BY <1>2, <1>3, <1>4
    <2>2. r.header \in [place   : (Coordinates \X Coordinates)
                                      \cup {Absent, Malformed},
                        country : Countries \cup {Absent}]
      BY DEF Request
    <2> QED  BY <2>1, <2>2 DEF GeoRecord
  <1> QED  BY <1>1, <1>3, <1>4

LEMMA SourceIsOne ==
    ASSUME NEW r \in Request
    PROVE  /\ Source(r) \in {"user_defined", "app_engine", "maxmind"}
           /\ Source(r) = "user_defined" <=> HasLatLon(r)
           /\ Source(r) = "app_engine" =>
                 HeaderLocates(r) /\ ~IsExplicit(r) /\ r.country = Absent
  BY DEF Source

LEMMA IPAddressType ==
    ASSUME NEW r \in Request
    PROVE  IPAddress(r) \in IPs
  BY RequestFields DEF IPAddress, IsExplicit

(* Every location is a GeoRecord, if what is asked knows the address.      *)
LEMMA GeolocationType ==
    ASSUME NEW r \in Request, NEW database,
           AsksForAddress(r) => database \in [IPs -> GeoRecord]
    PROVE  Geolocation(r, database) \in GeoRecord
  <1>1. CASE Source(r) = "user_defined"
    <2>1. <<r.lat, r.lon>> \in Locations
      BY <1>1, SourceIsOne, PlacesGiven
    <2> QED  BY <1>1, <2>1, RequestFields DEF Geolocation, GeoRecord
  <1>2. CASE Source(r) = "app_engine"
    BY <1>2, SourceIsOne, PlacesGiven DEF Geolocation
  <1>3. CASE Source(r) = "maxmind"
    <2>1. Geolocation(r, database) = MaxmindGeolocation(r, database)
      BY <1>3 DEF Geolocation
    <2>2. CASE AsksForAddress(r)
      BY <2>1, <2>2, IPAddressType DEF MaxmindGeolocation
    <2>3. CASE ~AsksForAddress(r)
      <3>1. r.country \in Countries
        BY <1>3, <2>3, RequestFields DEF AsksForAddress
      <3>2. r.city \in Cities \/ r.city = Absent
        BY RequestFields
      <3>3. GeoOfCountry[r.country] \in GeoRecord
        BY <3>1, GeoTablesAssumption
      <3>4. r.city \in Cities => GeoOfCity[r.city][r.country] \in GeoRecord
        BY <3>1, GeoTablesAssumption
      <3> QED  BY <2>1, <2>3, <3>2, <3>3, <3>4 DEF MaxmindGeolocation
    <2> QED  BY <2>2, <2>3
  <1> QED  BY <1>1, <1>2, <1>3, SourceIsOne

(* The version an instance has open.                                       *)
LEMMA LocatedType ==
    ASSUME NEW s, NEW version, s.request \in Request, Located(s, version)
    PROVE  s.geo \in GeoRecord
  <1>1. CASE AsksForAddress(s.request)
    <2>1. GeoOfIP[version] \in [IPs -> GeoRecord]
      BY <1>1, InstancesAssumption DEF Located
    <2> QED  BY <1>1, <2>1, GeolocationType DEF Located
  <1>2. CASE ~AsksForAddress(s.request)
    BY <1>2, GeolocationType DEF Located
  <1> QED  BY <1>1, <1>2

-----------------------------------------------------------------------------
(* What the properties say of a location.                                  *)

(* Where the code chooses geo by itself, the client named an address or a  *)
(* country, or else its place is known.                                    *)
LEMMA GeoPlaceKnown ==
    ASSUME NEW r \in Request, NEW database,
           LET geo == Geolocation(r, database) IN
           Policy(r, geo) = "geo" /\ PlaceOf(r, "geo", geo) = Absent
    PROVE  IsExplicit(r) \/ r.country # Absent
  <1> SUFFICES ASSUME ~IsExplicit(r), r.country = Absent PROVE FALSE
    OBVIOUS
  <1> DEFINE geo == Geolocation(r, database)
  <1>1. geo.place = Absent
    BY DEF PlaceOf, GeoPolicies
  <1>2. ~HasLatLon(r)
    <2>1. HasLatLon(r) => geo.place = <<r.lat, r.lon>>
      BY SourceIsOne DEF Geolocation
    <2> QED  BY <1>1, <2>1, PlacesGiven, PlacesAssumption
  <1>3. Policy(r, geo) # "geo"
    BY <1>1, <1>2 DEF Policy, IsPinned, DefaultPolicy
  <1> QED  BY <1>3

LEMMA PolicyType ==
    ASSUME NEW r \in Request, NEW geo
    PROVE  Policy(r, geo) \in Policies
  BY DEF Policy, Policies, GeoPolicies, DefaultPolicy

(* What a policy selects by is of its kind.                                *)
LEMMA PlaceType ==
    ASSUME NEW r \in Request, NEW geo \in GeoRecord, NEW policy \in Policies
    PROVE  PlaceOf(r, policy, geo) \in PlacesOf(policy)
  <1>1. /\ geo.place \in Locations \cup {Absent}
        /\ geo.country \in Countries \cup {Absent}
    BY DEF GeoRecord
  <1>2. CASE policy \in GeoPolicies
    <2>1. PlaceOf(r, policy, geo) = geo.place
      BY <1>2 DEF PlaceOf
    <2>2. PlacesOf(policy) = {Absent} \cup Locations
      BY <1>2 DEF PlacesOf, GeoPolicies
    <2> QED  BY <1>1, <2>1, <2>2
  <1>3. CASE policy = "metro"
    <2>1. PlaceOf(r, policy, geo) = IF r.metro # Empty THEN r.metro ELSE Absent
      BY <1>3 DEF PlaceOf, GeoPolicies
    <2>2. PlacesOf(policy) = {Absent} \cup Metros
      BY <1>3 DEF PlacesOf, GeoPolicies
    <2> QED  BY <2>1, <2>2, RequestFields
  <1>4. CASE policy = "country"
    BY <1>1, <1>4 DEF PlaceOf, PlacesOf, GeoPolicies
  <1>5. CASE policy \notin GeoPolicies \cup {"metro", "country"}
    <2>1. PlaceOf(r, policy, geo) = Absent
      BY <1>5 DEF PlaceOf
    <2> QED  BY <2>1 DEF PlacesOf
  <1> QED  BY <1>2, <1>3, <1>4, <1>5

LEMMA QueryIsLegal ==
    ASSUME NEW r \in Request, NEW geo \in GeoRecord
    PROVE  QueryOf(r, geo) \in Query
  <1> DEFINE policy == Policy(r, geo)
             place  == PlaceOf(r, policy, geo)
             family == IF r.family \in Families THEN r.family ELSE "any"
             format == IF r.format \in Formats THEN r.format ELSE "json"
  <1>1. policy \in Policies
    BY PolicyType
  <1>2. place \in PlacesOf(policy)
    BY <1>1, PlaceType
  <1>3. place \in {Absent} \cup Locations \cup Metros \cup Countries
    BY <1>2 DEF PlacesOf
  <1>4. family \in Families \cup {"any"} /\ format \in Formats
    BY DEF Formats
  <1>5. r.tool \in Tools \cup {UnknownTool} /\ r.signed \in BOOLEAN
    BY RequestFields
  <1>6. QueryOf(r, geo) = [tool |-> r.tool, policy |-> policy,
                           place |-> place, family |-> family,
                           signed |-> r.signed, format |-> format]
    BY DEF QueryOf
  <1> HIDE DEF policy, place, family, format
  <1> QED  BY <1>1, <1>2, <1>3, <1>4, <1>5, <1>6 DEF Query

(* A request is located where it asks to be.                               *)
AsAsked(r, geo, version) ==
    LET AtAddress(a) == /\ version \in Databases
                        /\ geo = GeoOfIP[version][a] IN
    \/ HasLatLon(r) /\ geo.place = <<r.lat, r.lon>>
    \/ ~HasLatLon(r) /\ IsExplicit(r) /\ AtAddress(r.ip)
    \/ /\ ~HasLatLon(r) /\ ~IsExplicit(r) /\ r.country # Absent
       /\ geo.country \in {r.country, Absent}
    \/ /\ ~HasLatLon(r) /\ ~IsExplicit(r) /\ r.country = Absent
       /\ geo = r.header \/ AtAddress(r.remote)

LEMMA LocationIsAsAsked ==
    ASSUME NEW s, NEW version, s.request \in Request, Located(s, version)
    PROVE  AsAsked(s.request, s.geo, version)
  <1> DEFINE r == s.request
  <1>1. CASE Source(r) = "user_defined"
    <2>1. HasLatLon(r) /\ ~AsksForAddress(r)
      BY <1>1, SourceIsOne DEF AsksForAddress
    <2>2. s.geo.place = <<r.lat, r.lon>>
      BY <1>1, <2>1 DEF Located, Geolocation
    <2> QED  BY <2>1, <2>2 DEF AsAsked
  <1>2. CASE Source(r) = "app_engine"
    <2>1. /\ ~HasLatLon(r) /\ ~IsExplicit(r) /\ r.country = Absent
          /\ ~AsksForAddress(r)
      BY <1>2, SourceIsOne DEF AsksForAddress
    <2>2. s.geo = r.header
      BY <1>2, <2>1 DEF Located, Geolocation
    <2> QED  BY <2>1, <2>2 DEF AsAsked
  <1>3. CASE Source(r) = "maxmind" /\ AsksForAddress(r)
    <2>1. ~HasLatLon(r) /\ (IsExplicit(r) \/ r.country = Absent)
      BY <1>3, SourceIsOne DEF AsksForAddress
    <2>2. version \in Databases /\ s.geo = GeoOfIP[version][IPAddress(r)]
      BY <1>3 DEF Located, Geolocation, MaxmindGeolocation
    <2> QED  BY <2>1, <2>2 DEF AsAsked, IPAddress
  <1>4. CASE Source(r) = "maxmind" /\ ~AsksForAddress(r)
    <2>1. ~HasLatLon(r) /\ ~IsExplicit(r) /\ r.country # Absent
      BY <1>4, SourceIsOne DEF AsksForAddress
    <2>2. s.geo = IF r.city # Absent THEN GeoOfCity[r.city][r.country]
                  ELSE GeoOfCountry[r.country]
      BY <1>4 DEF Located, Geolocation, MaxmindGeolocation
    <2>3. r.country \in Countries /\ r.city \in Cities \cup {Absent}
      BY <2>1, RequestFields
    <2>4. s.geo.country \in {r.country, Absent}
      BY <2>2, <2>3, CountriesAssumption
    <2> QED  BY <2>1, <2>4 DEF AsAsked
  <1> QED  BY <1>1, <1>2, <1>3, <1>4, SourceIsOne

-----------------------------------------------------------------------------
(* The steps.                                                              *)

LEMMA RequestOf ==
    ASSUME InstancesInv, NEW i \in Servers
    PROVE  /\ ServerOK(serving[i], reader[i])
           /\ reader[i] \in Databases \cup {Absent}
           /\ serving[i].pc \notin {"idle", "warmup", "reload"} =>
                 serving[i].request \in Request
  BY InstancesAssumption DEF InstancesInv, ServersOK, ServerOK, ReadersOK

LEMMA IdleType == Idle \in Serving
  BY DEF Idle, Serving, Nowhere, GeoRecord, NoSettings, SettingsRead

(* An instance that goes on so that all is well with it leaves all well,   *)
(* if no other loses its reader.                                           *)
LEMMA GoPreserves ==
    ASSUME InstancesInv, NEW i \in Servers, NEW new, Go(i, new),
           ServerOK(new, reader'[i]),
           reader' \in [Servers -> Databases \cup {Absent}],
           \A j \in Servers \ {i} : reader'[j] = reader[j]
    PROVE  ReadersOK' /\ ServersOK'
  <1>1. \A j \in Servers : serving'[j] = IF j = i THEN new ELSE serving[j]
    BY DEF Go, InstancesInv, ReadersOK
  <1>2. new \in Serving
    BY DEF ServerOK
  <1>3. ReadersOK'
    BY <1>2 DEF Go, InstancesInv, ReadersOK
  <1>4. \A j \in Servers : ServerOK(serving'[j], reader'[j])
    BY <1>1 DEF InstancesInv, ServersOK
  <1> QED  BY <1>3, <1>4 DEF ServersOK

(* The same for a step that opens nothing.                                 *)
LEMMA GoKeepsReader ==
    ASSUME InstancesInv, NEW i \in Servers, NEW new, Go(i, new),
           ServerOK(new, reader[i]), UNCHANGED reader
    PROVE  ReadersOK' /\ ServersOK'
  BY GoPreserves DEF InstancesInv, ReadersOK

(* A request that has ended has nothing more to be well with.              *)
LEMMA EndedOK ==
    ASSUME NEW s \in Serving, NEW version,
           NEW response \in {"none", "proxied", "answered", "nothing",
                             "loaded", "error"}
    PROVE  ServerOK([s EXCEPT !.pc = "idle", !.response = response], version)
  <1>1. [s EXCEPT !.pc = "idle", !.response = response] \in Serving
    BY DEF Serving
  <1>2. [s EXCEPT !.pc = "idle", !.response = response].pc = "idle"
    BY DEF Serving
  <1> QED  BY <1>1, <1>2 DEF ServerOK, LocatedPcs, ProxyPcs

LEMMA FailsPreserves ==
    ASSUME InstancesInv, NEW i \in Servers, Fails(i)
    PROVE  InstancesInv'
  <1>1. serving[i] \in Serving
    BY RequestOf DEF ServerOK
  <1>2. Go(i, Ended(i, "error")) /\ UNCHANGED <<reader, file, setting, copy,
                                               uploads, changes>>
    BY DEF Fails, proxies
  <1>3. ServerOK(Ended(i, "error"), reader[i])
    BY <1>1, EndedOK DEF Ended
  <1>4. ReadersOK' /\ ServersOK'
    BY <1>2, <1>3, GoKeepsReader
  <1> QED  BY <1>2, <1>4 DEF InstancesInv, WorldOK

(* A request that is located stays so when only the rest of what the       *)
(* instance keeps of it changes.                                           *)
LEMMA StaysLocated ==
    ASSUME NEW s, NEW version, ServerOK(s, version), s.pc \in LocatedPcs,
           NEW new \in Serving, new.request = s.request, new.geo = s.geo,
           new.pc \in LocatedPcs \cup {"idle"},
           new.pc \in ProxyPcs => s.pc \in ProxyPcs
    PROVE  ServerOK(new, version)
  BY DEF ServerOK, Located, LocatedPcs, ProxyPcs

(* A step of a request that is located and stays so, or ends.              *)
LEMMA LocatedGoesOn ==
    ASSUME InstancesInv, NEW i \in Servers, serving[i].pc \in LocatedPcs,
           NEW new \in Serving, Go(i, new), UNCHANGED reader,
           new.request = serving[i].request, new.geo = serving[i].geo,
           new.pc \in LocatedPcs \cup {"idle"},
           new.pc \in ProxyPcs => serving[i].pc \in ProxyPcs
    PROVE  ReadersOK' /\ ServersOK'
  <1>1. ServerOK(new, reader[i])
    BY RequestOf, StaysLocated
  <1> QED  BY <1>1, GoKeepsReader

(* The same, ending the request.                                           *)
LEMMA EndPreserves ==
    ASSUME InstancesInv, NEW i \in Servers,
           NEW response \in {"none", "proxied", "answered", "nothing",
                             "loaded", "error"},
           Go(i, Ended(i, response)), UNCHANGED reader
    PROVE  ReadersOK' /\ ServersOK'
  <1>1. serving[i] \in Serving
    BY RequestOf DEF ServerOK
  <1>2. ServerOK(Ended(i, response), reader[i])
    BY <1>1, EndedOK DEF Ended
  <1> QED  BY <1>2, GoKeepsReader

LEMMA WorldPreserves ==
    ASSUME InstancesInv, World
    PROVE  InstancesInv'
  <1>1. UNCHANGED <<reader, serving>>
    BY DEF World, Upload, ChangeSetting, ExpireCopy
  <1> MaxUploads \in Nat /\ MaxChanges \in Nat
    BY InstancesAssumption
  <1>2. ASSUME Upload  PROVE WorldOK'
    <2>1. uploads' \in 0..MaxUploads
      BY <1>2 DEF Upload, InstancesInv, WorldOK
    <2> QED  BY <1>2, <2>1 DEF Upload, InstancesInv, WorldOK, proxies
  <1>3. ASSUME ChangeSetting  PROVE WorldOK'
    <2>1. changes' \in 0..MaxChanges
      BY <1>3 DEF ChangeSetting, InstancesInv, WorldOK
    <2>2. setting' \in SettingsRead
      BY <1>3 DEF ChangeSetting, InstancesInv, WorldOK, SettingsRead
    <2> QED  BY <1>3, <2>1, <2>2 DEF ChangeSetting, InstancesInv, WorldOK
  <1>4. ASSUME NEW e \in Experiments, ExpireCopy(e)  PROVE WorldOK'
    BY <1>4 DEF ExpireCopy, InstancesInv, WorldOK, SettingsRead
  <1>5. WorldOK'
    BY <1>2, <1>3, <1>4 DEF World, InstancesInv
  <1> QED  BY <1>1, <1>5 DEF InstancesInv, ReadersOK, ServersOK

LEMMA RestartPreserves ==
    ASSUME InstancesInv, NEW i \in Servers, Restart(i)
    PROVE  InstancesInv'
  <1>1. Go(i, Idle) /\ UNCHANGED <<file, setting, copy, uploads, changes>>
    BY DEF Restart, Go, proxies
  <1>2. /\ reader' \in [Servers -> Databases \cup {Absent}]
        /\ \A j \in Servers \ {i} : reader'[j] = reader[j]
    BY DEF Restart, InstancesInv, ReadersOK
  <1>3. ServerOK(Idle, reader'[i])
    BY IdleType DEF ServerOK, Idle, LocatedPcs, ProxyPcs
  <1>4. ReadersOK' /\ ServersOK'
    BY <1>1, <1>2, <1>3, GoPreserves
  <1> QED  BY <1>1, <1>4 DEF InstancesInv, WorldOK

LEMMA ReceivePreserves ==
    ASSUME InstancesInv, NEW i \in Servers, Receive(i)
    PROVE  InstancesInv'
  <1>1. UNCHANGED <<file, reader, setting, copy, uploads, changes>>
    BY DEF Receive, ReceiveLookup, ReceiveWarmup, ReceiveReload, proxies
  <1>2. ASSUME NEW r \in Requests,
               Go(i, [Idle EXCEPT !.pc = "parse", !.request = r])
        PROVE  ReadersOK' /\ ServersOK'
    <2> DEFINE new == [Idle EXCEPT !.pc = "parse", !.request = r]
    <2>1. new \in Serving /\ new.pc = "parse" /\ new.request = r
      BY IdleType DEF Serving, Idle
    <2>2. ServerOK(new, reader[i])
      BY <2>1 DEF ServerOK, LocatedPcs, ProxyPcs
    <2> QED  BY <1>1, <1>2, <2>2, GoKeepsReader
  <1>3. ASSUME NEW pc \in {"warmup", "reload"}, Go(i, [Idle EXCEPT !.pc = pc])
        PROVE  ReadersOK' /\ ServersOK'
    <2> DEFINE new == [Idle EXCEPT !.pc = pc]
    <2>1. new \in Serving /\ new.pc = pc
      BY IdleType DEF Serving, Idle
    <2>2. ServerOK(new, reader[i])
      BY <2>1 DEF ServerOK, LocatedPcs, ProxyPcs
    <2> QED  BY <1>1, <1>3, <2>2, GoKeepsReader
  <1>4. ReadersOK' /\ ServersOK'
    BY <1>2, <1>3 DEF Receive, ReceiveLookup, ReceiveWarmup, ReceiveReload
  <1> QED  BY <1>1, <1>4 DEF InstancesInv, WorldOK

(* A reader that is opened is the one there was, or is there from now on.  *)
LEMMA OpensKeeps ==
    ASSUME InstancesInv, NEW i \in Servers, Opens(i)
    PROVE  /\ reader' \in [Servers -> Databases \cup {Absent}]
           /\ \A j \in Servers \ {i} : reader'[j] = reader[j]
           /\ reader'[i] = Database(i) /\ Database(i) \in Databases
           /\ reader[i] # Absent => reader'[i] = reader[i]
  BY DEF Opens, Database, InstancesInv, ReadersOK

(* What a step leaves of the world is enough for WorldOK.                  *)
LEMMA WorldStays ==
    ASSUME InstancesInv, UNCHANGED <<file, proxies, uploads, changes>>
    PROVE  WorldOK'
  BY DEF InstancesInv, WorldOK, proxies

LEMMA ParsePreserves ==
    ASSUME InstancesInv, NEW i \in Servers, Parse(i)
    PROVE  InstancesInv'
  <1> DEFINE r == serving[i].request
             LocatedAt(geo) == [serving[i] EXCEPT !.pc = AfterParsing(r),
                                                  !.geo = geo]
  <1>1. /\ r \in Requests /\ r \in Request
        /\ serving[i] \in Serving
    BY RequestOf, InstancesAssumption DEF Parse, ServerOK
  <1>2. /\ AfterParsing(r) \in {"proxy", "answer"}
        /\ AfterParsing(r) = "proxy" => r.tool \in Experiments
    BY DEF AfterParsing
  <1>3. ASSUME NEW geo \in GeoRecord
        PROVE  /\ LocatedAt(geo) \in Serving
               /\ LocatedAt(geo).pc = AfterParsing(r)
               /\ LocatedAt(geo).request = r
               /\ LocatedAt(geo).geo = geo
    BY <1>1, <1>2 DEF Serving
  <1>4. ASSUME NEW geo \in GeoRecord, NEW version,
               Located(LocatedAt(geo), version)
        PROVE  ServerOK(LocatedAt(geo), version)
    <2> HIDE DEF LocatedAt, r
    <2> QED  BY <1>1, <1>2, <1>3, <1>4 DEF ServerOK, ProxyPcs, LocatedPcs
  <1>5. CASE AsksForAddress(r)
    <2> DEFINE geo == Geolocation(r, GeoOfIP[Database(i)])
    <2>1. Opens(i) /\ Go(i, LocatedAt(geo))
      BY <1>5 DEF Parse
    <2>2. geo \in GeoRecord
      <3>1. GeoOfIP[Database(i)] \in [IPs -> GeoRecord]
        BY <2>1, OpensKeeps, InstancesAssumption
      <3> QED  BY <1>1, <3>1, GeolocationType
    <2>3. Located(LocatedAt(geo), reader'[i])
      <3>1. reader'[i] = Database(i) /\ Database(i) \in Databases
        BY <2>1, OpensKeeps
      <3> HIDE DEF LocatedAt
      <3> QED  BY <1>3, <1>5, <2>2, <3>1 DEF Located
    <2>4. ServerOK(LocatedAt(geo), reader'[i])
      BY <1>4, <2>2, <2>3
    <2> HIDE DEF LocatedAt, geo
    <2>5. ReadersOK' /\ ServersOK'
      BY <2>1, <2>4, OpensKeeps, GoPreserves
    <2> QED  BY <2>5, WorldStays DEF Parse, InstancesInv
  <1>6. CASE ~AsksForAddress(r)
    <2> DEFINE geo == Geolocation(r, Absent)
    <2>1. Go(i, LocatedAt(geo)) /\ UNCHANGED reader
      BY <1>6 DEF Parse
    <2>2. geo \in GeoRecord
      BY <1>1, <1>6, GeolocationType
    <2>3. Located(LocatedAt(geo), reader[i])
      <3> HIDE DEF LocatedAt
      <3> QED  BY <1>3, <1>6, <2>2 DEF Located
    <2>4. ServerOK(LocatedAt(geo), reader[i])
      BY <1>4, <2>2, <2>3
    <2> HIDE DEF LocatedAt, geo
    <2>5. ReadersOK' /\ ServersOK'
      BY <2>1, <2>4, GoKeepsReader
    <2> QED  BY <2>5, WorldStays DEF Parse, InstancesInv
  <1> QED  BY <1>5, <1>6

(* The steps between the proxy's settings and its answer.                  *)
LEMMA ProxyStepPreserves ==
    ASSUME InstancesInv, NEW i \in Servers,
           GetCopy(i) \/ QuerySettings(i) \/ SetCopy(i) \/ UseSetting(i)
               \/ Draw(i) \/ FetchProxied(i)
    PROVE  InstancesInv'
  <1> DEFINE s == serving[i]
  <1>1. s \in Serving /\ s.pc \in ProxyPcs /\ s.request.tool \in Experiments
    BY RequestOf DEF ServerOK, ProxyPcs, GetCopy, QuerySettings, SetCopy,
                     UseSetting, Draw, FetchProxied
  <1>2. ASSUME NEW new \in Serving, Go(i, new), new.request = s.request,
               new.geo = s.geo, new.pc \in LocatedPcs \cup {"idle"},
               UNCHANGED reader
        PROVE  ReadersOK' /\ ServersOK'
    BY <1>1, <1>2, LocatedGoesOn DEF LocatedPcs
  <1>3. setting \in SettingsRead /\ copy \in SettingsRead
    BY DEF InstancesInv, WorldOK
  <1>4. CASE GetCopy(i)
    <2>1. UNCHANGED <<reader, file, proxies, uploads, changes>>
      BY <1>4 DEF GetCopy
    <2>2. CASE /\ copy[s.request.tool] # Absent
               /\ Go(i, [s EXCEPT !.pc = "draw",
                                  !.used = copy[s.request.tool]])
      <3> DEFINE new == [s EXCEPT !.pc = "draw", !.used = copy[s.request.tool]]
      <3>1. copy[s.request.tool] \in Settings
        BY <1>1, <1>3, <2>2 DEF SettingsRead
      <3>2. /\ new \in Serving /\ new.request = s.request
            /\ new.geo = s.geo /\ new.pc = "draw"
        BY <1>1, <3>1 DEF Serving
      <3> HIDE DEF new, s
      <3>3. ReadersOK' /\ ServersOK'
        BY <1>2, <2>1, <2>2, <3>2 DEF new, LocatedPcs, ProxyPcs
      <3> QED  BY <2>1, <3>3, WorldStays DEF InstancesInv
    <2>3. CASE Go(i, [s EXCEPT !.pc = "query"])
      <3> DEFINE new == [s EXCEPT !.pc = "query"]
      <3>2. /\ new \in Serving /\ new.request = s.request
            /\ new.geo = s.geo /\ new.pc = "query"
        BY <1>1 DEF Serving
      <3> HIDE DEF new, s
      <3>3. ReadersOK' /\ ServersOK'
        BY <1>2, <2>1, <2>3, <3>2 DEF new, LocatedPcs, ProxyPcs
      <3> QED  BY <2>1, <3>3, WorldStays DEF InstancesInv
    <2> QED  BY <1>4, <2>2, <2>3 DEF GetCopy
  <1>5. CASE QuerySettings(i)
    <2> DEFINE new == [s EXCEPT !.pc = "cache", !.fetched = setting,
                           !.left = {e \in Experiments : setting[e] # Absent}]
    <2>1. Go(i, new) /\ UNCHANGED <<reader, file, proxies, uploads, changes>>
      BY <1>5 DEF QuerySettings
    <2>2. /\ new \in Serving /\ new.request = s.request
          /\ new.geo = s.geo /\ new.pc = "cache"
      BY <1>1, <1>3 DEF Serving
    <2> HIDE DEF new, s
    <2>3. ReadersOK' /\ ServersOK'
      BY <1>2, <2>1, <2>2 DEF LocatedPcs, ProxyPcs
    <2> QED  BY <2>1, <2>3, WorldStays DEF InstancesInv
  <1>6. CASE SetCopy(i)
    <2>1. PICK e \in s.left :
             /\ Go(i, [s EXCEPT !.left = @ \ {e}])
             /\ \/ copy' = [copy EXCEPT ![e] = s.fetched[e]]
                \/ UNCHANGED copy
      BY <1>6 DEF SetCopy
    <2> DEFINE new == [s EXCEPT !.left = @ \ {e}]
    <2>2. UNCHANGED <<reader, file, setting, uploads, changes>>
      BY <1>6 DEF SetCopy
    <2>3. e \in Experiments /\ s.fetched \in SettingsRead
      BY <1>1 DEF Serving
    <2>4. /\ new \in Serving /\ new.request = s.request
          /\ new.geo = s.geo /\ new.pc = s.pc
      BY <1>1 DEF Serving
    <2>5. copy' \in SettingsRead
      BY <1>3, <2>1, <2>3 DEF SettingsRead
    <2> HIDE DEF new, s
    <2>6. ReadersOK' /\ ServersOK'
      BY <1>1, <1>2, <2>1, <2>2, <2>4 DEF new, LocatedPcs
    <2> QED  BY <2>2, <2>5, <2>6 DEF InstancesInv, WorldOK
  <1>7. CASE UseSetting(i)
    <2> DEFINE used == s.fetched[s.request.tool]
               new == [s EXCEPT !.pc = "draw",
                                !.used = IF used = Absent THEN "never"
                                         ELSE used]
    <2>1. Go(i, new) /\ UNCHANGED <<reader, file, proxies, uploads, changes>>
      BY <1>7 DEF UseSetting
    <2>2. used \in Settings \cup {Absent}
      BY <1>1 DEF Serving, SettingsRead
    <2>3. /\ new \in Serving /\ new.request = s.request
          /\ new.geo = s.geo /\ new.pc = "draw"
      BY <1>1, <2>2 DEF Serving, Settings
    <2> HIDE DEF new, s
    <2>4. ReadersOK' /\ ServersOK'
      BY <1>2, <2>1, <2>3 DEF LocatedPcs, ProxyPcs
    <2> QED  BY <2>1, <2>4, WorldStays DEF InstancesInv
  <1>8. ASSUME NEW pc \in {"answer", "fetch"}, Go(i, [s EXCEPT !.pc = pc]),
               UNCHANGED <<file, reader, proxies, uploads, changes>>
        PROVE  InstancesInv'
    <2> DEFINE new == [s EXCEPT !.pc = pc]
    <2>1. /\ new \in Serving /\ new.request = s.request
          /\ new.geo = s.geo /\ new.pc = pc
      BY <1>1 DEF Serving
    <2> HIDE DEF new, s
    <2>2. ReadersOK' /\ ServersOK'
      BY <1>2, <1>8, <2>1 DEF new, LocatedPcs, ProxyPcs
    <2> QED  BY <1>8, <2>2, WorldStays DEF InstancesInv
  <1>9. ASSUME NEW response \in {"error", "proxied"}, Go(i, Ended(i, response)),
               UNCHANGED <<file, reader, proxies, uploads, changes>>
        PROVE  InstancesInv'
    BY <1>9, EndPreserves, WorldStays DEF InstancesInv
  <1>10. CASE Draw(i)
    BY <1>8, <1>9, <1>10 DEF Draw
  <1>11. CASE FetchProxied(i)
    BY <1>8, <1>9, <1>11 DEF FetchProxied
  <1> QED  BY <1>4, <1>5, <1>6, <1>7, <1>10, <1>11

(* The answer, the log line after it and the reload end their request.     *)
LEMMA AnswerPreserves ==
    ASSUME InstancesInv, NEW i \in Servers, Answer(i)
    PROVE  InstancesInv'
  <1> DEFINE s == serving[i]
             new == [s EXCEPT !.pc = "log", !.response = "answered"]
  <1>1. UNCHANGED <<file, reader, proxies, uploads, changes>>
    BY DEF Answer
  <1>2. s \in Serving /\ s.pc = "answer"
    BY RequestOf DEF ServerOK, Answer
  <1>3. CASE Go(i, new)
    <2>1. /\ new \in Serving /\ new.request = s.request
          /\ new.geo = s.geo /\ new.pc = "log"
      BY <1>2 DEF Serving
    <2> HIDE DEF new
    <2>2. ReadersOK' /\ ServersOK'
      BY <1>1, <1>2, <1>3, <2>1, LocatedGoesOn DEF LocatedPcs, ProxyPcs
    <2> QED  BY <1>1, <2>2, WorldStays DEF InstancesInv
  <1>4. ASSUME NEW response \in {"answered", "nothing"},
               Go(i, Ended(i, response))
        PROVE  InstancesInv'
    BY <1>1, <1>4, EndPreserves, WorldStays DEF InstancesInv
  <1> QED  BY <1>3, <1>4 DEF Answer

(* A request that ends with a reader opened.                               *)
LEMMA OpensAndEnds ==
    ASSUME InstancesInv, NEW i \in Servers,
           NEW response \in {"answered", "loaded"},
           Opens(i), Go(i, Ended(i, response)),
           UNCHANGED <<file, proxies, uploads, changes>>
    PROVE  InstancesInv'
  <1>1. serving[i] \in Serving
    BY RequestOf DEF ServerOK
  <1>2. ServerOK(Ended(i, response), reader'[i])
    BY <1>1, EndedOK DEF Ended
  <1>3. ReadersOK' /\ ServersOK'
    BY <1>2, OpensKeeps, GoPreserves
  <1> QED  BY <1>3, WorldStays DEF InstancesInv

LEMMA ReloadPreserves ==
    ASSUME InstancesInv, NEW i \in Servers, Reload(i)
    PROVE  InstancesInv'
  <1>1. CASE Opens(i)
    BY <1>1, OpensAndEnds DEF Reload
  <1>2. CASE UNCHANGED reader
    <2>1. ReadersOK' /\ ServersOK'
      BY <1>2, EndPreserves DEF Reload
    <2> QED  BY <2>1, WorldStays DEF Reload, InstancesInv
  <1> QED  BY <1>1, <1>2 DEF Reload

LEMMA StepPreserves ==
    ASSUME InstancesInv, NEW i \in Servers, Step(i)
    PROVE  InstancesInv'
  <1>1. CASE Parse(i)
    BY <1>1, ParsePreserves
  <1>2. CASE GetCopy(i) \/ QuerySettings(i) \/ SetCopy(i) \/ UseSetting(i)
                 \/ Draw(i) \/ FetchProxied(i)
    BY <1>2, ProxyStepPreserves
  <1>3. CASE Answer(i)
    BY <1>3, AnswerPreserves
  <1>4. CASE LogLocation(i)
    BY <1>4, OpensAndEnds DEF LogLocation
  <1>5. CASE Reload(i)
    BY <1>5, ReloadPreserves
  <1>6. CASE ParseFails(i) \/ QuerySettingsFails(i) \/ FetchProxiedFails(i)
                 \/ AnswerFails(i) \/ LogLocationFails(i) \/ WarmUp(i)
                 \/ ReloadFails(i)
    BY <1>6, FailsPreserves
       DEF ParseFails, QuerySettingsFails, FetchProxiedFails, AnswerFails,
           LogLocationFails, WarmUp, ReloadFails
  <1> QED  BY <1>1, <1>2, <1>3, <1>4, <1>5, <1>6 DEF Step

-----------------------------------------------------------------------------
(* The theorems.                                                           *)

(* In every reachable state the types are right, and each located request  *)
(* has the location its instance's database gives it.                      *)
THEOREM LocationsStay == Spec => []InstancesInv
  <1>1. Init => InstancesInv
    <2> SUFFICES ASSUME Init  PROVE InstancesInv
      OBVIOUS
    <2>1. WorldOK
      BY InstancesAssumption DEF Init, WorldOK, SettingsRead, NoSettings
    <2>2. ReadersOK
      BY IdleType DEF Init, ReadersOK
    <2>3. ServersOK
      BY IdleType
         DEF Init, ServersOK, ServerOK, Idle, LocatedPcs, ProxyPcs
    <2> QED  BY <2>1, <2>2, <2>3 DEF InstancesInv
  <1>2. InstancesInv /\ [Next]_vars => InstancesInv'
    <2> SUFFICES ASSUME InstancesInv, [Next]_vars  PROVE InstancesInv'
      OBVIOUS
    <2>1. CASE World
      BY <2>1, WorldPreserves
    <2>2. ASSUME NEW i \in Servers, Restart(i)  PROVE InstancesInv'
      BY <2>2, RestartPreserves
    <2>3. ASSUME NEW i \in Servers, Receive(i)  PROVE InstancesInv'
      BY <2>3, ReceivePreserves
    <2>4. ASSUME NEW i \in Servers, Step(i)  PROVE InstancesInv'
      BY <2>4, StepPreserves
    <2>5. CASE UNCHANGED vars
      BY <2>5 DEF vars, proxies, InstancesInv, WorldOK, ReadersOK, ServersOK
    <2> QED  BY <2>1, <2>2, <2>3, <2>4, <2>5 DEF Next
  <1> QED  BY <1>1, <1>2, PTL DEF Spec

(* Every variable of the instances keeps its type: a located request is    *)
(* one that a client made, and the reverse proxy is consulted only for     *)
(* tools that have one.                                                    *)
THEOREM InstancesTypeCorrect == Spec => []TypeOK
  <1>1. InstancesInv => TypeOK
    BY DEF InstancesInv, WorldOK, ReadersOK, ServersOK, ServerOK, TypeOK,
           ProxyPcs
  <1> QED  BY <1>1, LocationsStay, PTL

(* Whatever a request holds, and whatever the database knows, the resolver *)
(* gets a query it is made for.                                            *)
THEOREM QueriesStayLegal == Spec => []QueriesAreLegal
  <1>1. InstancesInv => QueriesAreLegal
    <2> SUFFICES ASSUME InstancesInv, NEW i \in Servers, IsLocated(i)
                 PROVE  LET r == serving[i].request
                            q == QueryAsked(i) IN
                        /\ q \in Query
                        /\ q.policy = "geo" /\ q.place = Absent =>
                               IsExplicit(r) \/ r.country # Absent
      BY DEF QueriesAreLegal
    <2> DEFINE r == serving[i].request
               geo == serving[i].geo
    <2>1. r \in Request /\ Located(serving[i], reader[i])
      BY RequestOf DEF IsLocated, ServerOK, LocatedPcs, ProxyPcs
    <2>2. geo \in GeoRecord
      BY <2>1, LocatedType
    <2>3. QueryAsked(i) \in Query
      BY <2>1, <2>2, QueryIsLegal DEF QueryAsked
    <2>4. /\ QueryAsked(i).policy = Policy(r, geo)
          /\ QueryAsked(i).place = PlaceOf(r, Policy(r, geo), geo)
      BY DEF QueryAsked, QueryOf
    <2>5. PICK database : geo = Geolocation(r, database)
      BY <2>1 DEF Located
    <2>6. ASSUME Policy(r, geo) = "geo", PlaceOf(r, "geo", geo) = Absent
          PROVE  IsExplicit(r) \/ r.country # Absent
      BY <2>1, <2>5, <2>6, GeoPlaceKnown
    <2> QED  BY <2>3, <2>4, <2>6
  <1> QED  BY <1>1, LocationsStay, PTL

(* A request is located where it asks to be, in the database that its      *)
(* instance has, whatever is uploaded or reloaded meanwhile.               *)
THEOREM RequestsLocatedAsAsked == Spec => []LocatedAsAsked
  <1>1. InstancesInv => LocatedAsAsked
    <2> SUFFICES ASSUME InstancesInv, NEW i \in Servers, IsLocated(i)
                 PROVE  AsAsked(serving[i].request, serving[i].geo, reader[i])
      BY DEF LocatedAsAsked, AsAsked
    <2>1. /\ serving[i].request \in Request
          /\ Located(serving[i], reader[i])
      BY RequestOf DEF IsLocated, ServerOK, LocatedPcs, ProxyPcs
    <2> QED  BY <2>1, LocationIsAsAsked
  <1> QED  BY <1>1, LocationsStay, PTL

-----------------------------------------------------------------------------
(* "The generated client signature cannot be longer than 250 characters so *)
(* it can be used as a Memcache key" (lookup_query.py:320): whatever the   *)
(* user agent and the resource, for an address of up to 208 characters.    *)
(* What is cut off is never counted from the end, as a slice of a negative *)
(* length would.                                                           *)
THEOREM SignatureFits ==
    ASSUME NEW ip \in Nat, NEW agent \in Nat, NEW resource \in Nat,
           ip <= KeyMaxSize - ResourceMinSize - 2
    PROVE  /\ SignatureSize(ip, agent, resource) <= KeyMaxSize
           /\ UserAgentSize(ip, agent, resource) \in 0..agent
           /\ ResourceSize(ip, resource) \in 0..resource
  <1> DEFINE room == KeyMaxSize - ip - resource - 2
             size == ResourceSize(ip, resource)
  <1>1. /\ size \in 0..resource
        /\ size <= KeyMaxSize - ip - 2
    <2>1. CASE room < ResourceMinSize
      BY <2>1 DEF ResourceSize, ShorterOf, KeyMaxSize, ResourceMinSize
    <2>2. CASE ~(room < ResourceMinSize)
      BY <2>2 DEF ResourceSize, ShorterOf, KeyMaxSize, ResourceMinSize
    <2>3. QED  BY <2>1, <2>2
  <1> HIDE DEF size
  <1>2. UserAgentSize(ip, agent, resource)
           = ShorterOf(agent, KeyMaxSize - ip - size - 2)
    BY DEF UserAgentSize, size
  <1>3. SignatureSize(ip, agent, resource)
           = ip + UserAgentSize(ip, agent, resource) + size + 2
    BY DEF SignatureSize, size
  <1>4. QED
    <2>1. UserAgentSize(ip, agent, resource) \in 0..agent
      BY <1>1, <1>2 DEF ShorterOf, KeyMaxSize
    <2>2. SignatureSize(ip, agent, resource) <= KeyMaxSize
      BY <1>1, <1>2, <1>3 DEF ShorterOf, KeyMaxSize
    <2>3. QED  BY <1>1, <2>1, <2>2 DEF size
=============================================================================
