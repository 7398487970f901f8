------------------------- MODULE InstancesProperties -------------------------
(***************************************************************************)
(* What the instances promise.                                             *)
(***************************************************************************)
EXTENDS Instances

IsLocated(i) == serving[i].pc \in {"proxy", "query", "cache", "draw", "fetch",
                                   "answer", "log"}

(* Whatever mixture of arguments and headers a request has, the resolver   *)
(* gets a query it is made for: the policy is a known one, and what it     *)
(* selects by is a place of the kind it needs, or unknown.  Where the code *)
(* chose the geo policy by itself, the place is known, unless the client   *)
(* named an address or a country (lookup_query.py:260).                    *)
QueriesAreLegal ==
    \A i \in Servers : IsLocated(i) =>
        LET r == serving[i].request
            q == QueryAsked(i) IN
        /\ q \in Query
        /\ q.policy = "geo" /\ q.place = Absent =>
               IsExplicit(r) \/ r.country # Absent

(* A client that says where it is gets located there, and not where App    *)
(* Engine's header has it: at its coordinates, if they are legal; or else  *)
(* where the database says its address is; or else in its country.  One    *)
(* that says nothing is located by the header, or by its own address.  The *)
(* database of a request is the one its instance has from then on, even    *)
(* when the file changes meanwhile.                                        *)
LocatedAsAsked ==
    \A i \in Servers : IsLocated(i) =>
        LET r == serving[i].request
            geo == serving[i].geo
            AtAddress(a) == /\ reader[i] \in Databases
                            /\ geo = GeoOfIP[reader[i]][a] IN
        \/ HasLatLon(r) /\ geo.place = <<r.lat, r.lon>>
        \/ ~HasLatLon(r) /\ IsExplicit(r) /\ AtAddress(r.ip)
        \/ /\ ~HasLatLon(r) /\ ~IsExplicit(r) /\ r.country # Absent
           /\ geo.country \in {r.country, Absent}
        \/ /\ ~HasLatLon(r) /\ ~IsExplicit(r) /\ r.country = Absent
           /\ geo = r.header \/ AtAddress(r.remote)

(* A setting that was changed is used in the end: once operators leave the *)
(* settings alone, memcache ends up, for good, without copies that say     *)
(* anything else than the datastore, though a slow request may set an old  *)
(* copy after a newer one expired (reverse_proxy.py:34).                   *)
CopiesSettle ==
    <>[](\A e \in Experiments : copy[e] \in {Absent, setting[e]})

(* Every request ends, through all that may fail on its way.               *)
RequestsEnd == \A i \in Servers : serving[i].pc # "idle" ~> serving[i].pc = "idle"

-----------------------------------------------------------------------------
(* What the code says.  It does not hold: see the README.                  *)

(* "Reloads the MaxMind database file from GCS, perhaps updating it" and   *)
(* "Generates the new Reader object" (update.py:489, 496).                 *)
ReloadUpdatesReader ==
    [][\A i \in Servers :
          /\ serving[i].pc = "reload" /\ serving'[i].response = "loaded"
          /\ file \in Databases /\ reader[i] # Absent
          => reader'[i] = file]_vars
=============================================================================
