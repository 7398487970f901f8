---------------------------- MODULE LookupQuery ----------------------------
(***************************************************************************)
(* How the query of a lookup follows from the HTTP request: the class      *)
(* LookupQuery of util/lookup_query.py, with what it asks of the           *)
(* geolocation tables (util/maxmind.py).                                   *)
(*                                                                         *)
(* A coordinate is an integer, of which the code tells apart zero (which   *)
(* is not true), the limits of the legal range, and NaN, which float()     *)
(* parses too and which no comparison refuses.  The city of a location is  *)
(* only logged, and is left out.                                           *)
(***************************************************************************)
EXTENDS Integers, Selection

CONSTANTS
    IPs,                        \* IP addresses of clients
    Cities,                     \* names of cities
    Malformed,                  \* an argument that does not parse
    Empty,                      \* a metro argument without text
    NaN,                        \* float('nan')
    Coordinates,                \* the coordinates that occur
    MaxLatitude, MaxLongitude,  \* MAX_LATITUDE_ABSOLUTE, MAX_LONGITUDE_...
    GeoOfCity, GeoOfCountry     \* MaxmindCityLocation and CountryCode

Numbers == Coordinates \ {NaN}

ASSUME CoordinatesAssumption ==
    /\ Numbers \subseteq Int
    /\ MaxLatitude \in Nat /\ MaxLongitude \in Nat
    /\ {Absent, Malformed} \cap Coordinates = {}
    /\ Coordinates \X Coordinates \subseteq Locations
ASSUME ArgumentsAssumption ==
    /\ {Absent, Malformed} \cap IPs = {}
    /\ Absent \notin Cities
    /\ {Absent, Malformed} \cap Policies = {}
    /\ {Absent, Malformed} \cap Formats = {}
    /\ Malformed \notin Families
    /\ Empty \notin Metros /\ Absent # Empty
    /\ Malformed # Absent /\ Malformed \notin Locations

(* A GeoRecord, the empty one, and what the tables know.                   *)
GeoRecord == [place   : Locations \cup {Absent},
              country : Countries \cup {Absent}]
Nowhere == [place |-> Absent, country |-> Absent]

ASSUME GeoTablesAssumption ==
    /\ GeoOfCountry \in [Countries -> GeoRecord]
    /\ GeoOfCity \in [Cities -> [Countries -> GeoRecord]]

(* Cities are queried by their country; a country is stored under its code *)
(* (get_country_geolocation and CountryCode.alpha2_code).                  *)
ASSUME CountriesAssumption ==
    \A c \in Countries :
        /\ GeoOfCountry[c].country \in {c, Absent}
        /\ \A city \in Cities : GeoOfCity[city][c].country \in {c, Absent}

(* A request, as far as a query depends on it.  Absent is an argument or a *)
(* header that is missing, or empty where the code does not tell these     *)
(* apart; Malformed one that does not parse or is not among the legal.     *)
Request ==
    [tool    : Tools \cup {UnknownTool},
     format  : Formats \cup {Absent, Malformed},
     family  : Families \cup {Absent, Malformed},
     policy  : Policies \cup {Absent, Malformed},
     metro   : Metros \cup {Absent, Empty},
     remote  : IPs,
     ip      : IPs \cup {Absent, Malformed},
     city    : Cities \cup {Absent},
     country : Countries \cup {Absent},
     lat     : Coordinates \cup {Absent, Malformed},
     lon     : Coordinates \cup {Absent, Malformed},
     header  : [place   : (Coordinates \X Coordinates) \cup {Absent, Malformed},
                country : Countries \cup {Absent}],
     signed  : BOOLEAN]

-----------------------------------------------------------------------------
(* Where the client is.                                                    *)

IsExplicit(r) == r.ip \in IPs /\ r.ip # r.remote
IPAddress(r) == IF IsExplicit(r) THEN r.ip ELSE r.remote

(* NaN passes, for it is not greater than the limit.                       *)
InRange(x, limit) == x = NaN \/ (-limit <= x /\ x <= limit)

(* _get_user_defined_lat_lon returns a pair                                *)
HasLatLon(r) ==
    /\ r.lat \in Coordinates /\ r.lon \in Coordinates
    /\ InRange(r.lat, MaxLatitude) /\ InRange(r.lon, MaxLongitude)

(* Both coordinates are true in the sense of Python.                       *)
BothTrue(place) == place[1] # 0 /\ place[2] # 0

HeaderLocates(r) == /\ r.header.place \notin {Absent, Malformed}
                    /\ BothTrue(r.header.place)

(* Wrong on purpose: the header counts before the arguments do.            *)
SourceHeaderFirst(r) ==
    IF HeaderLocates(r) THEN "app_engine"
    ELSE IF HasLatLon(r) THEN "user_defined" ELSE "maxmind"

(* _geolocation_type                                                       *)
Source(r) ==
    IF HasLatLon(r) THEN "user_defined"
    ELSE IF IsExplicit(r) \/ r.country # Absent THEN "maxmind"
    ELSE IF HeaderLocates(r) THEN "app_engine"
    ELSE "maxmind"

(* The geolocation database is asked for an address: the one in the        *)
(* arguments, or that of the client if there is neither argument nor       *)
(* header; the tables of cities and countries otherwise.                   *)
AsksForAddress(r) ==
    Source(r) = "maxmind" /\ (IsExplicit(r) \/ r.country = Absent)

MaxmindGeolocation(r, database) ==
    IF AsksForAddress(r) THEN database[IPAddress(r)]
    ELSE IF r.city # Absent THEN GeoOfCity[r.city][r.country]
    ELSE GeoOfCountry[r.country]

(* _set_geolocation, where database is what the reader of the instance     *)
(* knows of addresses.                                                     *)
Geolocation(r, database) ==
    IF Source(r) = "user_defined"
    THEN [place |-> <<r.lat, r.lon>>, country |-> r.country]
    ELSE IF Source(r) = "app_engine" THEN r.header
    ELSE MaxmindGeolocation(r, database)

-----------------------------------------------------------------------------
(* The policy, and what it selects by.                                     *)

DefaultPolicy(geo) == IF geo.place = Absent THEN "random" ELSE "geo"

(* The arguments say where the client is: only a geo policy will do.       *)
IsPinned(r) == \/ HasLatLon(r) /\ BothTrue(<<r.lat, r.lon>>)
               \/ IsExplicit(r)

(* Wrong on purpose: the default policy is geo, location or not.           *)
PolicyAlwaysGeo(r, geo) ==
    IF r.policy \in Policies THEN r.policy ELSE "geo"

(* _set_policy                                                             *)
Policy(r, geo) ==
    IF IsPinned(r)
    THEN IF r.policy \in GeoPolicies THEN r.policy ELSE "geo"
    ELSE IF r.country # Absent
    THEN IF r.policy = "country" THEN "country" ELSE "geo"
    ELSE IF r.metro # Absent THEN "metro"
    ELSE IF r.policy \in {"random", "geo_options", "all"} THEN r.policy
    ELSE DefaultPolicy(geo)

PlaceOf(r, policy, geo) ==
    IF policy \in GeoPolicies THEN geo.place
    ELSE IF policy = "country" THEN geo.country
    ELSE IF policy = "metro" /\ r.metro # Empty THEN r.metro
    ELSE Absent

(* initialize_from_http_request                                            *)
QueryOf(r, geo) ==
    LET policy == Policy(r, geo) IN
    [tool   |-> r.tool,
     policy |-> policy,
     place  |-> PlaceOf(r, policy, geo),
     family |-> IF r.family \in Families THEN r.family ELSE "any",
     signed |-> r.signed,
     format |-> IF r.format \in Formats THEN r.format ELSE "json"]

-----------------------------------------------------------------------------
(* The client's signature, the key of its entry in memcache, by the        *)
(* lengths of its parts: the address, the user agent and the resource.     *)

KeyMaxSize == 250
ResourceMinSize == 40

ShorterOf(a, b) == IF a < b THEN a ELSE b

ResourceSize(ip, resource) ==
    LET room == KeyMaxSize - ip - resource - 2 IN
    ShorterOf(resource, IF room < ResourceMinSize THEN ResourceMinSize ELSE room)

UserAgentSize(ip, agent, resource) ==
    ShorterOf(agent, KeyMaxSize - ip - ResourceSize(ip, resource) - 2)

(* calculate_client_signature: two separators join the parts.              *)
SignatureSize(ip, agent, resource) ==
    ip + UserAgentSize(ip, agent, resource) + ResourceSize(ip, resource) + 2
=============================================================================
