----------------------------- MODULE MCInstances -----------------------------
(***************************************************************************)
(* Instances of the instances for TLC: one tool with a reverse proxy, two  *)
(* versions of the database, which do not agree.                           *)
(***************************************************************************)
EXTENDS InstancesProperties, TLC

CONSTANTS t1, t0, d1, d2, i1, i2, c1, c2, m1, rome

PlacesThere == {0, 1, 2, NaN}
AllLocations == PlacesThere \X PlacesThere

(* No host and no site: the lookup itself is in Lookups.                   *)
NoSites == [h \in {} |-> Absent]
NoDistances == [l \in AllLocations |-> NoSites]

At(place, country) == [place |-> place, country |-> country]

GeoOfVersions ==
    (d1 :> ((i1 :> At(<<1, 0>>, c1)) @@ (i2 :> At(Absent, Absent)))) @@
    (d2 :> ((i1 :> At(<<0, 1>>, c2)) @@ (i2 :> At(<<1, 1>>, c1))))
GeoOfCountries == (c1 :> At(<<0, 1>>, c1)) @@ (c2 :> Nowhere)
GeoOfCities == rome :> ((c1 :> At(<<1, 1>>, c1)) @@ (c2 :> Nowhere))

Plain == [tool |-> t1, format |-> Absent, family |-> Absent,
          policy |-> Absent, metro |-> Absent, remote |-> i1, ip |-> Absent,
          city |-> Absent, country |-> Absent, lat |-> Absent, lon |-> Absent,
          header |-> At(<<1, 1>>, c2), signed |-> FALSE]

(* Requests that take each path, with headers and without.                 *)
SomeRequests ==
    {Plain,
     [Plain EXCEPT !.header = At(Absent, c2)],
     [Plain EXCEPT !.header = At(<<0, 1>>, c2), !.remote = i2],
     [Plain EXCEPT !.header = At(Malformed, Absent), !.policy = "geo",
                   !.remote = i2],
     [Plain EXCEPT !.ip = i2, !.policy = "country"],
     [Plain EXCEPT !.ip = i1, !.policy = "geo_options"],
     [Plain EXCEPT !.ip = Malformed, !.policy = Malformed],
     [Plain EXCEPT !.lat = 1, !.lon = 2, !.policy = "metro", !.metro = m1],
     [Plain EXCEPT !.lat = 2, !.lon = 1, !.policy = "metro"],
     [Plain EXCEPT !.lat = 0, !.lon = 1, !.policy = "random"],
     [Plain EXCEPT !.lat = 0, !.lon = 0, !.ip = i2, !.country = c1,
                   !.policy = "country"],
     [Plain EXCEPT !.lat = NaN, !.lon = 1, !.country = c2],
     [Plain EXCEPT !.lat = Malformed, !.lon = 1, !.country = c1,
                   !.policy = "country", !.metro = m1],
     [Plain EXCEPT !.country = c2, !.city = rome, !.policy = "country"],
     [Plain EXCEPT !.country = c1, !.city = rome, !.policy = "all"],
     [Plain EXCEPT !.metro = Empty, !.policy = "all"],
     [Plain EXCEPT !.city = rome, !.policy = "all", !.tool = t0],
     [Plain EXCEPT !.header = At(Absent, Absent), !.policy = "country"]}
=============================================================================
