------------------------------ MODULE MCLookups ------------------------------
(***************************************************************************)
(* Instances of the lookups for TLC: two hosts at site s1, one at s2, and  *)
(* one at the backup site s3.                                              *)
(***************************************************************************)
EXTENDS LookupProperties, TLC

CONSTANTS t1, t0, h1, h2, h3, h4, s1, s2, s3, a1, near, far, m1, m2, c1, c2

SiteOfHosts == (h1 :> s1) @@ (h2 :> s1) @@ (h3 :> s2) @@ (h4 :> s3)
RankOfHosts == (h1 :> 1) @@ (h2 :> 2) @@ (h3 :> 3) @@ (h4 :> 4)
MetrosOfSites == (s1 :> {m1}) @@ (s2 :> {m1, m2}) @@ (s3 :> {})
CountryOfHosts == (h1 :> c1) @@ (h2 :> c1) @@ (h3 :> c2) @@ (h4 :> c2)
DistanceOfSites == (near :> ((s1 :> 1) @@ (s2 :> 2) @@ (s3 :> 1)))
                   @@ (far :> ((s1 :> 2) @@ (s2 :> 1) @@ (s3 :> 2)))

Sliver(v4, v6, roundrobin) ==
    [ip |-> [ipv4 |-> a1, ipv6 |-> NoAddress],
     status |-> [ipv4 |-> v4, ipv6 |-> v6], roundrobin |-> roundrobin]

Up == Sliver("online", "offline", FALSE)
Up6 == Sliver("offline", "online", FALSE)
UpRoundRobin == Sliver("online", "online", TRUE)
Down == Sliver("offline", "offline", FALSE)

TableOf(e1, e2, e3, e4) == (h1 :> e1) @@ (h2 :> e2) @@ (h3 :> e3) @@ (h4 :> e4)

(* Tables in the order of a platform that grows, and that of its statuses. *)
SomeTables ==
    {NoEntities,
     TableOf(Down, Up, Absent, Absent),
     TableOf(Down, Absent, Up, Absent),
     TableOf(Down, Up, Up6, Up),
     TableOf(UpRoundRobin, UpRoundRobin, Down, Up),
     TableOf(Up, Up, Up, Down)}

Ask(tool, policy, place, family, signed, format) ==
    [tool |-> tool, policy |-> policy, place |-> place, family |-> family,
     signed |-> signed, format |-> format]

GeoQueries ==
    {Ask(t1, "geo", near, "any", FALSE, "json"),
     Ask(t1, "geo", far, "ipv4", TRUE, "html"),
     Ask(t1, "geo", near, "ipv4", FALSE, "redirect"),
     Ask(t1, "geo", Absent, "ipv6", FALSE, "json"),
     Ask(t1, "geo_options", near, "any", FALSE, "json"),
     Ask(t1, "geo_options", far, "any", FALSE, "redirect")}

OtherQueries ==
    {Ask(t1, "all", Absent, "any", FALSE, "json"),
     Ask(t1, "all", Absent, "ipv6", FALSE, "bt"),
     Ask(t0, "all", Absent, "any", FALSE, "json"),
     Ask(t1, "metro", m1, "any", FALSE, "json"),
     Ask(t1, "metro", Absent, "any", FALSE, "json"),
     Ask(t1, "country", c2, "ipv4", FALSE, "json"),
     Ask(t1, "random", Absent, "any", FALSE, "redirect"),
     Ask(t1, "random", Absent, "any", FALSE, "map")}

AllQueries == GeoQueries \cup OtherQueries
=============================================================================
