------------------------------ MODULE MCService ------------------------------
(***************************************************************************)
(* Instances of the service for TLC: hosts on one site and one slice, that *)
(* clients ask for by any policy that needs no place.                      *)
(***************************************************************************)
EXTENDS Service

CONSTANTS h1, s1, t1, c1

OneSite == [h \in Hosts |-> s1]
OneSlice == [h \in Hosts |-> Tools]
NoMetros == [s \in Sites |-> {}]
OneCountry == [h \in Hosts |-> c1]
NoDistances == [l \in {} |-> 0]
OneRank == [h \in Hosts |-> 1]

Ask(family) == [tool |-> t1, policy |-> "all", place |-> Absent,
                family |-> family, signed |-> FALSE, format |-> "json"]
SomeQueries == {Ask("ipv6")}
=============================================================================
