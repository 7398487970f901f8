---------------------------- MODULE MCHostPerSite ----------------------------
(***************************************************************************)
(* The loop on every list of up to four hosts, for TLC.                    *)
(***************************************************************************)
EXTENDS HostPerSite, TLC

CONSTANTS h1, h2, h3, h4, s1

OneSite == [h \in Hosts |-> s1]
RankOfHosts == (h1 :> 1) @@ (h2 :> 2) @@ (h3 :> 3) @@ (h4 :> 4)
NoMetros == [s \in Sites |-> {}]
OneCountry == [h \in Hosts |-> s1]
NoDistance == [l \in Locations |-> [s \in Sites |-> 0]]
=============================================================================
