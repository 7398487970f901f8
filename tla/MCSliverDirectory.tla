------------------------- MODULE MCSliverDirectory -------------------------
(***************************************************************************)
(* Instances of the sliver directory for TLC.                              *)
(***************************************************************************)
EXTENDS SliverDirectoryProperties

CONSTANTS h1, s1

(* All hosts on one site and one slice, which all tools use.               *)
OneSite == [h \in Hosts |-> s1]
OneSlice == [h \in Hosts |-> Tools]
=============================================================================
