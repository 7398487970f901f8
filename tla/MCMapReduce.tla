----------------------------- MODULE MCMapReduce -----------------------------
(***************************************************************************)
(* Instances of one job of the map engine for TLC.                         *)
(***************************************************************************)
EXTENDS MapReduceProperties

(* The scan of the first shard may be interrupted.                         *)
SomeSlices == [s \in Shards |-> IF s = 0 THEN 2 ELSE 1]
==============================================================================
