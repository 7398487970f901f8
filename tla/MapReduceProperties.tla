------------------------- MODULE MapReduceProperties -------------------------
(***************************************************************************)
(* What a job of the map engine promises, and the mutants its properties   *)
(* are tried on.                                                           *)
(***************************************************************************)
EXTENDS MapReduce

(* A shard's result says success only when everything its reader yields is *)
(* in the file its slices write to: a slice flushes before it puts the     *)
(* shard state, and each slice begins where the one before it left off,    *)
(* whichever runs were cut short and repeated (handlers.py:203-229).       *)
NothingSkipped ==
    \A s \in Shards :
        (shardState[s] # NoEntity /\ shardState[s].result_status = "success")
            => EntitiesOf(s) \subseteq files[FileOf(kickoff.run, s)].content

(* A shard that has ended stays ended: a run of a slice that was overtaken *)
(* by its successor does not make it active again, which would leave the   *)
(* job waiting for ever (issue 116, handlers.py:211-229), and only an      *)
(* abort, which "overrides some data" (138), changes the result.           *)
EndedStays(s) ==
    LET old == shardState[s]  new == shardState'[s] IN
    old # NoEntity /\ ~old.active =>
        \/ new \in {NoEntity, old}
        \/ new = [active |-> FALSE, result_status |-> "aborted"]
ShardsEndOnce == [][\A s \in Shards : EndedStays(s)]_vars

(* The pipeline is first told that a job has succeeded only when the files *)
(* the job lists are final and hold everything that every shard reads      *)
(* (handlers.py:414-425, 514-538).                                         *)
Succeeded(state) == state # NoEntity /\ state.result_status = "success"
Everything == UNION {EntitiesOf(s) : s \in Shards}
ListedFilesHold(state) ==
    /\ \A f \in state.filenames : files[f].finalized
    /\ Everything \subseteq UNION {files[f].content : f \in state.filenames}
Told == doneTasks > 0 \/ output # NoEntity
SuccessMeansAll ==
    [][~Told /\ Told' /\ Succeeded(mapreduceState')
          => ListedFilesHold(mapreduceState)']_vars

(* A job whose output is one file ends: its pipeline is called back,       *)
(* unless somebody deletes the job (handlers.py:516-538).  Where each      *)
(* shard has a file of its own this does not hold: a slice that stops      *)
(* between the end of its file (208) and the put of its shard (229) can    *)
(* never write again.                                                      *)
JobEnds ==
    (kickoff.pc = "queued" /\ sharding = "none")
        ~> (output # NoEntity \/ mapreduceState = NoEntity)
==============================================================================
