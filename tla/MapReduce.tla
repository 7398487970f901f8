------------------------------ MODULE MapReduce ------------------------------
(***************************************************************************)
(* One job of the map engine deployed with the application (mapreduce/, of *)
(* app.yaml's includes), started by the pipeline that loads the logs:      *)
(* handlers.py with the entities of model.py and the file writer of        *)
(* output_writers.py.                                                      *)
(*                                                                         *)
(* Every handler is the body of a task.  The task queue runs a task again  *)
(* until one run of it ends without an exception, so a run that stops      *)
(* anywhere leaves the task, to be run from its beginning.  A task with a  *)
(* name is added once: a second one of that name is refused, also long     *)
(* after the first has run.  Handlers of different tasks interleave at     *)
(* every call to the datastore, to the queue and to the files.             *)
(*                                                                         *)
(* Left out: counters, quotas (a slice may end after any entity), payloads *)
(* that are kept in the datastore, hooks, and the charts.                  *)
(***************************************************************************)
EXTENDS Integers, FiniteSets

CONSTANTS
    ShardCount,         \* input readers of the job
    Entities,           \* entities each of them reads
    NoEntity,           \* what db.get finds where there is nothing
    MaxSlices,          \* bound: slices of each shard
    MaxPolls,           \* bound: controller runs while shards are active
    MaxFaults,          \* bound: runs that stop halfway, and commands
    KickOffRepeats      \* may the kickoff stop after it has added a slice

ASSUME MapReduceAssumption ==
    /\ ShardCount \in Nat \ {0}
    /\ Entities \in Nat
    /\ MaxSlices \in [0..(ShardCount - 1) -> Nat \ {0}]
    /\ MaxPolls \in Nat /\ MaxFaults \in Nat
    /\ KickOffRepeats \in BOOLEAN

Shards == 0..(ShardCount - 1)

(* What the reader of a shard yields, and what it has yielded before i.    *)
EntitiesOf(s) == {s} \X (1..Entities)
Slice(s, from, to) == {s} \X ((from + 1)..to)

(* Files are created anew in every run of the kickoff: a file is the       *)
(* number of that run and the index of the file in it.                     *)
Files == (1..(MaxFaults + 1)) \X (0..(ShardCount - 1))

Results == {"success", "failed", "aborted"}

(* The entities.  filenames and request_filenames are the writer_state, of *)
(* the second of which only matters whether it is empty.                   *)
MapreduceState == [active : BOOLEAN, result_status : Results \cup {"none"},
                   filenames : SUBSET Files, request_filenames : BOOLEAN]
ShardState == [active : BOOLEAN, result_status : Results \cup {"none"}]

ASSUME NoEntityAssumption == \A names \in SUBSET Files : NoEntity # names

VARIABLES
    sharding,           \* OUTPUT_SHARDING_PARAM of the job
    mapreduceState,     \* MapreduceState
    shardState,         \* ShardState, of each shard
    control,            \* is there a MapreduceControl: the command to abort
    files,              \* content of the files, and whether they are final
    kickoff,            \* the kickoff task
    workers,            \* the worker tasks
    slices,             \* how many slices of a shard were ever added
    controllers,        \* the controller tasks
    polls,              \* how many of these were ever added
    finalizer,          \* the task that deletes temporary entities
    doneTasks,          \* calls of the done callback that are due
    output,             \* what the last of these answered the pipeline
    faults              \* runs that stopped halfway, and commands

entities == <<mapreduceState, shardState, control>>
queue == <<kickoff, workers, slices, controllers, polls, finalizer>>
vars == <<sharding, entities, files, queue, doneTasks, output, faults>>

Worker == [shard : Shards, slice : Nat, from : 0..Entities,
           file : Files, to : 0..Entities, done : BOOLEAN,
           pc : {"queued", "finalizeAborted", "abort", "control", "flush",
                 "finalize", "put", "reschedule", "end"}]

Controller == [serial : 0..MaxPolls, control : BOOLEAN,
               state : MapreduceState \cup {NoEntity},
               pc : {"queued", "shards", "lost", "put", "reschedule",
                     "files", "schedule", "commit", "end"}]

TypeOK ==
    /\ sharding \in {"none", "input"}
    /\ mapreduceState \in MapreduceState \cup {NoEntity}
    /\ shardState \in [Shards -> ShardState \cup {NoEntity}]
    /\ control \in BOOLEAN
    /\ files \in [Files -> [content : SUBSET (UNION {EntitiesOf(s) :
                                                          s \in Shards}),
                            finalized : BOOLEAN]]
    /\ kickoff \in [pc : {"absent", "queued", "shards", "slices",
                          "controller", "end", "over"},
                    run : 0..(MaxFaults + 1), next : 0..ShardCount]
    /\ workers \subseteq Worker
    /\ slices \in [Shards -> Nat]
    /\ \A s \in Shards : slices[s] <= MaxSlices[s]
    /\ controllers \subseteq Controller
    /\ polls \in 0..(MaxPolls + 1)
    /\ finalizer \in {"absent", "queued", "shards", "end", "over"}
    /\ doneTasks \in 0..(MaxFaults + 1)
    /\ output \in (SUBSET Files) \cup {NoEntity}
    /\ faults \in 0..MaxFaults

Init ==
    /\ sharding \in {"none", "input"}
    /\ mapreduceState = NoEntity
    /\ shardState = [s \in Shards |-> NoEntity]
    /\ control = FALSE
    /\ files = [f \in Files |-> [content |-> {}, finalized |-> FALSE]]
    /\ kickoff = [pc |-> "absent", run |-> 0, next |-> 0]
    /\ workers = {} /\ slices = [s \in Shards |-> 0]
    /\ controllers = {} /\ polls = 0
    /\ finalizer = "absent"
    /\ doneTasks = 0 /\ output = NoEntity
    /\ faults = 0

Running == [active |-> TRUE, result_status |-> "none",
            filenames |-> {}, request_filenames |-> FALSE]

-----------------------------------------------------------------------------
(* The start, and the kickoff.                                             *)

(* One transaction puts the state and adds the task.                       *)
StartMap ==
    /\ kickoff.pc = "absent"
    /\ mapreduceState' = Running
    /\ kickoff' = [kickoff EXCEPT !.pc = "queued"]
    /\ UNCHANGED <<sharding, shardState, control, files, workers, slices,
                   controllers, polls, finalizer, doneTasks, output, faults>>

FileOf(run, s) == <<run, IF sharding = "input" THEN s ELSE 0>>

(* create_new, init_job and the put: whatever the state was, it is that of *)
(* a job that begins, with new files.                                      *)
KickOff ==
    /\ kickoff.pc = "queued"
    /\ mapreduceState' =
          [Running EXCEPT
              !.filenames = {FileOf(kickoff.run + 1, s) : s \in Shards},
              !.request_filenames = TRUE]
    /\ kickoff' = [pc |-> "shards", run |-> kickoff.run + 1, next |-> 0]
    /\ UNCHANGED <<sharding, shardState, control, files, workers, slices,
                   controllers, polls, finalizer, doneTasks, output, faults>>

(* _schedule_shards: only shards that do not exist are put.                *)
PutShards ==
    /\ kickoff.pc = "shards"
    /\ shardState' = [s \in Shards |->
                         IF shardState[s] # NoEntity THEN shardState[s]
                         ELSE [active |-> TRUE, result_status |-> "none"]]
    /\ kickoff' = [kickoff EXCEPT !.pc = "slices"]
    /\ UNCHANGED <<sharding, mapreduceState, control, files, workers, slices,
                   controllers, polls, finalizer, doneTasks, output, faults>>

NewSlice(s, n, from, file) ==
    [shard |-> s, slice |-> n, from |-> from, file |-> file,
     to |-> 0, done |-> FALSE, pc |-> "queued"]

(* Mutant: the task has no name of its own, and is added each time.        *)
ScheduleSliceAnew(rest, s, n, from, file) ==
    /\ workers' = rest \cup {NewSlice(s, n, from, file)}
    /\ slices' = [slices EXCEPT ![s] = @ + 1]

(* _schedule_slice: the name of the task holds the shard and the slice, of *)
(* which the next number is free and the lower ones are taken.             *)
ScheduleSlice(rest, s, n, from, file) ==
    IF n = slices[s]
    THEN /\ workers' = rest \cup {NewSlice(s, n, from, file)}
         /\ slices' = [slices EXCEPT ![s] = n + 1]
    ELSE workers' = rest /\ UNCHANGED slices

KickOffSlice ==
    /\ kickoff.pc = "slices"
    /\ ScheduleSlice(workers, kickoff.next, 0, 0,
                     FileOf(kickoff.run, kickoff.next))
    /\ kickoff' = [kickoff EXCEPT
                      !.next = @ + 1,
                      !.pc = IF kickoff.next + 1 = ShardCount
                             THEN "controller" ELSE @]
    /\ UNCHANGED <<sharding, entities, files, controllers, polls, finalizer,
                   doneTasks, output, faults>>

(* reschedule: as with slices, a number whose name is taken adds nothing.  *)
ScheduleController(rest, n) ==
    IF n = polls
    THEN /\ controllers' = rest \cup
               {[serial |-> n, control |-> FALSE, state |-> NoEntity,
                 pc |-> "queued"]}
         /\ polls' = n + 1
    ELSE controllers' = rest /\ UNCHANGED polls

KickOffController ==
    /\ kickoff.pc = "controller"
    /\ ScheduleController(controllers, 0)
    /\ kickoff' = [kickoff EXCEPT !.pc = "end"]
    /\ UNCHANGED <<sharding, entities, files, workers, slices, finalizer,
                   doneTasks, output, faults>>

KickOffEnds ==
    /\ kickoff.pc = "end"
    /\ kickoff' = [kickoff EXCEPT !.pc = "over"]
    /\ UNCHANGED <<sharding, entities, files, workers, slices, controllers,
                   polls, finalizer, doneTasks, output, faults>>

-----------------------------------------------------------------------------
(* A worker task: one slice of a shard.                                    *)

At(task, pc) == [task EXCEPT !.pc = pc]
Replace(tasks, old, new) == (tasks \ {old}) \cup {new}

Again(w) == NewSlice(w.shard, w.slice, w.from, w.file)

(* The end of a run without an exception: the task is done with.           *)
WorkerEnds(w) ==
    /\ w.pc = "end"
    /\ workers' = workers \ {w}
    /\ UNCHANGED <<sharding, entities, files, kickoff, slices, controllers,
                   polls, finalizer, doneTasks, output, faults>>

(* The scan ends when the reader has no more, or else after any entity:    *)
(* the time is up, or the quota.                                           *)
ScanMayEnd(w, to, done) == IF done THEN to = Entities
                           ELSE w.slice + 1 < MaxSlices[w.shard]
Scanned(w, to, done) == [w EXCEPT !.pc = "flush", !.to = to, !.done = done]

(* The shard state and the command are read, once.                         *)
WorkerBegins(w) ==
    /\ w.pc = "queued"
    /\ LET shard == shardState[w.shard] IN
       IF shard = NoEntity THEN workers' = workers \ {w}
       ELSE IF ~shard.active THEN workers' = workers \ {w}
       ELSE IF control
       THEN workers' = Replace(workers, w, At(w, "finalizeAborted"))
       ELSE \E to \in w.from..Entities, done \in BOOLEAN :
               /\ ScanMayEnd(w, to, done)
               /\ workers' = Replace(workers, w, Scanned(w, to, done))
    /\ UNCHANGED <<sharding, entities, files, kickoff, slices, controllers,
                   polls, finalizer, doneTasks, output, faults>>

(* ctx.flush appends what the slice yielded.  A final file refuses it.     *)
Flush(w) ==
    /\ w.pc = "flush"
    /\ LET new == Slice(w.shard, w.from, w.to) IN
       IF new # {} /\ files[w.file].finalized
       THEN workers' = Replace(workers, w, Again(w)) /\ UNCHANGED files
       ELSE /\ files' = [files EXCEPT ![w.file].content = @ \cup new]
            /\ workers' = Replace(workers, w,
                               At(w, IF w.done THEN "finalize" ELSE "put"))
    /\ UNCHANGED <<sharding, entities, kickoff, slices, controllers, polls,
                   finalizer, doneTasks, output, faults>>

(* OutputWriter.finalize: of a file of its own only.                       *)
FinalizeShard(w) ==
    /\ w.pc \in {"finalize", "finalizeAborted"}
    /\ files' = [files EXCEPT ![w.file].finalized = @ \/ sharding = "input"]
    /\ workers' = Replace(workers, w,
                       At(w, IF w.pc = "finalize" THEN "put" ELSE "abort"))
    /\ UNCHANGED <<sharding, entities, kickoff, slices, controllers, polls,
                   finalizer, doneTasks, output, faults>>

(* Whatever the shard state has become meanwhile.                          *)
AbortShard(w) ==
    /\ w.pc = "abort"
    /\ shardState' = [shardState EXCEPT ![w.shard] =
                         [active |-> FALSE, result_status |-> "aborted"]]
    /\ workers' = Replace(workers, w, At(w, "control"))
    /\ UNCHANGED <<sharding, mapreduceState, control, files, kickoff, slices,
                   controllers, polls, finalizer, doneTasks, output, faults>>

RepeatCommand(w) ==
    /\ w.pc = "control"
    /\ control' = TRUE
    /\ workers' = Replace(workers, w, At(w, "end"))
    /\ UNCHANGED <<sharding, mapreduceState, shardState, files, kickoff,
                   slices, controllers, polls, finalizer, doneTasks, output,
                   faults>>

(* Mutant: the state is put without a look at what it has become.          *)
PutShardUnchecked(w) ==
    /\ w.pc = "put"
    /\ shardState' = [shardState EXCEPT ![w.shard] =
          [active |-> ~w.done,
           result_status |-> IF w.done THEN "success" ELSE "none"]]
    /\ workers' = Replace(workers, w,
                          At(w, IF w.done THEN "end" ELSE "reschedule"))
    /\ UNCHANGED <<sharding, mapreduceState, control, files, kickoff, slices,
                   controllers, polls, finalizer, doneTasks, output, faults>>

(* tx: the state is put if the shard is still active.  That it is gone     *)
(* raises.                                                                 *)
PutShard(w) ==
    /\ w.pc = "put"
    /\ LET fresh == shardState[w.shard] IN
       IF fresh = NoEntity
       THEN workers' = Replace(workers, w, Again(w)) /\ UNCHANGED shardState
       ELSE IF ~fresh.active
       THEN workers' = Replace(workers, w, At(w, "end")) /\ UNCHANGED shardState
       ELSE /\ shardState' = [shardState EXCEPT ![w.shard] =
                 [active |-> ~w.done,
                  result_status |-> IF w.done THEN "success" ELSE "none"]]
            /\ workers' = Replace(workers, w,
                               At(w, IF w.done THEN "end" ELSE "reschedule"))
    /\ UNCHANGED <<sharding, mapreduceState, control, files, kickoff, slices,
                   controllers, polls, finalizer, doneTasks, output, faults>>

(* Mutant: an entity was fetched before the quota refused it, and the      *)
(* reader does not yield it again.                                         *)
RescheduleSliceAhead(w) ==
    /\ w.pc = "reschedule"
    /\ ScheduleSlice(Replace(workers, w, At(w, "end")), w.shard, w.slice + 1,
                     IF w.to < Entities THEN w.to + 1 ELSE w.to, w.file)
    /\ UNCHANGED <<sharding, entities, files, kickoff, controllers, polls,
                   finalizer, doneTasks, output, faults>>

RescheduleSlice(w) ==
    /\ w.pc = "reschedule"
    /\ ScheduleSlice(Replace(workers, w, At(w, "end")),
                     w.shard, w.slice + 1, w.to, w.file)
    /\ UNCHANGED <<sharding, entities, files, kickoff, controllers, polls,
                   finalizer, doneTasks, output, faults>>

WorkerStep(w) ==
    \/ WorkerBegins(w) \/ Flush(w) \/ FinalizeShard(w) \/ PutShard(w)
    \/ AbortShard(w) \/ RepeatCommand(w) \/ RescheduleSlice(w)
    \/ WorkerEnds(w)

-----------------------------------------------------------------------------
(* A controller task: one look at all shards.                              *)

ControllerEnds(c) ==
    /\ c.pc = "end"
    /\ controllers' = controllers \ {c}
    /\ UNCHANGED <<sharding, entities, files, kickoff, workers, slices,
                   polls, finalizer, doneTasks, output, faults>>

ControllerBegins(c) ==
    /\ c.pc = "queued"
    /\ IF mapreduceState = NoEntity THEN controllers' = controllers \ {c}
       ELSE controllers' = Replace(controllers, c,
               [c EXCEPT !.pc = "shards", !.state = mapreduceState,
                         !.control = control])
    /\ UNCHANGED <<sharding, entities, files, kickoff, workers, slices,
                   polls, finalizer, doneTasks, output, faults>>

There == {s \in Shards : shardState[s] # NoEntity}
ActiveShards == {s \in There : shardState[s].active}
(* Mutant: only failed shards make the job fail.                           *)
NoneFailed == \A s \in There : shardState[s].result_status # "failed"
AllSucceeded == \A s \in There : shardState[s].result_status = "success"

(* Some shards were lost.                                                  *)
Lost(c) == c.state.active /\ There # Shards

StillActive(c) == c.state.active /\ ~Lost(c) /\ ActiveShards # {}

(* The final status: that of a command that was there before the shards    *)
(* were read, or the one it had, or what the shards say.                   *)
FinalStatus(c) ==
    LET had == IF Lost(c) THEN "failed" ELSE c.state.result_status IN
    IF c.control THEN "aborted"
    ELSE IF had # "none" THEN had
    ELSE IF AllSucceeded THEN "success" ELSE "failed"

ReadShards(c) ==
    /\ c.pc = "shards"
    /\ c.serial < MaxPolls \/ ActiveShards = {}
    /\ controllers' = Replace(controllers, c,
          IF StillActive(c) THEN At(c, "put")
          ELSE [c EXCEPT !.state.active = FALSE,
                         !.state.result_status = FinalStatus(c),
                         !.pc = IF Lost(c) THEN "lost" ELSE "files"])
    /\ UNCHANGED <<sharding, entities, files, kickoff, workers, slices,
                   polls, finalizer, doneTasks, output, faults>>

AbortLost(c) ==
    /\ c.pc = "lost"
    /\ control' = TRUE
    /\ controllers' = Replace(controllers, c, At(c, "files"))
    /\ UNCHANGED <<sharding, mapreduceState, shardState, files, kickoff,
                   workers, slices, polls, finalizer, doneTasks, output,
                   faults>>

(* The state is put as it was read, without a transaction.                 *)
PutState(c) ==
    /\ c.pc = "put"
    /\ mapreduceState' = c.state
    /\ controllers' = Replace(controllers, c, At(c, "reschedule"))
    /\ UNCHANGED <<sharding, shardState, control, files, kickoff, workers,
                   slices, polls, finalizer, doneTasks, output, faults>>

RescheduleController(c) ==
    /\ c.pc = "reschedule"
    /\ ScheduleController(Replace(controllers, c, At(c, "end")), c.serial + 1)
    /\ UNCHANGED <<sharding, entities, files, kickoff, workers, slices,
                   finalizer, doneTasks, output, faults>>

(* finalize_job of the writer: the names of the files are zipped with the  *)
(* names asked for, which it then clears.                                  *)
FinalizedNames(state) ==
    [state EXCEPT !.filenames = IF state.request_filenames THEN @ ELSE {},
                  !.request_filenames = FALSE]

FinalizeFiles(c) ==
    /\ c.pc = "files"
    /\ files' = [f \in Files |->
          [files[f] EXCEPT
              !.finalized = @ \/ /\ sharding # "input"
                                 /\ c.state.request_filenames
                                 /\ f \in c.state.filenames]]
    /\ controllers' = Replace(controllers, c,
          [c EXCEPT !.pc = "schedule", !.state = FinalizedNames(c.state)])
    /\ UNCHANGED <<sharding, entities, kickoff, workers, slices, polls,
                   finalizer, doneTasks, output, faults>>

(* FinalizeJobHandler.schedule adds a task that is not part of the         *)
(* transaction around it.                                                  *)
ScheduleFinalizer(c) ==
    /\ c.pc = "schedule"
    /\ finalizer' = IF finalizer = "absent" THEN "queued" ELSE finalizer
    /\ controllers' = Replace(controllers, c, At(c, "commit"))
    /\ UNCHANGED <<sharding, entities, files, kickoff, workers, slices,
                   polls, doneTasks, output, faults>>

(* The transaction: the state is put and the done callback added.          *)
CommitState(c) ==
    /\ c.pc = "commit"
    /\ mapreduceState' = c.state
    /\ doneTasks' = doneTasks + 1
    /\ controllers' = Replace(controllers, c, At(c, "end"))
    /\ UNCHANGED <<sharding, shardState, control, files, kickoff, workers,
                   slices, polls, finalizer, output, faults>>

ControllerStep(c) ==
    \/ ControllerBegins(c) \/ ReadShards(c) \/ AbortLost(c) \/ PutState(c)
    \/ RescheduleController(c) \/ FinalizeFiles(c) \/ ScheduleFinalizer(c)
    \/ CommitState(c) \/ ControllerEnds(c)

-----------------------------------------------------------------------------
(* The end of the job, the commands, and runs that stop halfway.           *)

(* FinalizeJobHandler deletes the command, then the shard states.          *)
DeleteControl ==
    /\ finalizer = "queued"
    /\ IF mapreduceState = NoEntity
       THEN finalizer' = "over" /\ UNCHANGED control
       ELSE finalizer' = "shards" /\ control' = FALSE
    /\ UNCHANGED <<sharding, mapreduceState, shardState, files, kickoff,
                   workers, slices, controllers, polls, doneTasks, output,
                   faults>>

DeleteShards ==
    /\ finalizer = "shards"
    /\ finalizer' = "end"
    /\ shardState' = [s \in Shards |-> NoEntity]
    /\ UNCHANGED <<sharding, mapreduceState, control, files, kickoff, workers,
                   slices, controllers, polls, doneTasks, output, faults>>

FinalizerEnds ==
    /\ finalizer = "end"
    /\ finalizer' = "over"
    /\ UNCHANGED <<sharding, entities, files, kickoff, workers, slices,
                   controllers, polls, doneTasks, output, faults>>

(* MapperPipeline.callback fills the default output with the files.        *)
Callback ==
    /\ doneTasks > 0
    /\ mapreduceState # NoEntity
    /\ output' = mapreduceState.filenames
    /\ doneTasks' = doneTasks - 1
    /\ UNCHANGED <<sharding, entities, files, queue, faults>>

Fault == faults < MaxFaults /\ faults' = faults + 1

AbortJob ==
    /\ kickoff.pc # "absent" /\ ~control
    /\ Fault
    /\ control' = TRUE
    /\ UNCHANGED <<sharding, mapreduceState, shardState, files, queue,
                   doneTasks, output>>

CleanUpJob ==
    /\ mapreduceState # NoEntity
    /\ Fault
    /\ mapreduceState' = NoEntity
    /\ UNCHANGED <<sharding, shardState, control, files, queue, doneTasks,
                   output>>

(* A slice of this run of the kickoff is in the queue.                     *)
AddedSlice == \/ kickoff.pc = "slices" /\ kickoff.next > 0
              \/ kickoff.pc \in {"controller", "end"}

KickOffStops ==
    /\ kickoff.pc \notin {"absent", "queued", "over"}
    /\ AddedSlice => KickOffRepeats
    /\ kickoff' = [kickoff EXCEPT !.pc = "queued", !.next = 0]
    /\ UNCHANGED <<workers, controllers, finalizer>>

WorkerStops(w) ==
    /\ w.pc # "queued"
    /\ workers' = Replace(workers, w, Again(w))
    /\ UNCHANGED <<kickoff, controllers, finalizer>>

ControllerStops(c) ==
    /\ c.pc # "queued"
    /\ controllers' = Replace(controllers, c,
          [c EXCEPT !.pc = "queued", !.state = NoEntity, !.control = FALSE])
    /\ UNCHANGED <<kickoff, workers, finalizer>>

FinalizerStops ==
    /\ finalizer \in {"shards", "end"}
    /\ finalizer' = "queued"
    /\ UNCHANGED <<kickoff, workers, controllers>>

Stop ==
    /\ Fault
    /\ \/ KickOffStops \/ FinalizerStops
       \/ \E w \in workers : WorkerStops(w)
       \/ \E c \in controllers : ControllerStops(c)
    /\ UNCHANGED <<sharding, entities, files, slices, polls, doneTasks,
                   output>>

KickOffStep == \/ KickOff \/ PutShards \/ KickOffSlice \/ KickOffController
               \/ KickOffEnds
FinalizerStep == DeleteControl \/ DeleteShards \/ FinalizerEnds

Next ==
    \/ StartMap \/ KickOffStep \/ FinalizerStep \/ Callback
    \/ \E w \in workers : WorkerStep(w)
    \/ \E c \in controllers : ControllerStep(c)
    \/ AbortJob \/ CleanUpJob \/ Stop

Spec == Init /\ [][Next]_vars

(* The queue runs each task until a run of it ends.                        *)
Queue ==
    /\ WF_vars(KickOffStep) /\ WF_vars(FinalizerStep) /\ WF_vars(Callback)
    /\ \A s \in Shards : \A n \in 0..(MaxSlices[s] - 1) :
          WF_vars(\E w \in workers : /\ w.shard = s /\ w.slice = n
                                     /\ WorkerStep(w))
    /\ \A n \in 0..MaxPolls :
          WF_vars(\E c \in controllers : c.serial = n /\ ControllerStep(c))

FairSpec == Spec /\ Queue
=============================================================================
