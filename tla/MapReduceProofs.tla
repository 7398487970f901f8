--------------------------- MODULE MapReduceProofs ---------------------------
(***************************************************************************)
(* For every number of shards, entities, slices and polls, and any number  *)
(* of runs that stop halfway: a shard that says success is written whole,  *)
(* a shard that has ended stays ended, and the job that is first reported  *)
(* a success lists final files that hold everything.                       *)
(*                                                                         *)
(* The first and the third need that the kickoff does not stop after it    *)
(* has added a slice, for its next run makes new files: run map_restart    *)
(* shows what happens otherwise.  Neither is inductive by itself.  What    *)
(* carries the first is that each slice in the queue begins where all      *)
(* before it has been written to its file (WorkerOK), and that nothing is  *)
(* in the queue, and no shard has ended, before the last run of the        *)
(* kickoff (NothingEarly).  The third adds what a controller knows when it *)
(* decides: the shards it read had all succeeded and stay so, their files  *)
(* are final (ShardsFinal), and nobody has been told anything else.        *)
(*                                                                         *)
(* That everything keeps its type needs an argument where counters do: the *)
(* tasks that tell the pipeline are as few as TypeOK says because they,    *)
(* with the controllers that may still add one, number at most one more    *)
(* than the runs that stopped (OneTeller).                                 *)
(***************************************************************************)
EXTENDS MapReduceProperties, FiniteSetTheorems, TLAPS

(* The run of the kickoff that adds the first slice has got that far.      *)
SlicesAdded == AddedSlice \/ kickoff.pc = "over"

Written(s) == files[FileOf(kickoff.run, s)].content

WorkerOK(w) ==
    /\ w \in Worker
    /\ w.file = FileOf(kickoff.run, w.shard)
    /\ Slice(w.shard, 0, w.from) \subseteq Written(w.shard)
    /\ w.pc \in {"finalize", "put", "reschedule"}
          => Slice(w.shard, 0, w.to) \subseteq Written(w.shard)
    /\ w.pc \in {"flush", "finalize", "put"} /\ w.done => w.to = Entities

WorkersOK == \A w \in workers : WorkerOK(w)

KickOffOK ==
    /\ kickoff \in [pc : {"absent", "queued", "shards", "slices",
                          "controller", "end", "over"},
                    run : Nat, next : Nat]
    /\ faults \in 0..MaxFaults
    /\ kickoff.pc \in {"absent", "queued"} => kickoff.run <= faults
    /\ kickoff.pc \notin {"absent", "queued"} =>
          kickoff.run \in 1..(faults + 1)
    /\ kickoff.pc = "shards" => kickoff.next = 0
    /\ kickoff.pc = "slices" => kickoff.next < ShardCount

StatesOK ==
    /\ shardState \in [Shards -> ShardState \cup {NoEntity}]
    /\ files \in [Files -> [content : SUBSET Everything, finalized : BOOLEAN]]

Ended(s) == /\ shardState[s] # NoEntity
            /\ shardState[s].result_status = "success"

NothingEarly ==
    ~SlicesAdded => workers = {} /\ \A s \in Shards : ~Ended(s)

WrittenInv ==
    /\ StatesOK /\ KickOffOK /\ WorkersOK /\ NothingEarly /\ NothingSkipped

-----------------------------------------------------------------------------
(* Facts about the operators.                                              *)

(* What a shard reads in two slices is what it reads in one.               *)
LEMMA SlicesJoin ==
    ASSUME NEW s, NEW from \in Nat, NEW to \in Nat
    PROVE Slice(s, 0, to) \subseteq Slice(s, 0, from) \cup Slice(s, from, to)
  BY DEF Slice

(* A shard is the slice from its beginning to its end, and a slice from    *)
(* the beginning to the beginning is nothing.                              *)
LEMMA SliceEnds ==
    ASSUME NEW s
    PROVE Slice(s, 0, Entities) = EntitiesOf(s) /\ Slice(s, 0, 0) = {}
  BY MapReduceAssumption DEF Slice, EntitiesOf

(* Slices are made of entities of their shard.                             *)
LEMMA SliceOfShard ==
    ASSUME NEW s \in Shards, NEW from \in 0..Entities, NEW to \in 0..Entities
    PROVE Slice(s, from, to) \subseteq Everything
  <1>1. Slice(s, from, to) \subseteq EntitiesOf(s)
    BY MapReduceAssumption DEF Slice, EntitiesOf
  <1> QED
    BY <1>1 DEF Everything

(* The files of the kickoff's present run are files.                       *)
LEMMA FileThere ==
    ASSUME KickOffOK, kickoff.pc \notin {"absent", "queued"},
           NEW s \in Shards
    PROVE FileOf(kickoff.run, s) \in Files
  BY MapReduceAssumption DEF KickOffOK, FileOf, Files, Shards

(* A new slice is a worker task.                                           *)
LEMMA NewSliceTyped ==
    ASSUME NEW s \in Shards, NEW n \in Nat, NEW from \in 0..Entities,
           NEW file \in Files
    PROVE NewSlice(s, n, from, file) \in Worker
  BY MapReduceAssumption DEF NewSlice, Worker

-----------------------------------------------------------------------------
(* What does not touch a worker leaves it in order.                        *)

(* As long as the files only grow and the kickoff does not make new ones.  *)
FilesGrow ==
    /\ kickoff'.run = kickoff.run /\ sharding' = sharding
    /\ \A f \in Files : files[f].content \subseteq files'[f].content

LEMMA WorkerKept ==
    ASSUME WrittenInv, FilesGrow, NEW w, WorkerOK(w)
    PROVE WorkerOK(w)'
  <1>1. w.file \in Files /\ w.file = FileOf(kickoff.run, w.shard)
    BY DEF WorkerOK, Worker
  <1>2. FileOf(kickoff.run, w.shard)' = FileOf(kickoff.run, w.shard)
    BY DEF FilesGrow, FileOf
  <1>3. Written(w.shard) \subseteq Written(w.shard)'
    BY <1>1, <1>2 DEF FilesGrow, Written, FileOf
  <1> QED
    BY <1>1, <1>2, <1>3 DEF WorkerOK, FileOf, FilesGrow, Slice

(* A shard that was written whole still is.                                *)
LEMMA ShardKept ==
    ASSUME WrittenInv, FilesGrow, NEW s \in Shards, SlicesAdded,
           EntitiesOf(s) \subseteq Written(s)
    PROVE EntitiesOf(s) \subseteq Written(s)'
  <1>1. FileOf(kickoff.run, s) \in Files
    BY FileThere DEF WrittenInv, SlicesAdded, AddedSlice
  <1>2. Written(s) \subseteq Written(s)'
    BY <1>1 DEF FilesGrow, Written, FileOf
  <1> QED
    BY <1>2 DEF EntitiesOf

(* Steps after the first slice was added, of which each task they add is   *)
(* in order and each shard they end is written whole.                      *)
LEMMA LateStep ==
    ASSUME WrittenInv, StatesOK', KickOffOK', FilesGrow, SlicesAdded',
           \A v \in workers' : v \in workers \/ WorkerOK(v)',
           \A s \in Shards : Ended(s)' => \/ Ended(s)
                                        \/ EntitiesOf(s) \subseteq Written(s)'
    PROVE WrittenInv'
  <1>1. WorkersOK'
    BY WorkerKept DEF WrittenInv, WorkersOK
  <1>2. NothingEarly'
    BY DEF NothingEarly
  <1>3. NothingSkipped'
    <2> SUFFICES ASSUME NEW s \in Shards, Ended(s)'
                 PROVE EntitiesOf(s)' \subseteq Written(s)'
      BY DEF NothingSkipped, Ended, Written
    <2>1. CASE EntitiesOf(s) \subseteq Written(s)'
      BY <2>1 DEF EntitiesOf
    <2>2. CASE Ended(s)
      <3>1. SlicesAdded
        BY <2>2 DEF WrittenInv, NothingEarly
      <3>2. EntitiesOf(s) \subseteq Written(s)
        BY <2>2 DEF WrittenInv, NothingSkipped, Ended, Written
      <3> QED
        BY <3>1, <3>2, ShardKept DEF EntitiesOf
    <2> QED
      BY <2>1, <2>2
  <1> QED
    BY <1>1, <1>2, <1>3 DEF WrittenInv

(* Steps before it.                                                        *)
LEMMA EarlyStep ==
    ASSUME WrittenInv, StatesOK', KickOffOK', ~SlicesAdded,
           UNCHANGED workers, \A s \in Shards : Ended(s)' => Ended(s)
    PROVE WrittenInv'
  BY DEF WrittenInv, NothingEarly, WorkersOK, NothingSkipped, Ended

(* Steps, before it or after, that leave the workers and the kickoff alone *)
(* and end no shard well.                                                  *)
LEMMA CalmStep ==
    ASSUME WrittenInv, StatesOK', KickOffOK', FilesGrow,
           UNCHANGED <<kickoff, workers>>,
           \A s \in Shards : Ended(s)' => Ended(s)
    PROVE WrittenInv'
  <1>1. CASE SlicesAdded
    <2>1. SlicesAdded'
      BY <1>1 DEF SlicesAdded, AddedSlice
    <2> QED
      BY <2>1, LateStep
  <1>2. CASE ~SlicesAdded
    BY <1>2, EarlyStep
  <1> QED
    BY <1>1, <1>2

-----------------------------------------------------------------------------
(* The kickoff.                                                            *)

LEMMA EarlyKickOffSteps ==
    ASSUME WrittenInv, StartMap \/ KickOff \/ PutShards
    PROVE WrittenInv'
  <1>1. KickOffOK' /\ ~SlicesAdded
    <2>1. CASE StartMap
      BY <2>1 DEF StartMap, WrittenInv, KickOffOK, SlicesAdded, AddedSlice
    <2>2. CASE KickOff
      BY <2>2 DEF KickOff, WrittenInv, KickOffOK, SlicesAdded, AddedSlice
    <2>3. CASE PutShards
      <3>1. /\ kickoff'.pc = "slices" /\ kickoff'.run = kickoff.run
            /\ kickoff'.next = kickoff.next /\ kickoff'.next < ShardCount
        BY <2>3, MapReduceAssumption DEF PutShards, WrittenInv, KickOffOK
      <3> QED
        BY <2>3, <3>1 DEF PutShards, WrittenInv, KickOffOK, SlicesAdded,
                          AddedSlice
    <2> QED
      BY <2>1, <2>2, <2>3
  <1>2. /\ UNCHANGED <<workers, files>>
        /\ \A s \in Shards : Ended(s)' => Ended(s)
        /\ shardState' \in [Shards -> ShardState \cup {NoEntity}]
    <2>1. CASE PutShards
      <3> DEFINE new == [active |-> TRUE, result_status |-> "none"]
      <3>1. new \in ShardState /\ new.result_status # "success"
        BY DEF ShardState, Results
      <3>2. shardState' = [s \in Shards |->
               IF shardState[s] # NoEntity THEN shardState[s] ELSE new]
        BY <2>1 DEF PutShards
      <3> HIDE DEF new
      <3> QED
        BY <2>1, <3>1, <3>2 DEF PutShards, WrittenInv, StatesOK, Ended
    <2> QED
      BY <2>1 DEF StartMap, KickOff, WrittenInv, StatesOK, Ended
  <1>3. StatesOK'
    BY <1>2 DEF WrittenInv, StatesOK, Everything, EntitiesOf, Files, Shards
  <1> QED
    BY <1>1, <1>2, <1>3, EarlyStep

LEMMA KickOffSliceStep ==
    ASSUME WrittenInv, KickOffSlice
    PROVE WrittenInv'
  <1>0. PICK s, file, v : /\ s = kickoff.next
                          /\ file = FileOf(kickoff.run, s)
                          /\ v = NewSlice(s, 0, 0, file)
    OBVIOUS
  <1>1. s \in Shards /\ kickoff.pc = "slices"
    BY <1>0, MapReduceAssumption
    DEF KickOffSlice, WrittenInv, KickOffOK, Shards
  <1>2. KickOffOK' /\ SlicesAdded' /\ kickoff'.run = kickoff.run
    <2>1. /\ kickoff'.run = kickoff.run /\ kickoff'.next = s + 1
          /\ kickoff'.pc = IF s + 1 = ShardCount THEN "controller"
                           ELSE "slices"
          /\ faults' = faults
      BY <1>0, <1>1 DEF KickOffSlice, WrittenInv, KickOffOK
    <2>2. kickoff' \in [pc : {"absent", "queued", "shards", "slices",
                              "controller", "end", "over"},
                        run : Nat, next : Nat]
      <3>1. PICK pc \in {"controller", "slices"} :
               kickoff' = [kickoff EXCEPT !.next = s + 1, !.pc = pc]
        BY <1>0, <1>1 DEF KickOffSlice
      <3>2. s + 1 \in Nat
        BY <1>1 DEF Shards
      <3> QED
        BY <3>1, <3>2 DEF WrittenInv, KickOffOK
    <2> QED
      BY <1>1, <2>1, <2>2, MapReduceAssumption
      DEF WrittenInv, KickOffOK, SlicesAdded, AddedSlice, Shards
  <1>3. /\ StatesOK' /\ FilesGrow
        /\ \A x \in Shards : Ended(x)' => Ended(x)
    BY <1>2 DEF KickOffSlice, entities, WrittenInv, StatesOK, FilesGrow, Ended,
                Everything, EntitiesOf, Files, Shards
  <1>4. WorkerOK(v)
    <2>1. file \in Files
      BY <1>0, <1>1, FileThere DEF WrittenInv
    <2>2. v \in Worker
      BY <1>0, <1>1, <2>1, NewSliceTyped, MapReduceAssumption
    <2>3. v.shard = s /\ v.file = file /\ v.from = 0 /\ v.pc = "queued"
      BY <1>0 DEF NewSlice
    <2> QED
      BY <1>0, <2>2, <2>3, SliceEnds DEF WorkerOK
  <1>5. WorkerOK(v)'
    BY <1>3, <1>4, WorkerKept
  <1>6. workers' \subseteq workers \cup {v}
    BY <1>0 DEF KickOffSlice, ScheduleSlice
  <1> QED
    BY <1>2, <1>3, <1>5, <1>6, LateStep

LEMMA LateKickOffSteps ==
    ASSUME WrittenInv, KickOffController \/ KickOffEnds
    PROVE WrittenInv'
  <1>1. /\ KickOffOK' /\ SlicesAdded' /\ FilesGrow
        /\ UNCHANGED <<shardState, workers, files>>
    BY DEF KickOffController, KickOffEnds, entities, WrittenInv, KickOffOK,
           SlicesAdded, AddedSlice, FilesGrow
  <1>2. StatesOK' /\ \A s \in Shards : Ended(s)' => Ended(s)
    BY <1>1 DEF WrittenInv, StatesOK, Ended, Everything, EntitiesOf, Files,
                Shards
  <1> QED
    BY <1>1, <1>2, LateStep

-----------------------------------------------------------------------------
(* The workers.                                                            *)

LEMMA WorkersStarted ==
    ASSUME WrittenInv, NEW w \in workers
    PROVE WorkerOK(w) /\ SlicesAdded
  BY DEF WrittenInv, WorkersOK, NothingEarly

(* A worker that only goes on, or from the beginning, is in order.         *)
LEMMA AtOK ==
    ASSUME NEW w, WorkerOK(w),
           NEW pc \in {"finalizeAborted", "abort", "control", "end"}
    PROVE WorkerOK(At(w, pc))
  <1>1. At(w, pc) \in Worker
    BY DEF At, WorkerOK, Worker
  <1>2. /\ At(w, pc).shard = w.shard /\ At(w, pc).file = w.file
        /\ At(w, pc).from = w.from /\ At(w, pc).pc = pc
    BY DEF At, WorkerOK, Worker
  <1> QED
    BY <1>1, <1>2 DEF WorkerOK

(* A worker whose slice is written goes on to end it.                      *)
LEMMA GoOnOK ==
    ASSUME NEW w, WorkerOK(w)', w.pc \in {"flush", "finalize", "put"},
           Slice(w.shard, 0, w.to) \subseteq Written(w.shard)',
           NEW pc \in {"finalize", "put", "reschedule"}
    PROVE WorkerOK(At(w, pc))'
  <1>1. At(w, pc) \in Worker
    BY DEF At, WorkerOK, Worker, Shards, Files
  <1>2. /\ At(w, pc).shard = w.shard /\ At(w, pc).file = w.file
        /\ At(w, pc).from = w.from /\ At(w, pc).pc = pc
        /\ At(w, pc).to = w.to /\ At(w, pc).done = w.done
    BY DEF At, WorkerOK, Worker
  <1>3. /\ w.file = FileOf(kickoff.run, w.shard)'
        /\ Slice(w.shard, 0, w.from) \subseteq Written(w.shard)'
        /\ w.done => w.to = Entities
    BY DEF WorkerOK, Slice
  <1> QED
    BY <1>1, <1>2, <1>3 DEF WorkerOK, Slice, At, Worker, Shards, Files

LEMMA NewOK ==
    ASSUME NEW w, WorkerOK(w), NEW n \in Nat, NEW to \in 0..Entities,
           Slice(w.shard, 0, to) \subseteq Written(w.shard)
    PROVE WorkerOK(NewSlice(w.shard, n, to, w.file))
  <1> DEFINE v == NewSlice(w.shard, n, to, w.file)
  <1>1. w.shard \in Shards /\ w.file \in Files
    BY DEF WorkerOK, Worker
  <1>2. v \in Worker
    BY <1>1, NewSliceTyped
  <1>3. /\ v.shard = w.shard /\ v.file = w.file /\ v.from = to
        /\ v.pc = "queued"
    BY DEF NewSlice
  <1> HIDE DEF v
  <1>4. WorkerOK(v)
    BY <1>2, <1>3 DEF WorkerOK
  <1> QED
    BY <1>4 DEF v

LEMMA AgainOK ==
    ASSUME NEW w, WorkerOK(w)
    PROVE WorkerOK(Again(w))
  <1>1. w.slice \in Nat /\ w.from \in 0..Entities
    BY DEF WorkerOK, Worker
  <1> QED
    BY <1>1, NewOK DEF Again, WorkerOK

(* Worker steps that touch neither files nor shards.                       *)
LEMMA QuietWorkerStep ==
    ASSUME WrittenInv, KickOffOK', NEW w \in workers,
           UNCHANGED <<kickoff, sharding, files, shardState>>,
           \A v \in workers' : v \in workers \/ WorkerOK(v)
    PROVE WrittenInv'
  <1>1. FilesGrow /\ SlicesAdded'
    BY WorkersStarted DEF FilesGrow, SlicesAdded, AddedSlice
  <1>2. StatesOK' /\ \A s \in Shards : Ended(s)' => Ended(s)
    BY DEF WrittenInv, StatesOK, Ended, Everything, EntitiesOf, Files, Shards
  <1>3. \A v \in workers' : v \in workers \/ WorkerOK(v)'
    BY <1>1, WorkerKept
  <1> QED
    BY <1>1, <1>2, <1>3, LateStep

LEMMA QuietWorkerSteps ==
    ASSUME WrittenInv, NEW w \in workers,
           \/ WorkerBegins(w) \/ RepeatCommand(w) \/ RescheduleSlice(w)
           \/ WorkerEnds(w)
    PROVE WrittenInv'
  <1>1. /\ UNCHANGED <<kickoff, sharding, files, shardState>>
        /\ KickOffOK'
    BY DEF WorkerBegins, RepeatCommand, RescheduleSlice, WorkerEnds,
           entities, WrittenInv, KickOffOK
  <1>2. WorkerOK(w)
    BY WorkersStarted
  <1>3. \A v \in workers' : v \in workers \/ WorkerOK(v)
    <2>1. CASE WorkerBegins(w)
      <3>1. ASSUME NEW to \in w.from..Entities, NEW done \in BOOLEAN,
                   ScanMayEnd(w, to, done)
            PROVE WorkerOK(Scanned(w, to, done))
        <4> DEFINE v == Scanned(w, to, done)
        <4>1. to \in 0..Entities
          BY <1>2, MapReduceAssumption DEF WorkerOK, Worker
        <4>2. v \in Worker
          BY <1>2, <4>1 DEF WorkerOK, Worker, Scanned
        <4>3. /\ v.shard = w.shard /\ v.file = w.file /\ v.from = w.from
              /\ v.pc = "flush" /\ v.to = to /\ v.done = done
          BY <1>2 DEF WorkerOK, Worker, Scanned
        <4> HIDE DEF v
        <4>4. WorkerOK(v)
          BY <1>2, <3>1, <4>2, <4>3 DEF WorkerOK, ScanMayEnd
        <4> QED
          BY <4>4 DEF v
      <3>2. \/ workers' = workers \ {w}
            \/ workers' = Replace(workers, w, At(w, "finalizeAborted"))
            \/ \E to \in w.from..Entities, done \in BOOLEAN :
                  /\ ScanMayEnd(w, to, done)
                  /\ workers' = Replace(workers, w, Scanned(w, to, done))
        BY <2>1 DEF WorkerBegins
      <3> QED
        BY <1>2, <3>1, <3>2, AtOK DEF Replace
    <2>2. CASE RepeatCommand(w)
      BY <1>2, <2>2, AtOK DEF RepeatCommand, Replace
    <2>3. CASE RescheduleSlice(w)
      <3>1. WorkerOK(NewSlice(w.shard, w.slice + 1, w.to, w.file))
        <4>1. w.slice + 1 \in Nat /\ w.to \in 0..Entities
          BY <1>2 DEF WorkerOK, Worker
        <4>2. Slice(w.shard, 0, w.to) \subseteq Written(w.shard)
          BY <1>2, <2>3 DEF WorkerOK, RescheduleSlice
        <4> QED
          BY <1>2, <4>1, <4>2, NewOK
      <3> QED
        BY <1>2, <2>3, <3>1, AtOK DEF RescheduleSlice, ScheduleSlice, Replace
    <2>4. CASE WorkerEnds(w)
      BY <2>4 DEF WorkerEnds
    <2> QED
      BY <2>1, <2>2, <2>3, <2>4
  <1> QED
    BY <1>1, <1>3, QuietWorkerStep

(* The flush, after which all that the slice yielded is written.           *)
LEMMA FlushStep ==
    ASSUME WrittenInv, NEW w \in workers, Flush(w)
    PROVE WrittenInv'
  <1> DEFINE new == Slice(w.shard, w.from, w.to)
  <1>1. WorkerOK(w) /\ SlicesAdded /\ w.pc = "flush"
    BY WorkersStarted DEF Flush
  <1>2. /\ UNCHANGED <<kickoff, sharding, shardState, faults>>
        /\ KickOffOK' /\ SlicesAdded'
    BY <1>1 DEF Flush, entities, WrittenInv, KickOffOK, SlicesAdded,
                AddedSlice
  <1>3. CASE files' = files /\ workers' = Replace(workers, w, Again(w))
    <2>1. \A v \in workers' : v \in workers \/ WorkerOK(v)
      BY <1>1, <1>3, AgainOK DEF Replace
    <2> QED
      BY <1>2, <1>3, <2>1, QuietWorkerStep
  <1>4. CASE /\ files' = [files EXCEPT ![w.file].content = @ \cup new]
             /\ workers' = Replace(workers, w,
                                At(w, IF w.done THEN "finalize" ELSE "put"))
    <2> DEFINE f == w.file
    <2>1. f \in Files /\ w.shard \in Shards /\ new \subseteq Everything
      BY <1>1, SliceOfShard DEF WorkerOK, Worker
    <2>2. /\ files' \in [Files -> [content : SUBSET Everything,
                                   finalized : BOOLEAN]]
          /\ files'[f].content = files[f].content \cup new
          /\ \A g \in Files : files[g].content \subseteq files'[g].content
      BY <1>4, <2>1 DEF WrittenInv, StatesOK
    <2>3. StatesOK' /\ FilesGrow /\ \A s \in Shards : Ended(s)' => Ended(s)
      BY <1>2, <2>2 DEF WrittenInv, StatesOK, FilesGrow, Ended, Everything,
                        EntitiesOf, Files, Shards
    <2>4. WorkerOK(w)'
      BY <1>1, <2>3, WorkerKept
    <2>5. Slice(w.shard, 0, w.to) \subseteq Written(w.shard)'
      <3>1. Slice(w.shard, 0, w.to) \subseteq
               Slice(w.shard, 0, w.from) \cup new
        BY <1>1, SlicesJoin, MapReduceAssumption DEF WorkerOK, Worker
      <3>2. new \subseteq Written(w.shard)'
        BY <1>1, <1>2, <2>2 DEF WorkerOK, Written, FileOf
      <3>3. Slice(w.shard, 0, w.from) \subseteq Written(w.shard)'
        BY <2>4 DEF WorkerOK, Slice
      <3> QED
        BY <3>1, <3>2, <3>3
    <2>6. WorkerOK(At(w, IF w.done THEN "finalize" ELSE "put"))'
      BY <1>1, <2>4, <2>5, GoOnOK
    <2>7. \A v \in workers' : v \in workers \/ WorkerOK(v)'
      BY <1>4, <2>6 DEF Replace
    <2> QED
      BY <1>2, <2>3, <2>7, LateStep
  <1> QED
    BY <1>3, <1>4 DEF Flush

(* The end of a file leaves its content as it is.                          *)
LEMMA FinalizeShardStep ==
    ASSUME WrittenInv, NEW w \in workers, FinalizeShard(w)
    PROVE WrittenInv'
  <1>1. WorkerOK(w) /\ SlicesAdded /\ w.file \in Files
    BY WorkersStarted DEF WorkerOK, Worker
  <1>2. /\ UNCHANGED <<kickoff, sharding, shardState, faults>>
        /\ KickOffOK' /\ SlicesAdded'
    BY <1>1 DEF FinalizeShard, entities, WrittenInv, KickOffOK, SlicesAdded,
                AddedSlice
  <1>3. StatesOK' /\ FilesGrow /\ \A s \in Shards : Ended(s)' => Ended(s)
    <2>1. PICK final \in BOOLEAN :
             files' = [files EXCEPT ![w.file].finalized = final]
      BY <1>1 DEF FinalizeShard, WrittenInv, StatesOK
    <2>2. /\ files' \in [Files -> [content : SUBSET Everything,
                                   finalized : BOOLEAN]]
          /\ \A g \in Files : files[g].content \subseteq files'[g].content
      BY <1>1, <2>1 DEF WrittenInv, StatesOK
    <2> QED
      BY <1>2, <2>2 DEF WrittenInv, StatesOK, FilesGrow, Ended, Everything,
                        EntitiesOf, Files, Shards
  <1>4. WorkerOK(w)'
    BY <1>1, <1>3, WorkerKept
  <1>5. \A v \in workers' : v \in workers \/ WorkerOK(v)'
    <2>1. CASE w.pc = "finalize"
      <3>1. Slice(w.shard, 0, w.to) \subseteq Written(w.shard)'
        BY <1>4, <2>1 DEF WorkerOK, Slice
      <3>2. WorkerOK(At(w, "put"))'
        BY <1>4, <2>1, <3>1, GoOnOK
      <3> QED
        BY <2>1, <3>2 DEF FinalizeShard, Replace
    <2>2. CASE w.pc = "finalizeAborted"
      <3>1. WorkerOK(At(w, "abort"))
        BY <1>1, AtOK
      <3>2. WorkerOK(At(w, "abort"))'
        BY <1>3, <3>1, WorkerKept
      <3> QED
        BY <2>2, <3>2 DEF FinalizeShard, Replace
    <2> QED
      BY <2>1, <2>2 DEF FinalizeShard
  <1> QED
    BY <1>2, <1>3, <1>5, LateStep

(* Worker steps that change a shard: that of the worker, which is written  *)
(* whole if it ends well.                                                  *)
LEMMA ShardStep ==
    ASSUME WrittenInv, NEW w \in workers, NEW new \in ShardState,
           shardState' \in {shardState, [shardState EXCEPT ![w.shard] = new]},
           UNCHANGED <<kickoff, sharding, files, faults>>,
           new.result_status = "success" =>
               Slice(w.shard, 0, Entities) \subseteq Written(w.shard),
           \A v \in workers' : v \in workers \/ WorkerOK(v)
    PROVE WrittenInv'
  <1>1. WorkerOK(w) /\ SlicesAdded /\ w.shard \in Shards
    BY WorkersStarted DEF WorkerOK, Worker
  <1>2. KickOffOK' /\ SlicesAdded' /\ FilesGrow
    BY <1>1 DEF WrittenInv, KickOffOK, SlicesAdded, AddedSlice, FilesGrow
  <1>3. StatesOK'
    BY <1>1 DEF WrittenInv, StatesOK, Everything, EntitiesOf, Files, Shards
  <1>4. \A s \in Shards : Ended(s)' =>
           Ended(s) \/ EntitiesOf(s) \subseteq Written(s)'
    <2>1. \A s \in Shards \ {w.shard} : Ended(s)' => Ended(s)
      BY <1>1 DEF WrittenInv, StatesOK, Ended
    <2>2. Ended(w.shard)' => Ended(w.shard) \/ new.result_status = "success"
      BY <1>1 DEF WrittenInv, StatesOK, Ended
    <2>3. Written(w.shard)' = Written(w.shard)
      BY DEF Written, FileOf
    <2> QED
      BY <2>1, <2>2, <2>3, SliceEnds
  <1>5. \A v \in workers' : v \in workers \/ WorkerOK(v)'
    BY <1>2, WorkerKept
  <1> QED
    BY <1>2, <1>3, <1>4, <1>5, LateStep

LEMMA AbortShardStep ==
    ASSUME WrittenInv, NEW w \in workers, AbortShard(w)
    PROVE WrittenInv'
  <1> DEFINE new == [active |-> FALSE, result_status |-> "aborted"]
  <1>1. new \in ShardState /\ new.result_status # "success"
    BY DEF ShardState, Results
  <1>2. WorkerOK(At(w, "control"))
    BY WorkersStarted, AtOK
  <1>3. /\ shardState' = [shardState EXCEPT ![w.shard] = new]
        /\ UNCHANGED <<kickoff, sharding, files, faults>>
        /\ \A v \in workers' : v \in workers \/ WorkerOK(v)
    BY <1>2 DEF AbortShard, Replace
  <1> HIDE DEF new
  <1> QED
    BY <1>1, <1>3, ShardStep

LEMMA PutShardStep ==
    ASSUME WrittenInv, NEW w \in workers, PutShard(w)
    PROVE WrittenInv'
  <1> DEFINE new == [active |-> ~w.done,
                     result_status |-> IF w.done THEN "success" ELSE "none"]
  <1>1. WorkerOK(w) /\ w.pc = "put" /\ w.done \in BOOLEAN
    BY WorkersStarted DEF PutShard, WorkerOK, Worker
  <1>2. /\ new \in ShardState
        /\ new.result_status = "success" => w.done
    BY <1>1 DEF ShardState, Results
  <1>3. /\ shardState' \in {shardState,
                            [shardState EXCEPT ![w.shard] = new]}
        /\ UNCHANGED <<kickoff, sharding, files, faults>>
        /\ \/ workers' = Replace(workers, w, Again(w))
           \/ workers' = Replace(workers, w, At(w, "end"))
           \/ workers' = Replace(workers, w, At(w, "reschedule"))
    BY DEF PutShard
  <1>4. WorkerOK(At(w, "end")) /\ WorkerOK(Again(w))
    BY <1>1, AtOK, AgainOK
  <1>5. WorkerOK(At(w, "reschedule"))
    <2>1. At(w, "reschedule") \in Worker
      BY <1>1 DEF At, WorkerOK, Worker
    <2>2. /\ At(w, "reschedule").shard = w.shard
          /\ At(w, "reschedule").file = w.file
          /\ At(w, "reschedule").from = w.from
          /\ At(w, "reschedule").to = w.to
          /\ At(w, "reschedule").pc = "reschedule"
      BY <1>1 DEF At, WorkerOK, Worker
    <2> QED
      BY <1>1, <2>1, <2>2 DEF WorkerOK
  <1>6. \A v \in workers' : v \in workers \/ WorkerOK(v)
    BY <1>3, <1>4, <1>5 DEF Replace
  <1>7. w.done => Slice(w.shard, 0, Entities) \subseteq Written(w.shard)
    BY <1>1 DEF WorkerOK
  <1> HIDE DEF new
  <1> QED
    BY <1>2, <1>3, <1>6, <1>7, ShardStep

-----------------------------------------------------------------------------
(* Everything else, and the theorems.                                      *)

LEMMA ControllerSteps ==
    ASSUME WrittenInv, NEW c \in controllers, ControllerStep(c)
    PROVE WrittenInv'
  <1>1. UNCHANGED <<sharding, shardState, kickoff, workers, faults>>
    BY DEF ControllerStep, ControllerBegins, ReadShards, AbortLost, PutState,
           RescheduleController, FinalizeFiles, ScheduleFinalizer,
           CommitState, ControllerEnds, entities
  <1>2. /\ files' \in [Files -> [content : SUBSET Everything,
                                 finalized : BOOLEAN]]
        /\ \A f \in Files : files'[f].content = files[f].content
    <2>1. CASE FinalizeFiles(c)
      <3> DEFINE final(f) == files[f].finalized \/
                                /\ sharding # "input"
                                /\ c.state.request_filenames
                                /\ f \in c.state.filenames
      <3>1. files' = [f \in Files |-> [files[f] EXCEPT !.finalized = final(f)]]
        BY <2>1 DEF FinalizeFiles, WrittenInv, StatesOK
      <3>2. \A f \in Files : final(f) \in BOOLEAN
        BY DEF WrittenInv, StatesOK
      <3> HIDE DEF final
      <3> QED
        BY <3>1, <3>2 DEF WrittenInv, StatesOK
    <2>2. CASE ~FinalizeFiles(c)
      <3>1. files' = files
        BY <2>2 DEF ControllerStep, ControllerBegins, ReadShards, AbortLost,
                    PutState, RescheduleController, ScheduleFinalizer,
                    CommitState, ControllerEnds, entities
      <3> QED
        BY <3>1 DEF WrittenInv, StatesOK
    <2> QED
      BY <2>1, <2>2
  <1>3. StatesOK' /\ KickOffOK' /\ FilesGrow
    BY <1>1, <1>2 DEF WrittenInv, StatesOK, KickOffOK, FilesGrow, Everything,
                      EntitiesOf, Files, Shards
  <1>4. \A s \in Shards : Ended(s)' => Ended(s)
    BY <1>1 DEF Ended
  <1> QED
    BY <1>1, <1>3, <1>4, CalmStep

LEMMA OtherSteps ==
    ASSUME WrittenInv, FinalizerStep \/ Callback \/ AbortJob \/ CleanUpJob
    PROVE WrittenInv'
  <1>1. /\ UNCHANGED <<sharding, files, kickoff, workers>>
        /\ faults' \in {faults, faults + 1} /\ faults' \in 0..MaxFaults
        /\ shardState' \in {shardState, [s \in Shards |-> NoEntity]}
    BY MapReduceAssumption
    DEF FinalizerStep, DeleteControl, DeleteShards, FinalizerEnds, Callback,
        AbortJob, CleanUpJob, Fault, entities, queue, WrittenInv, KickOffOK
  <1>2. StatesOK' /\ \A s \in Shards : Ended(s)' => Ended(s)
    BY <1>1 DEF WrittenInv, StatesOK, Ended, Everything, EntitiesOf, Files,
                Shards
  <1>3. KickOffOK' /\ FilesGrow
    BY <1>1 DEF WrittenInv, KickOffOK, FilesGrow
  <1> QED
    BY <1>1, <1>2, <1>3, CalmStep

LEMMA StopStep ==
    ASSUME WrittenInv, ~KickOffRepeats, Stop
    PROVE WrittenInv'
  <1>1. /\ UNCHANGED <<sharding, shardState, files>>
        /\ faults' = faults + 1 /\ faults' \in 0..MaxFaults
    BY MapReduceAssumption DEF Stop, Fault, entities, WrittenInv, KickOffOK
  <1>2. StatesOK' /\ \A s \in Shards : Ended(s)' => Ended(s)
    BY <1>1 DEF WrittenInv, StatesOK, Ended, Everything, EntitiesOf, Files,
                Shards
  <1>3. CASE KickOffStops
    <2>1. ~SlicesAdded /\ UNCHANGED workers
      BY <1>3 DEF KickOffStops, SlicesAdded
    <2>2. KickOffOK'
      <3>1. kickoff' = [kickoff EXCEPT !.pc = "queued", !.next = 0]
        BY <1>3 DEF KickOffStops
      <3>2. /\ kickoff' \in [pc : {"absent", "queued", "shards", "slices",
                                  "controller", "end", "over"},
                            run : Nat, next : Nat]
            /\ kickoff'.pc = "queued" /\ kickoff'.run = kickoff.run
        BY <3>1 DEF WrittenInv, KickOffOK
      <3>3. kickoff.run \in 1..(faults + 1)
        BY <1>3 DEF KickOffStops, WrittenInv, KickOffOK
      <3> QED
        BY <1>1, <3>2, <3>3 DEF WrittenInv, KickOffOK
    <2> QED
      BY <1>2, <2>1, <2>2, EarlyStep
  <1>4. CASE UNCHANGED kickoff
    <2>1. KickOffOK' /\ FilesGrow
      BY <1>1, <1>4 DEF WrittenInv, KickOffOK, FilesGrow
    <2>2. CASE UNCHANGED workers
      BY <1>2, <1>4, <2>1, <2>2, CalmStep
    <2>3. ASSUME NEW w \in workers, WorkerStops(w)
          PROVE WrittenInv'
      <3>1. WorkerOK(Again(w))
        BY WorkersStarted, AgainOK
      <3>2. \A v \in workers' : v \in workers \/ WorkerOK(v)
        BY <2>3, <3>1 DEF WorkerStops, Replace
      <3> QED
        BY <1>1, <1>4, <2>1, <3>2, QuietWorkerStep
    <2> QED
      BY <1>3, <2>2, <2>3 DEF Stop, FinalizerStops, ControllerStops
  <1> QED
    BY <1>3, <1>4 DEF Stop, FinalizerStops, ControllerStops, WorkerStops

LEMMA WrittenInit ==
    ASSUME Init
    PROVE WrittenInv
  <1>1. StatesOK
    BY DEF Init, StatesOK, Everything
  <1>2. KickOffOK
    BY MapReduceAssumption DEF Init, KickOffOK
  <1>3. workers = {} /\ \A s \in Shards : ~Ended(s)
    BY DEF Init, Ended
  <1> QED
    BY <1>1, <1>2, <1>3
    DEF WrittenInv, WorkersOK, NothingEarly, NothingSkipped, Ended

LEMMA WrittenStep ==
    ASSUME WrittenInv, ~KickOffRepeats, [Next]_vars
    PROVE WrittenInv'
  <1>1. CASE StartMap \/ KickOffStep
    BY <1>1, EarlyKickOffSteps, KickOffSliceStep, LateKickOffSteps
    DEF KickOffStep
  <1>2. CASE FinalizerStep \/ Callback \/ AbortJob \/ CleanUpJob
    BY <1>2, OtherSteps
  <1>3. ASSUME NEW w \in workers, WorkerStep(w)
        PROVE WrittenInv'
    BY <1>3, QuietWorkerSteps, FlushStep, FinalizeShardStep, PutShardStep,
       AbortShardStep DEF WorkerStep
  <1>4. ASSUME NEW c \in controllers, ControllerStep(c)
        PROVE WrittenInv'
    BY <1>4, ControllerSteps
  <1>5. CASE Stop
    BY <1>5, StopStep
  <1>6. CASE UNCHANGED vars
    <2>1. UNCHANGED <<sharding, shardState, files, kickoff, workers, faults>>
      BY <1>6 DEF vars, entities, queue
    <2>2. StatesOK' /\ KickOffOK' /\ FilesGrow
      BY <2>1 DEF WrittenInv, StatesOK, KickOffOK, FilesGrow, Everything,
                  EntitiesOf, Files, Shards
    <2>3. \A s \in Shards : Ended(s)' => Ended(s)
      BY <2>1 DEF Ended
    <2> QED
      BY <2>1, <2>2, <2>3, CalmStep
  <1> QED
    BY <1>1, <1>2, <1>3, <1>4, <1>5, <1>6 DEF Next

(* If the kickoff does not stop once it has added a slice, then however    *)
(* often the other tasks stop halfway and begin again, a shard that says   *)
(* success has everything its reader yields in its file                    *)
(* (handlers.py:203-229).                                                  *)
THEOREM ShardsAreWritten ==
    ASSUME ~KickOffRepeats
    PROVE Spec => []NothingSkipped
  <1>1. WrittenInv => NothingSkipped
    BY DEF WrittenInv
  <1> QED
    BY WrittenInit, WrittenStep, <1>1, PTL DEF Spec

ShardsThere == shardState = [s \in Shards |-> shardState[s]]

(* A step leaves a shard that has ended alone, deletes it or aborts it.    *)
LEMMA ShardStateStep ==
    ASSUME ShardsThere, [Next]_vars
    PROVE ShardsThere' /\ \A s \in Shards : EndedStays(s)
  <1>1. CASE UNCHANGED shardState
    BY <1>1 DEF ShardsThere, EndedStays, Shards
  <1>2. CASE PutShards
    BY <1>2 DEF PutShards, ShardsThere, EndedStays, Shards
  <1>3. CASE DeleteShards
    BY <1>3 DEF DeleteShards, ShardsThere, EndedStays, Shards
  <1>4. ASSUME NEW w \in workers, AbortShard(w)
        PROVE ShardsThere' /\ \A s \in Shards : EndedStays(s)
    BY <1>4 DEF AbortShard, ShardsThere, EndedStays, Shards
  <1>5. ASSUME NEW w \in workers, PutShard(w)
        PROVE ShardsThere' /\ \A s \in Shards : EndedStays(s)
    <2>1. CASE shardState[w.shard] = NoEntity \/ ~shardState[w.shard].active
      BY <1>1, <1>5, <2>1 DEF PutShard
    <2>2. CASE shardState[w.shard] # NoEntity /\ shardState[w.shard].active
      <3>1. PICK new : shardState' = [shardState EXCEPT ![w.shard] = new]
        BY <1>5, <2>2 DEF PutShard
      <3>2. ShardsThere'
        BY <3>1 DEF ShardsThere, Shards
      <3>3. \A s \in Shards : s # w.shard => shardState'[s] = shardState[s]
        BY <3>1 DEF ShardsThere
      <3> QED
        BY <2>2, <3>2, <3>3 DEF EndedStays
    <2> QED
      BY <2>1, <2>2
  <1>6. CASE \/ StartMap \/ KickOff \/ KickOffSlice \/ KickOffController
             \/ KickOffEnds \/ DeleteControl \/ FinalizerEnds \/ Callback
             \/ AbortJob \/ CleanUpJob \/ Stop \/ UNCHANGED vars
    <2>1. UNCHANGED shardState
      BY <1>6
      DEF StartMap, KickOff, KickOffSlice, KickOffController, KickOffEnds,
          DeleteControl, FinalizerEnds, Callback, AbortJob, CleanUpJob, Stop,
          entities, vars
    <2> QED
      BY <1>1, <2>1
  <1>7. ASSUME NEW w \in workers, WorkerStep(w), ~AbortShard(w), ~PutShard(w)
        PROVE UNCHANGED shardState
    BY <1>7 DEF WorkerStep, WorkerBegins, Flush, FinalizeShard,
                RepeatCommand, RescheduleSlice, WorkerEnds, entities
  <1>8. ASSUME NEW c \in controllers, ControllerStep(c)
        PROVE UNCHANGED shardState
    BY <1>8 DEF ControllerStep, ControllerBegins, ReadShards, AbortLost,
                PutState, RescheduleController, FinalizeFiles,
                ScheduleFinalizer, CommitState, ControllerEnds, entities
  <1> QED
    BY <1>1, <1>2, <1>3, <1>4, <1>5, <1>6, <1>7, <1>8
    DEF Next, KickOffStep, FinalizerStep

(* Whatever stops halfway, and though the kickoff may repeat: no run of a  *)
(* slice, however late, makes a shard that has ended active again          *)
(* (handlers.py:211-229).                                                  *)
THEOREM EndedShardsStay == Spec => ShardsEndOnce
  <1>1. Init => ShardsThere
    BY DEF Init, ShardsThere
  <1>2. ShardsThere /\ [Next]_vars => ShardsThere'
    BY ShardStateStep
  <1>3. ShardsThere /\ [Next]_vars => [\A s \in Shards : EndedStays(s)]_vars
    BY ShardStateStep
  <1> QED
    BY <1>1, <1>2, <1>3, PTL DEF Spec, ShardsEndOnce

-----------------------------------------------------------------------------
(* What a job that says success lists is complete.                         *)
(*                                                                         *)
(* Until the pipeline is told, the state of the job is that of a job that  *)
(* began, and lists the files of the kickoff's last run (NotDecided).  So  *)
(* a controller that decides success has found every shard there and       *)
(* ended well, hence written (NothingSkipped) and, where it has a file of  *)
(* its own, final (ShardsFinal).                                           *)

KickedOff == kickoff.pc \notin {"absent", "queued"}

JobFiles == {FileOf(kickoff.run, s) : s \in Shards}

NotDecided(state) ==
    /\ state.active /\ state.result_status = "none"
    /\ state.request_filenames /\ state.filenames = JobFiles

FileFinal(s) == files[FileOf(kickoff.run, s)].finalized
AllWritten == \A s \in Shards : EntitiesOf(s) \subseteq Written(s)
AllFinal == \A s \in Shards : FileFinal(s)

ControllerTyped(c) ==
    /\ c \in [serial : Nat, control : BOOLEAN,
              state : MapreduceState \cup {NoEntity},
              pc : {"queued", "shards", "lost", "put", "reschedule",
                    "files", "schedule", "commit", "end"}]
    /\ c.pc # "queued" => c.state \in MapreduceState

ControllerOK(c) ==
    /\ c.pc \in {"shards", "put"} => NotDecided(c.state)
    /\ c.pc \in {"lost", "files"} => c.state.request_filenames
    /\ c.pc \in {"lost", "files", "schedule", "commit"} =>
          /\ c.state.filenames = JobFiles
          /\ c.state.result_status = "success" =>
                AllWritten /\ (sharding = "input" => AllFinal)
    /\ c.pc \in {"schedule", "commit"} =>
          (c.state.result_status = "success" => AllFinal)

ControllersOK ==
    /\ \A c \in controllers : ControllerTyped(c)
    /\ ~SlicesAdded => controllers = {}
    /\ ~Told => \A c \in controllers : ControllerOK(c)

JobOK ==
    /\ mapreduceState \in MapreduceState \cup {NoEntity}
    /\ control \in BOOLEAN /\ doneTasks \in Nat
    /\ ~Told /\ KickedOff /\ mapreduceState # NoEntity =>
          NotDecided(mapreduceState)

FinalOK(w) ==
    sharding = "input" /\ w.pc = "put" /\ w.done => files[w.file].finalized

ShardsFinal ==
    /\ \A w \in workers : FinalOK(w)
    /\ sharding = "input" => \A s \in Shards : Ended(s) => FileFinal(s)

CompleteInv == WrittenInv /\ ControllersOK /\ JobOK /\ ShardsFinal

(* The files of the kickoff's present run are files.                       *)
LEMMA JobFilesThere ==
    ASSUME KickOffOK, KickedOff
    PROVE JobFiles \subseteq Files
  BY FileThere DEF JobFiles, KickedOff

LEMMA AddedIsKickedOff ==
    ASSUME SlicesAdded
    PROVE KickedOff
  BY DEF SlicesAdded, AddedSlice, KickedOff

-----------------------------------------------------------------------------
(* What does not touch a task leaves it in order.                          *)

FilesKept ==
    /\ FilesGrow
    /\ \A f \in Files : files[f].finalized => files'[f].finalized

LEMMA FinalKept ==
    ASSUME CompleteInv, FilesKept, KickedOff, NEW s \in Shards, FileFinal(s)
    PROVE FileFinal(s)'
  <1>1. FileOf(kickoff.run, s) \in Files
    BY FileThere DEF CompleteInv, WrittenInv, KickedOff
  <1> QED
    BY <1>1 DEF FilesKept, FilesGrow, FileFinal, FileOf

LEMMA AllKept ==
    ASSUME CompleteInv, FilesKept, SlicesAdded
    PROVE (AllWritten => AllWritten') /\ (AllFinal => AllFinal')
  <1>1. AllWritten => AllWritten'
    <2> SUFFICES ASSUME AllWritten, NEW s \in Shards
                 PROVE EntitiesOf(s)' \subseteq Written(s)'
      BY DEF AllWritten, Shards
    <2> QED
      BY ShardKept DEF AllWritten, EntitiesOf, FilesKept, CompleteInv
  <1>2. AllFinal => AllFinal'
    BY FinalKept, AddedIsKickedOff DEF AllFinal, Shards
  <1> QED
    BY <1>1, <1>2

LEMMA NotDecidedKept ==
    ASSUME FilesKept, NEW state, NotDecided(state)
    PROVE NotDecided(state)'
  BY DEF NotDecided, JobFiles, FilesKept, FilesGrow, FileOf, Shards

LEMMA ControllerKept ==
    ASSUME CompleteInv, FilesKept, SlicesAdded, NEW c, ControllerOK(c)
    PROVE ControllerOK(c)'
  <1>1. NotDecided(c.state) => NotDecided(c.state)'
    BY NotDecidedKept
  <1>2. JobFiles' = JobFiles /\ sharding' = sharding
    BY DEF JobFiles, FilesKept, FilesGrow, FileOf, Shards
  <1>3. (AllWritten => AllWritten') /\ (AllFinal => AllFinal')
    BY AllKept
  <1> HIDE DEF JobFiles, AllWritten, AllFinal
  <1> QED
    BY <1>1, <1>2, <1>3 DEF ControllerOK

(* Steps that leave the run of the kickoff alone, of which each task they  *)
(* add, and each shard they end, is in order.                              *)
LEMMA CompleteKept ==
    ASSUME CompleteInv, WrittenInv', FilesKept, Told => Told',
           KickedOff' => KickedOff,
           SlicesAdded' \/ UNCHANGED <<kickoff, controllers>>,
           doneTasks' \in Nat, control' \in BOOLEAN,
           \/ mapreduceState' \in {mapreduceState, NoEntity}
           \/ /\ mapreduceState' \in MapreduceState
              /\ ~Told' => NotDecided(mapreduceState'),
           \A d \in controllers' : \/ d \in controllers
                                   \/ /\ ControllerTyped(d)
                                      /\ ~Told' => ControllerOK(d)',
           \A v \in workers' : v \in workers \/ FinalOK(v)',
           \A s \in Shards : Ended(s)' =>
               Ended(s) \/ (sharding = "input" => FileFinal(s)')
    PROVE CompleteInv'
  <1>1. ControllersOK'
    <2>1. \A d \in controllers' : ControllerTyped(d)'
      BY DEF CompleteInv, ControllersOK, ControllerTyped, MapreduceState, Files
    <2>2. ~SlicesAdded' => controllers' = {}
      BY DEF CompleteInv, ControllersOK, SlicesAdded, AddedSlice
    <2>3. ASSUME ~Told', NEW d \in controllers'
          PROVE ControllerOK(d)'
      <3>1. CASE d \in controllers
        <4>1. SlicesAdded /\ ControllerOK(d)
          BY <2>3, <3>1 DEF CompleteInv, ControllersOK
        <4> QED
          BY <4>1, ControllerKept
      <3> QED
        BY <2>3, <3>1
    <2> QED
      BY <2>1, <2>2, <2>3 DEF ControllersOK
  <1>2. JobOK'
    <2>1. mapreduceState' \in (MapreduceState \cup {NoEntity})'
      BY DEF CompleteInv, JobOK, MapreduceState, Files
    <2>2. ASSUME ~Told', KickedOff', mapreduceState' # NoEntity
          PROVE NotDecided(mapreduceState)'
      <3>1. CASE mapreduceState' = mapreduceState
        <4>1. NotDecided(mapreduceState)
          BY <2>2, <3>1 DEF CompleteInv, JobOK
        <4> QED
          BY <3>1, <4>1, NotDecidedKept
             DEF NotDecided, JobFiles, FilesKept, FilesGrow, FileOf, Shards
      <3>2. CASE NotDecided(mapreduceState')
        BY <3>2
           DEF NotDecided, JobFiles, FilesKept, FilesGrow, FileOf, Shards
      <3> QED
        BY <2>2, <3>1, <3>2
    <2> QED
      BY <2>1, <2>2 DEF JobOK
  <1>3. ShardsFinal'
    <2>1. \A v \in workers : FinalOK(v)'
      <3> SUFFICES ASSUME NEW v \in workers, sharding = "input", v.pc = "put",
                          v.done
                   PROVE files'[v.file].finalized
        BY DEF FinalOK, FilesKept, FilesGrow
      <3>1. v.file \in Files
        BY WorkersStarted DEF CompleteInv, WorkerOK, Worker
      <3> QED
        BY <3>1 DEF CompleteInv, ShardsFinal, FinalOK, FilesKept
    <2>2. ASSUME sharding = "input", NEW s \in Shards, Ended(s)'
          PROVE FileFinal(s)'
      <3>1. CASE Ended(s)
        <4>1. SlicesAdded /\ FileFinal(s)
          BY <2>2, <3>1
          DEF CompleteInv, ShardsFinal, WrittenInv, NothingEarly
        <4> QED
          BY <4>1, FinalKept, AddedIsKickedOff
      <3> QED
        BY <2>2, <3>1
    <2> QED
      BY <2>1, <2>2 DEF ShardsFinal, FilesKept, FilesGrow, Shards
  <1> QED
    BY <1>1, <1>2, <1>3 DEF CompleteInv

-----------------------------------------------------------------------------
(* The kickoff and the workers.                                            *)

LEMMA EarlyComplete ==
    ASSUME CompleteInv, WrittenInv', StartMap \/ KickOff \/ PutShards
    PROVE CompleteInv'
  <1>1. /\ ~SlicesAdded /\ controllers' = {} /\ workers' = {}
        /\ UNCHANGED <<control, doneTasks, output, files, sharding>>
    BY DEF StartMap, KickOff, PutShards, CompleteInv, WrittenInv, NothingEarly,
           ControllersOK, SlicesAdded, AddedSlice
  <1>2. ControllersOK'
    BY <1>1 DEF ControllersOK
  <1>3. ShardsFinal'
    <2>1. \A s \in Shards : ~Ended(s)'
      <3>1. \A s \in Shards : ~Ended(s)
        BY <1>1 DEF CompleteInv, WrittenInv, NothingEarly
      <3>2. CASE PutShards
        <4>1. ASSUME NEW s \in Shards  PROVE ~Ended(s)'
          <5>1. shardState'[s] = IF shardState[s] # NoEntity THEN shardState[s]
                                ELSE [active |-> TRUE, result_status |-> "none"]
            BY <3>2 DEF PutShards
          <5> QED
            BY <3>1, <5>1 DEF Ended
        <4> QED
          BY <4>1
      <3> QED
        BY <3>1, <3>2 DEF StartMap, KickOff, Ended
    <2> QED
      BY <1>1, <2>1 DEF ShardsFinal, Shards
  <1>4. JobOK'
    <2>1. CASE StartMap
      <3>1. Running \in MapreduceState
        BY DEF Running, MapreduceState
      <3>2. kickoff'.pc = "queued"
        BY <2>1 DEF StartMap, CompleteInv, WrittenInv, KickOffOK
      <3>3. mapreduceState' = Running
        BY <2>1 DEF StartMap
      <3> QED
        BY <1>1, <3>1, <3>2, <3>3
        DEF JobOK, CompleteInv, KickedOff, MapreduceState, Files
    <2>2. CASE KickOff
      <3> DEFINE new == {FileOf(kickoff.run + 1, s) : s \in Shards}
                 state == [Running EXCEPT !.filenames = new,
                                          !.request_filenames = TRUE]
      <3>1. kickoff.run + 1 \in 1..(MaxFaults + 1)
        BY <2>2, MapReduceAssumption
        DEF KickOff, CompleteInv, WrittenInv, KickOffOK
      <3>2. new \subseteq Files
        BY <3>1, MapReduceAssumption DEF FileOf, Files, Shards
      <3>3. /\ state \in MapreduceState /\ state.active
            /\ state.result_status = "none" /\ state.request_filenames
            /\ state.filenames = new
        BY <3>2 DEF Running, MapreduceState
      <3>4. mapreduceState' = state /\ kickoff'.run = kickoff.run + 1
        BY <2>2 DEF KickOff
      <3>5. JobFiles' = new
        BY <1>1, <3>4 DEF JobFiles, FileOf, Shards
      <3> HIDE DEF new, state
      <3>6. NotDecided(mapreduceState)'
        BY <3>3, <3>4, <3>5 DEF NotDecided
      <3> QED
        BY <1>1, <3>3, <3>4, <3>6 DEF JobOK, CompleteInv, MapreduceState, Files
    <2>3. CASE PutShards
      <3>1. /\ kickoff'.run = kickoff.run /\ mapreduceState' = mapreduceState
            /\ KickedOff
        BY <2>3
        DEF PutShards, CompleteInv, WrittenInv, KickOffOK, KickedOff
      <3>2. JobFiles' = JobFiles /\ (Told' <=> Told)
        BY <1>1, <3>1 DEF JobFiles, FileOf, Shards, Told
      <3> HIDE DEF JobFiles
      <3> QED
        BY <1>1, <3>1, <3>2
        DEF JobOK, CompleteInv, NotDecided, MapreduceState, Files
    <2> QED
      BY <2>1, <2>2, <2>3
  <1> QED
    BY <1>2, <1>3, <1>4 DEF CompleteInv

(* Steps that leave the job's state and its controllers alone.             *)
LEMMA WorkComplete ==
    ASSUME CompleteInv, WrittenInv', FilesKept, SlicesAdded', KickedOff,
           UNCHANGED <<mapreduceState, controllers, doneTasks, output>>,
           control' \in BOOLEAN,
           \A v \in workers' : v \in workers \/ FinalOK(v)',
           \A s \in Shards : Ended(s)' =>
               Ended(s) \/ (sharding = "input" => FileFinal(s)')
    PROVE CompleteInv'
  <1>1. Told => Told'
    BY DEF Told
  <1>2. doneTasks' \in Nat
    BY DEF CompleteInv, JobOK
  <1> QED
    BY <1>1, <1>2, CompleteKept

LEMMA KickOffSliceComplete ==
    ASSUME CompleteInv, WrittenInv', KickOffSlice
    PROVE CompleteInv'
  <1>1. /\ KickedOff /\ SlicesAdded'
        /\ UNCHANGED <<mapreduceState, controllers, doneTasks, output, files,
                       control, shardState, sharding>>
        /\ kickoff'.run = kickoff.run
    <2>1. kickoff.pc = "slices" /\ kickoff.next \in Nat
      BY DEF KickOffSlice, CompleteInv, WrittenInv, KickOffOK
    <2>2. /\ kickoff'.run = kickoff.run /\ kickoff'.next = kickoff.next + 1
          /\ kickoff'.pc \in {"controller", "slices"}
      BY <2>1 DEF KickOffSlice, CompleteInv, WrittenInv, KickOffOK
    <2> QED
      BY <2>1, <2>2 DEF KickOffSlice, entities, KickedOff, SlicesAdded,
                        AddedSlice
  <1>2. FilesKept
    BY <1>1 DEF FilesKept, FilesGrow
  <1>3. \A v \in workers' : v \in workers \/ FinalOK(v)'
    BY DEF KickOffSlice, ScheduleSlice, NewSlice, FinalOK
  <1>4. control' \in BOOLEAN /\ \A s \in Shards : Ended(s)' => Ended(s)
    BY <1>1 DEF CompleteInv, JobOK, Ended
  <1> QED
    BY <1>1, <1>2, <1>3, <1>4, WorkComplete

LEMMA NewControllerOK ==
    ASSUME NEW rest, NEW n \in Nat, ScheduleController(rest, n)
    PROVE \A d \in controllers' :
              d \in rest \/ (ControllerTyped(d) /\ ControllerOK(d)')
  <1> DEFINE new == [serial |-> n, control |-> FALSE, state |-> NoEntity,
                     pc |-> "queued"]
  <1>1. ControllerTyped(new)
    BY DEF ControllerTyped
  <1>2. new.pc = "queued"
    OBVIOUS
  <1>3. \A d \in controllers' : d \in rest \/ d = new
    BY DEF ScheduleController
  <1> HIDE DEF new
  <1>4. ControllerOK(new)'
    BY <1>2 DEF ControllerOK
  <1> QED
    BY <1>1, <1>3, <1>4

LEMMA KickOffControllerComplete ==
    ASSUME CompleteInv, WrittenInv', KickOffController \/ KickOffEnds
    PROVE CompleteInv'
  <1>1. /\ KickedOff /\ SlicesAdded'
        /\ UNCHANGED <<mapreduceState, doneTasks, output, files, control,
                       shardState, sharding, workers>>
        /\ kickoff'.run = kickoff.run
    BY DEF KickOffController, KickOffEnds, entities, CompleteInv, WrittenInv,
           KickOffOK, SlicesAdded, AddedSlice, KickedOff
  <1>2. FilesKept /\ (Told => Told')
    BY <1>1 DEF FilesKept, FilesGrow, Told
  <1>3. \A d \in controllers' : \/ d \in controllers
                                \/ ControllerTyped(d) /\ ControllerOK(d)'
    BY NewControllerOK DEF KickOffController, KickOffEnds
  <1>4. /\ control' \in BOOLEAN /\ doneTasks' \in Nat
        /\ \A s \in Shards : Ended(s)' => Ended(s)
    BY <1>1 DEF CompleteInv, JobOK, Ended
  <1> QED
    BY <1>1, <1>2, <1>3, <1>4, CompleteKept

(* No step of a worker undoes a file, and only a slice whose file is final *)
(* ends a shard well.                                                      *)
LEMMA WorkerComplete ==
    ASSUME CompleteInv, WrittenInv', NEW w \in workers, WorkerStep(w)
    PROVE CompleteInv'
  <1>1. /\ UNCHANGED <<mapreduceState, controllers, doneTasks, output, kickoff,
                       sharding>>
        /\ control' \in BOOLEAN
    BY DEF WorkerStep, WorkerBegins, Flush, FinalizeShard, PutShard,
           AbortShard, RepeatCommand, RescheduleSlice, WorkerEnds, entities,
           CompleteInv, JobOK
  <1>2. /\ WorkerOK(w) /\ SlicesAdded /\ SlicesAdded' /\ KickedOff
        /\ w \in Worker
    BY <1>1, WorkersStarted, AddedIsKickedOff
    DEF CompleteInv, SlicesAdded, AddedSlice, WorkerOK
  <1>3. \A pc : At(w, pc).pc = pc /\ At(w, pc).done = w.done
                /\ At(w, pc).file = w.file
    BY <1>2 DEF At, Worker
  <1>4. /\ \A pc : pc # "put" => FinalOK(At(w, pc))'
        /\ ~w.done => FinalOK(At(w, "put"))'
    BY <1>3 DEF FinalOK
  <1>5. \A s, n, from, file : FinalOK(NewSlice(s, n, from, file))'
    BY DEF FinalOK, NewSlice
  <1>6. /\ FilesKept
        /\ \A v \in workers' : v \in workers \/ FinalOK(v)'
    <2>1. CASE \/ WorkerBegins(w) \/ PutShard(w) \/ AbortShard(w)
               \/ RepeatCommand(w) \/ RescheduleSlice(w) \/ WorkerEnds(w)
      <3>1. UNCHANGED files
        BY <2>1 DEF WorkerBegins, PutShard, AbortShard, RepeatCommand,
                    RescheduleSlice, WorkerEnds, entities
      <3>2. FilesKept
        BY <1>1, <3>1 DEF FilesKept, FilesGrow
      <3>3. ASSUME NEW to, NEW done
            PROVE FinalOK(Scanned(w, to, done))'
        BY <1>2 DEF Scanned, FinalOK, Worker
      <3>4. \A v \in workers' : v \in workers \/ FinalOK(v)'
        <4>1. CASE WorkerBegins(w)
          BY <1>4, <3>3, <4>1 DEF WorkerBegins, Replace
        <4>2. CASE PutShard(w)
          BY <1>4, <1>5, <4>2 DEF PutShard, Replace, Again
        <4>3. CASE AbortShard(w) \/ RepeatCommand(w) \/ WorkerEnds(w)
          BY <1>4, <4>3 DEF AbortShard, RepeatCommand, WorkerEnds, Replace
        <4>4. CASE RescheduleSlice(w)
          BY <1>4, <1>5, <4>4 DEF RescheduleSlice, ScheduleSlice, Replace
        <4> QED
          BY <2>1, <4>1, <4>2, <4>3, <4>4
      <3> QED
        BY <3>2, <3>4
    <2>2. CASE Flush(w)
      <3>1. \A f \in Files :
               /\ files[f].content \subseteq files'[f].content
               /\ files'[f].finalized = files[f].finalized
        BY <2>2 DEF Flush, CompleteInv, WrittenInv, StatesOK
      <3>2. FilesKept
        BY <1>1, <3>1 DEF FilesKept, FilesGrow
      <3>3. \/ workers' = Replace(workers, w, Again(w))
            \/ /\ workers' = Replace(workers, w,
                                At(w, IF w.done THEN "finalize" ELSE "put"))
        BY <2>2 DEF Flush
      <3> QED
        BY <1>4, <1>5, <3>2, <3>3 DEF Replace, Again
    <2>3. CASE FinalizeShard(w)
      <3>1. w.file \in Files
        BY <1>2 DEF Worker
      <3>2. files' = [files EXCEPT ![w.file].finalized =
                                   @ \/ sharding = "input"]
        BY <2>3 DEF FinalizeShard
      <3>3. \A f \in Files :
               /\ files'[f].content = files[f].content
               /\ files[f].finalized => files'[f].finalized
        BY <3>1, <3>2 DEF CompleteInv, WrittenInv, StatesOK
      <3>4. sharding = "input" => files'[w.file].finalized
        BY <3>1, <3>2 DEF CompleteInv, WrittenInv, StatesOK
      <3>5. FilesKept
        BY <1>1, <3>3 DEF FilesKept, FilesGrow
      <3>6. FinalOK(At(w, "put"))'
        BY <1>1, <1>3, <3>4 DEF FinalOK
      <3> QED
        BY <1>4, <2>3, <3>5, <3>6 DEF FinalizeShard, Replace
    <2> QED
      BY <2>1, <2>2, <2>3 DEF WorkerStep
  <1>7. \A s \in Shards : Ended(s)' =>
           Ended(s) \/ (sharding = "input" => FileFinal(s)')
    <2>1. CASE PutShard(w)
      <3> SUFFICES ASSUME NEW s \in Shards, Ended(s)', ~Ended(s),
                          sharding = "input"
                   PROVE FileFinal(s)'
        OBVIOUS
      <3>1. s = w.shard /\ w.pc = "put" /\ w.done
        BY <2>1 DEF PutShard, Ended, CompleteInv, WrittenInv, StatesOK
      <3>2. files[w.file].finalized /\ w.file = FileOf(kickoff.run, s)
        BY <1>2, <3>1 DEF CompleteInv, ShardsFinal, FinalOK, WorkerOK
      <3>3. FileFinal(s)
        BY <3>2 DEF FileFinal
      <3> QED
        BY <1>2, <1>6, <3>3, FinalKept
    <2>2. CASE AbortShard(w)
      BY <2>2 DEF AbortShard, Ended, CompleteInv, WrittenInv, StatesOK
    <2>3. CASE ~PutShard(w) /\ ~AbortShard(w)
      <3>1. UNCHANGED shardState
        BY <2>3 DEF WorkerStep, WorkerBegins, Flush, FinalizeShard,
                    RepeatCommand, RescheduleSlice, WorkerEnds, entities
      <3> QED
        BY <3>1 DEF Ended
    <2> QED
      BY <2>1, <2>2, <2>3
  <1> QED
    BY <1>1, <1>2, <1>6, <1>7, WorkComplete

-----------------------------------------------------------------------------
(* The controllers.                                                        *)

(* What a controller is before its step, while the pipeline is not told.   *)
LEMMA ControllersStarted ==
    ASSUME CompleteInv, NEW c \in controllers
    PROVE /\ ControllerTyped(c) /\ SlicesAdded /\ KickedOff
          /\ ~Told => ControllerOK(c)
  BY AddedIsKickedOff DEF CompleteInv, ControllersOK

(* Steps that touch neither shards, workers nor the kickoff.               *)
LEMMA ControlComplete ==
    ASSUME CompleteInv, WrittenInv', FilesKept, SlicesAdded, Told => Told',
           UNCHANGED <<kickoff, shardState, workers, sharding>>,
           doneTasks' \in Nat, control' \in BOOLEAN,
           \/ mapreduceState' \in {mapreduceState, NoEntity}
           \/ /\ mapreduceState' \in MapreduceState
              /\ ~Told' => NotDecided(mapreduceState'),
           \A d \in controllers' : \/ d \in controllers
                                   \/ /\ ControllerTyped(d)
                                      /\ ~Told' => ControllerOK(d)'
    PROVE CompleteInv'
  <1>1. KickedOff /\ SlicesAdded'
    BY AddedIsKickedOff DEF SlicesAdded, AddedSlice
  <1>2. \A s \in Shards : Ended(s)' => Ended(s)
    BY DEF Ended
  <1> QED
    BY <1>1, <1>2, CompleteKept

LEMMA ControllerBeginsComplete ==
    ASSUME CompleteInv, WrittenInv', NEW c \in controllers, ControllerBegins(c)
    PROVE CompleteInv'
  <1>1. /\ UNCHANGED <<sharding, mapreduceState, shardState, control, files,
                       kickoff, workers, doneTasks, output>>
        /\ FilesKept /\ (Told => Told')
    BY DEF ControllerBegins, entities, FilesKept, FilesGrow, Told
  <1>0. PICK d : d = [c EXCEPT !.pc = "shards", !.state = mapreduceState,
                               !.control = control]
    OBVIOUS
  <1>2. ASSUME mapreduceState # NoEntity
        PROVE ControllerTyped(d) /\ (~Told' => ControllerOK(d)')
    <2>1. mapreduceState \in MapreduceState /\ control \in BOOLEAN
      BY <1>2 DEF CompleteInv, JobOK
    <2>2. ControllerTyped(d) /\ d.pc = "shards" /\ d.state = mapreduceState
      BY <1>0, <2>1, ControllersStarted DEF ControllerTyped
    <2>3. ASSUME ~Told'  PROVE ControllerOK(d)
      <3>1. NotDecided(mapreduceState)
        BY <1>1, <1>2, <2>3, ControllersStarted DEF CompleteInv, JobOK, Told
      <3> QED
        BY <2>1, <2>2, <3>1 DEF ControllerOK
    <2> QED
      BY <1>1, <2>2, <2>3, ControllerKept, ControllersStarted
  <1>3. \A e \in controllers' : \/ e \in controllers
                                \/ mapreduceState # NoEntity /\ e = d
    BY <1>0 DEF ControllerBegins, Replace
  <1>4. \A e \in controllers' : \/ e \in controllers
                                \/ /\ ControllerTyped(e)
                                   /\ ~Told' => ControllerOK(e)'
    BY <1>2, <1>3
  <1>5. doneTasks' \in Nat /\ control' \in BOOLEAN
    BY <1>1 DEF CompleteInv, JobOK
  <1> QED
    BY <1>1, <1>4, <1>5, ControllersStarted, ControlComplete

(* Where every shard is there and says success, every file is as it        *)
(* should be.                                                              *)
LEMMA AllSucceededIsComplete ==
    ASSUME CompleteInv, SlicesAdded, There = Shards, AllSucceeded
    PROVE AllWritten /\ (sharding = "input" => AllFinal)
  <1>1. \A s \in Shards : Ended(s)
    BY DEF There, AllSucceeded, Ended
  <1> QED
    BY <1>1 DEF CompleteInv, WrittenInv, NothingSkipped, ShardsFinal, Ended,
                AllWritten, AllFinal, Written

LEMMA ReadShardsComplete ==
    ASSUME CompleteInv, WrittenInv', NEW c \in controllers, ReadShards(c)
    PROVE CompleteInv'
  <1>1. /\ UNCHANGED <<sharding, mapreduceState, shardState, control, files,
                       kickoff, workers, doneTasks, output>>
        /\ FilesKept /\ (Told' <=> Told)
    BY DEF ReadShards, entities, FilesKept, FilesGrow, Told
  <1>2. /\ ControllerTyped(c) /\ c.pc = "shards" /\ SlicesAdded
        /\ c.state \in MapreduceState
        /\ ~Told => NotDecided(c.state)
    BY ControllersStarted DEF ReadShards, ControllerOK, ControllerTyped
  <1> DEFINE put == At(c, "put")
  <1>0. PICK d : d = [c EXCEPT !.state.active = FALSE,
                               !.state.result_status = FinalStatus(c),
                               !.pc = IF Lost(c) THEN "lost" ELSE "files"]
    OBVIOUS
  <1>3. ControllerTyped(put) /\ (~Told' => ControllerOK(put)')
    <2>1. put.pc = "put" /\ put.state = c.state /\ ControllerTyped(put)
      BY <1>2 DEF At, ControllerTyped
    <2> HIDE DEF put
    <2>2. ~Told => ControllerOK(put)
      BY <1>2, <2>1 DEF ControllerOK
    <2> QED
      BY <1>1, <1>2, <2>1, <2>2, ControllerKept
  <1>4. ControllerTyped(d) /\ (~Told' => ControllerOK(d)')
    <2>1. FinalStatus(c) \in Results
      BY <1>2 DEF FinalStatus, Results, MapreduceState
    <2>2. /\ d.pc \in {"lost", "files"} /\ d.state \in MapreduceState
          /\ d.state.filenames = c.state.filenames
          /\ d.state.request_filenames = c.state.request_filenames
          /\ d.state.result_status = FinalStatus(c)
          /\ ControllerTyped(d)
      BY <1>0, <1>2, <2>1 DEF ControllerTyped, MapreduceState
    <2>3. ASSUME ~Told, FinalStatus(c) = "success"
          PROVE There = Shards /\ AllSucceeded
      BY <1>2, <2>3 DEF FinalStatus, Lost, NotDecided
    <2>4. ~Told => ControllerOK(d)
      BY <1>2, <2>2, <2>3, AllSucceededIsComplete DEF ControllerOK, NotDecided
    <2> QED
      BY <1>1, <1>2, <2>2, <2>4, ControllerKept
  <1>5. \A e \in controllers' : e \in controllers \/ e = put \/ e = d
    BY <1>0 DEF ReadShards, Replace
  <1> HIDE DEF put
  <1>6. doneTasks' \in Nat /\ control' \in BOOLEAN
    BY <1>1 DEF CompleteInv, JobOK
  <1> QED
    BY <1>1, <1>2, <1>3, <1>4, <1>5, <1>6, ControlComplete

LEMMA AbortLostComplete ==
    ASSUME CompleteInv, WrittenInv', NEW c \in controllers, AbortLost(c)
    PROVE CompleteInv'
  <1>1. /\ UNCHANGED <<sharding, mapreduceState, shardState, files,
                       kickoff, workers, doneTasks, output>>
        /\ control' = TRUE /\ FilesKept /\ (Told' <=> Told)
    BY DEF AbortLost, FilesKept, FilesGrow, Told
  <1>2. /\ ControllerTyped(c) /\ c.pc = "lost" /\ SlicesAdded
        /\ ~Told => ControllerOK(c)
    BY ControllersStarted DEF AbortLost
  <1> DEFINE d == At(c, "files")
  <1>3. d.pc = "files" /\ d.state = c.state /\ ControllerTyped(d)
    BY <1>2 DEF At, ControllerTyped
  <1>4. \A e \in controllers' : e \in controllers \/ e = d
    BY DEF AbortLost, Replace
  <1> HIDE DEF d
  <1>5. ~Told => ControllerOK(d)
    BY <1>2, <1>3 DEF ControllerOK
  <1>6. ~Told' => ControllerOK(d)'
    BY <1>1, <1>2, <1>5, ControllerKept
  <1>7. doneTasks' \in Nat
    BY <1>1 DEF CompleteInv, JobOK
  <1> QED
    BY <1>1, <1>2, <1>3, <1>4, <1>6, <1>7, ControlComplete

LEMMA PutStateComplete ==
    ASSUME CompleteInv, WrittenInv', NEW c \in controllers, PutState(c)
    PROVE CompleteInv'
  <1>1. /\ UNCHANGED <<sharding, shardState, control, files,
                       kickoff, workers, doneTasks, output>>
        /\ mapreduceState' = c.state /\ FilesKept /\ (Told' <=> Told)
    BY DEF PutState, FilesKept, FilesGrow, Told
  <1>2. /\ ControllerTyped(c) /\ c.pc = "put" /\ SlicesAdded
        /\ c.state \in MapreduceState
        /\ ~Told => NotDecided(c.state)
    BY ControllersStarted DEF PutState, ControllerOK, ControllerTyped
  <1> DEFINE d == At(c, "reschedule")
  <1>3. d.pc = "reschedule" /\ ControllerTyped(d)
    BY <1>2 DEF At, ControllerTyped
  <1>4. \A e \in controllers' : e \in controllers \/ e = d
    BY DEF PutState, Replace
  <1> HIDE DEF d
  <1>5. ControllerOK(d)'
    BY <1>3 DEF ControllerOK
  <1>6. doneTasks' \in Nat /\ control' \in BOOLEAN
    BY <1>1 DEF CompleteInv, JobOK
  <1> QED
    BY <1>1, <1>2, <1>3, <1>4, <1>5, <1>6, ControlComplete

LEMMA RescheduleControllerComplete ==
    ASSUME CompleteInv, WrittenInv', NEW c \in controllers,
           RescheduleController(c) \/ ControllerEnds(c)
    PROVE CompleteInv'
  <1>1. /\ UNCHANGED <<sharding, mapreduceState, shardState, control, files,
                       kickoff, workers, doneTasks, output>>
        /\ FilesKept /\ (Told' <=> Told)
    BY DEF RescheduleController, ControllerEnds, entities, FilesKept,
           FilesGrow, Told
  <1>2. ControllerTyped(c) /\ SlicesAdded
    BY ControllersStarted
  <1> DEFINE d == At(c, "end")
  <1>3. d.pc = "end" /\ ControllerTyped(d)
    <2>1. CASE c.pc # "queued"
      BY <1>2, <2>1 DEF At, ControllerTyped
    <2>2. c.pc # "queued"
      BY DEF RescheduleController, ControllerEnds
    <2> QED
      BY <2>1, <2>2
  <1> HIDE DEF d
  <1>4. ControllerOK(d)'
    BY <1>3 DEF ControllerOK
  <1>5. ASSUME NEW e \in controllers'
        PROVE e \in controllers \/ (ControllerTyped(e) /\ ControllerOK(e)')
    <2>1. CASE RescheduleController(c)
      <3> DEFINE rest == Replace(controllers, c, d)
      <3>1. ScheduleController(rest, c.serial + 1)
        BY <2>1 DEF RescheduleController, d
      <3>2. c.serial + 1 \in Nat
        BY <1>2 DEF ControllerTyped
      <3>3. e \in rest \/ (ControllerTyped(e) /\ ControllerOK(e)')
        <4> HIDE DEF rest
        <4> QED
          BY <3>1, <3>2, NewControllerOK
      <3> QED
        BY <1>3, <1>4, <3>3 DEF Replace
    <2>2. CASE ControllerEnds(c)
      BY <2>2 DEF ControllerEnds
    <2> QED
      BY <2>1, <2>2
  <1>6. doneTasks' \in Nat /\ control' \in BOOLEAN
    BY <1>1 DEF CompleteInv, JobOK
  <1> QED
    BY <1>1, <1>2, <1>5, <1>6, ControlComplete

LEMMA FinalizeFilesComplete ==
    ASSUME CompleteInv, WrittenInv', NEW c \in controllers, FinalizeFiles(c)
    PROVE CompleteInv'
  <1> DEFINE final(f) == files[f].finalized \/ /\ sharding # "input"
                                               /\ c.state.request_filenames
                                               /\ f \in c.state.filenames
             d == [c EXCEPT !.pc = "schedule",
                            !.state = FinalizedNames(c.state)]
  <1>1. /\ UNCHANGED <<sharding, mapreduceState, shardState, control, kickoff,
                       workers, doneTasks, output>>
        /\ files' = [f \in Files |-> [files[f] EXCEPT !.finalized = final(f)]]
        /\ controllers' = Replace(controllers, c, d)
        /\ c.pc = "files" /\ (Told' <=> Told)
    BY DEF FinalizeFiles, entities, Told
  <1>2. /\ ControllerTyped(c) /\ SlicesAdded /\ KickedOff
        /\ c.state \in MapreduceState /\ (~Told => ControllerOK(c))
    BY <1>1, ControllersStarted DEF ControllerTyped
  <1>3. \A f \in Files : /\ files'[f].content = files[f].content
                         /\ files'[f].finalized = final(f)
    BY <1>1 DEF CompleteInv, WrittenInv, StatesOK
  <1>4. FilesKept
    BY <1>1, <1>3 DEF FilesKept, FilesGrow
  <1>5. /\ d.pc = "schedule" /\ ControllerTyped(d)
        /\ d.state.result_status = c.state.result_status
        /\ c.state.request_filenames => d.state.filenames = c.state.filenames
    BY <1>2 DEF ControllerTyped, FinalizedNames, MapreduceState
  <1> HIDE DEF d
  <1>6. ASSUME ~Told
        PROVE ControllerOK(d)'
    <2>1. /\ c.state.request_filenames /\ c.state.filenames = JobFiles
          /\ c.state.result_status = "success" =>
                AllWritten /\ (sharding = "input" => AllFinal)
      BY <1>1, <1>2, <1>6 DEF ControllerOK
    <2>2. (AllWritten => AllWritten') /\ (AllFinal => AllFinal')
      BY <1>2, <1>4, AllKept
    <2>3. JobFiles' = JobFiles
      BY <1>1 DEF JobFiles, FileOf, Shards
    <2>4. sharding # "input" => AllFinal'
      <3> SUFFICES ASSUME sharding # "input", NEW s \in Shards
                   PROVE files'[FileOf(kickoff.run, s)].finalized
        BY <1>1 DEF AllFinal, FileFinal, FileOf, Shards
      <3>1. FileOf(kickoff.run, s) \in JobFiles
        BY DEF JobFiles
      <3>2. FileOf(kickoff.run, s) \in Files
        BY <1>2, FileThere DEF CompleteInv, WrittenInv, KickedOff
      <3> QED
        BY <1>3, <2>1, <3>1, <3>2
    <2> HIDE DEF JobFiles, AllWritten, AllFinal
    <2> QED
      BY <1>1, <1>5, <2>1, <2>2, <2>3, <2>4 DEF ControllerOK
  <1>7. \A e \in controllers' : e \in controllers \/ e = d
    BY <1>1 DEF Replace
  <1>8. doneTasks' \in Nat /\ control' \in BOOLEAN
    BY <1>1 DEF CompleteInv, JobOK
  <1> QED
    BY <1>1, <1>2, <1>4, <1>5, <1>6, <1>7, <1>8, ControlComplete

LEMMA ScheduleFinalizerComplete ==
    ASSUME CompleteInv, WrittenInv', NEW c \in controllers,
           ScheduleFinalizer(c)
    PROVE CompleteInv'
  <1>1. /\ UNCHANGED <<sharding, mapreduceState, shardState, control, files,
                       kickoff, workers, doneTasks, output>>
        /\ FilesKept /\ (Told' <=> Told)
    BY DEF ScheduleFinalizer, entities, FilesKept, FilesGrow, Told
  <1>2. /\ ControllerTyped(c) /\ c.pc = "schedule" /\ SlicesAdded
        /\ ~Told => ControllerOK(c)
    BY ControllersStarted DEF ScheduleFinalizer
  <1> DEFINE d == At(c, "commit")
  <1>3. d.pc = "commit" /\ d.state = c.state /\ ControllerTyped(d)
    BY <1>2 DEF At, ControllerTyped
  <1>4. \A e \in controllers' : e \in controllers \/ e = d
    BY DEF ScheduleFinalizer, Replace
  <1> HIDE DEF d
  <1>5. ~Told => ControllerOK(d)
    BY <1>2, <1>3 DEF ControllerOK
  <1>6. ~Told' => ControllerOK(d)'
    BY <1>1, <1>2, <1>5, ControllerKept
  <1>7. doneTasks' \in Nat /\ control' \in BOOLEAN
    BY <1>1 DEF CompleteInv, JobOK
  <1> QED
    BY <1>1, <1>2, <1>3, <1>4, <1>6, <1>7, ControlComplete

LEMMA CommitStateComplete ==
    ASSUME CompleteInv, WrittenInv', NEW c \in controllers, CommitState(c)
    PROVE CompleteInv'
  <1>1. /\ UNCHANGED <<sharding, shardState, control, files, kickoff, workers,
                       output>>
        /\ mapreduceState' = c.state /\ doneTasks' = doneTasks + 1
        /\ FilesKept
    BY DEF CommitState, FilesKept, FilesGrow
  <1>2. /\ ControllerTyped(c) /\ c.pc = "commit" /\ SlicesAdded
        /\ c.state \in MapreduceState
    BY ControllersStarted DEF CommitState, ControllerTyped
  <1>3. Told' /\ doneTasks' \in Nat /\ control' \in BOOLEAN
    BY <1>1 DEF CompleteInv, JobOK, Told
  <1> DEFINE d == At(c, "end")
  <1>4. ControllerTyped(d)
    BY <1>2 DEF At, ControllerTyped
  <1>5. \A e \in controllers' : e \in controllers \/ e = d
    BY DEF CommitState, Replace
  <1> HIDE DEF d
  <1> QED
    BY <1>1, <1>2, <1>3, <1>4, <1>5, ControlComplete

LEMMA ControllerComplete ==
    ASSUME CompleteInv, WrittenInv', NEW c \in controllers, ControllerStep(c)
    PROVE CompleteInv'
  BY ControllerBeginsComplete, ReadShardsComplete, AbortLostComplete,
     PutStateComplete, RescheduleControllerComplete, FinalizeFilesComplete,
     ScheduleFinalizerComplete, CommitStateComplete DEF ControllerStep

-----------------------------------------------------------------------------
(* Everything else, and the theorem.                                       *)

LEMMA OtherComplete ==
    ASSUME CompleteInv, WrittenInv',
           FinalizerStep \/ Callback \/ AbortJob \/ CleanUpJob \/ UNCHANGED vars
    PROVE CompleteInv'
  <1>1. /\ UNCHANGED <<sharding, files, kickoff, workers, controllers>>
        /\ control' \in {control, TRUE, FALSE}
        /\ mapreduceState' \in {mapreduceState, NoEntity}
        /\ shardState' \in {shardState, [s \in Shards |-> NoEntity]}
        /\ \/ UNCHANGED <<doneTasks, output>>
           \/ /\ doneTasks > 0 /\ mapreduceState # NoEntity
              /\ output' = mapreduceState.filenames
              /\ doneTasks' = doneTasks - 1
    BY DEF FinalizerStep, DeleteControl, DeleteShards, FinalizerEnds, Callback,
           AbortJob, CleanUpJob, entities, queue, vars
  <1>2. FilesKept /\ (KickedOff' => KickedOff)
    BY <1>1 DEF FilesKept, FilesGrow, KickedOff
  <1>3. \A s \in Shards : Ended(s)' => Ended(s)
    BY <1>1 DEF Ended
  <1>4. control' \in BOOLEAN
    BY <1>1 DEF CompleteInv, JobOK
  <1>5. doneTasks' \in Nat /\ (Told => Told')
    <2> doneTasks \in Nat
      BY DEF CompleteInv, JobOK
    <2>1. CASE UNCHANGED <<doneTasks, output>>
      BY <2>1 DEF Told
    <2>2. CASE /\ doneTasks > 0 /\ mapreduceState # NoEntity
               /\ output' = mapreduceState.filenames
               /\ doneTasks' = doneTasks - 1
      <3>1. mapreduceState.filenames \in SUBSET Files
        BY <2>2 DEF CompleteInv, JobOK, MapreduceState
      <3>2. output' # NoEntity
        BY <2>2, <3>1, NoEntityAssumption
      <3>3. doneTasks' \in Nat
        BY <2>2
      <3> QED
        BY <3>2, <3>3 DEF Told
    <2> QED
      BY <1>1, <2>1, <2>2
  <1> QED
    BY <1>1, <1>2, <1>3, <1>4, <1>5, CompleteKept

LEMMA StopComplete ==
    ASSUME CompleteInv, WrittenInv', ~KickOffRepeats, Stop
    PROVE CompleteInv'
  <1>1. UNCHANGED <<sharding, shardState, files, mapreduceState, control,
                    doneTasks, output>>
    BY DEF Stop, entities
  <1>2. /\ Told' <=> Told
        /\ \A s \in Shards : Ended(s)' => Ended(s)
        /\ doneTasks' \in Nat /\ control' \in BOOLEAN
    BY <1>1 DEF Told, Ended, CompleteInv, JobOK
  <1>3. CASE KickOffStops
    <2>1. /\ ~SlicesAdded /\ UNCHANGED <<workers, controllers>>
          /\ ~KickedOff'
      BY <1>3 DEF KickOffStops, SlicesAdded, KickedOff, CompleteInv,
                  WrittenInv, KickOffOK
    <2>2. /\ controllers = {} /\ workers = {}
          /\ \A s \in Shards : ~Ended(s)
      BY <2>1 DEF CompleteInv, ControllersOK, WrittenInv, NothingEarly
    <2>3. ControllersOK' /\ ShardsFinal'
      BY <1>2, <2>1, <2>2 DEF ControllersOK, ShardsFinal, Shards
    <2>4. JobOK'
      BY <1>1, <2>1 DEF CompleteInv, JobOK, MapreduceState, Files
    <2> QED
      BY <2>3, <2>4 DEF CompleteInv
  <1>4. CASE UNCHANGED kickoff
    <2>1. FilesKept /\ (KickedOff' => KickedOff)
      BY <1>1, <1>4 DEF FilesKept, FilesGrow, KickedOff
    <2>2. CASE FinalizerStops
      BY <1>1, <1>2, <1>4, <2>1, <2>2, CompleteKept DEF FinalizerStops
    <2>3. ASSUME NEW w \in workers, WorkerStops(w)
          PROVE CompleteInv'
      <3>1. \A v \in workers' : v \in workers \/ FinalOK(v)'
        BY <2>3 DEF WorkerStops, Replace, Again, NewSlice, FinalOK
      <3> QED
        BY <1>1, <1>2, <1>4, <2>1, <2>3, <3>1, CompleteKept DEF WorkerStops
    <2>4. ASSUME NEW c \in controllers, ControllerStops(c)
          PROVE CompleteInv'
      <3> DEFINE d == [c EXCEPT !.pc = "queued", !.state = NoEntity,
                                !.control = FALSE]
      <3>1. ControllerTyped(d) /\ d.pc = "queued"
        BY ControllersStarted DEF ControllerTyped
      <3>2. /\ \A e \in controllers' : e \in controllers \/ e = d
            /\ UNCHANGED workers
        BY <2>4 DEF ControllerStops, Replace
      <3> HIDE DEF d
      <3>3. ControllerOK(d)'
        BY <3>1 DEF ControllerOK
      <3>4. SlicesAdded
        BY ControllersStarted
      <3> QED
        BY <1>1, <1>2, <1>4, <2>1, <3>1, <3>2, <3>3, <3>4, ControlComplete
    <2> QED
      BY <1>3, <2>2, <2>3, <2>4 DEF Stop
  <1> QED
    BY <1>3, <1>4 DEF Stop, FinalizerStops, WorkerStops, ControllerStops

LEMMA CompleteInit ==
    ASSUME Init
    PROVE CompleteInv
  <1>1. ControllersOK /\ JobOK /\ ShardsFinal
    BY DEF Init, ControllersOK, JobOK, ShardsFinal, KickedOff, Ended
  <1> QED
    BY <1>1, WrittenInit DEF CompleteInv

LEMMA CompleteStep ==
    ASSUME CompleteInv, ~KickOffRepeats, [Next]_vars
    PROVE CompleteInv'
  <1>1. WrittenInv'
    BY WrittenStep DEF CompleteInv
  <1>2. CASE StartMap \/ KickOffStep
    BY <1>1, <1>2, EarlyComplete, KickOffSliceComplete,
       KickOffControllerComplete DEF KickOffStep
  <1>3. CASE FinalizerStep \/ Callback \/ AbortJob \/ CleanUpJob
                 \/ UNCHANGED vars
    BY <1>1, <1>3, OtherComplete
  <1>4. ASSUME NEW w \in workers, WorkerStep(w)
        PROVE CompleteInv'
    BY <1>1, <1>4, WorkerComplete
  <1>5. ASSUME NEW c \in controllers, ControllerStep(c)
        PROVE CompleteInv'
    BY <1>1, <1>5, ControllerComplete
  <1>6. CASE Stop
    BY <1>1, <1>6, StopComplete
  <1> QED
    BY <1>2, <1>3, <1>4, <1>5, <1>6 DEF Next

(* Only the commit of a controller tells the pipeline.                     *)
LEMMA OnlyCommitsTell ==
    ASSUME CompleteInv, [Next]_vars, ~Told, Told'
    PROVE \E c \in controllers : CommitState(c)
  <1>1. ~UNCHANGED <<doneTasks, output>> /\ ~Callback
    BY DEF Told, Callback
  <1>2. ASSUME NEW c \in controllers, ControllerStep(c), ~CommitState(c)
        PROVE UNCHANGED <<doneTasks, output>>
    BY <1>2 DEF ControllerStep, ControllerBegins, ReadShards, AbortLost,
                PutState, RescheduleController, FinalizeFiles,
                ScheduleFinalizer, ControllerEnds
  <1>3. ASSUME NEW w \in workers, WorkerStep(w)
        PROVE UNCHANGED <<doneTasks, output>>
    BY <1>3 DEF WorkerStep, WorkerBegins, Flush, FinalizeShard, PutShard,
                AbortShard, RepeatCommand, RescheduleSlice, WorkerEnds
  <1>4. CASE \/ StartMap \/ KickOffStep \/ FinalizerStep \/ AbortJob
             \/ CleanUpJob \/ Stop \/ UNCHANGED vars
    BY <1>1, <1>4
    DEF StartMap, KickOffStep, KickOff, PutShards, KickOffSlice,
        KickOffController, KickOffEnds, FinalizerStep, DeleteControl,
        DeleteShards, FinalizerEnds, AbortJob, CleanUpJob, Stop, vars
  <1> QED
    BY <1>1, <1>2, <1>3, <1>4 DEF Next

(* If the kickoff does not stop once it has added a slice, then whatever   *)
(* else stops, is aborted or deleted: the pipeline is first told that a    *)
(* job has succeeded only when the files the job lists are final and hold  *)
(* everything that its shards read (handlers.py:414-425, 514-538).         *)
THEOREM SuccessIsComplete ==
    ASSUME ~KickOffRepeats
    PROVE Spec => SuccessMeansAll
  <1> DEFINE Telling == ~Told /\ Told' /\ Succeeded(mapreduceState')
                           => ListedFilesHold(mapreduceState)'
  <1>1. ASSUME CompleteInv, [Next]_vars
        PROVE Telling
    <2> SUFFICES ASSUME ~Told, Told', Succeeded(mapreduceState')
                 PROVE ListedFilesHold(mapreduceState)'
      OBVIOUS
    <2>1. PICK c \in controllers : CommitState(c)
      BY <1>1, OnlyCommitsTell
    <2>2. /\ mapreduceState' = c.state /\ c.pc = "commit"
          /\ UNCHANGED <<files, sharding>>
      BY <2>1 DEF CommitState
    <2>3. ControllerOK(c) /\ KickedOff
      BY <1>1, ControllersStarted
    <2>4. /\ c.state.filenames = JobFiles /\ AllWritten /\ AllFinal
      BY <2>2, <2>3 DEF ControllerOK, Succeeded
    <2>5. \A f \in JobFiles : files[f].finalized
      BY <2>4 DEF JobFiles, AllFinal, FileFinal
    <2>6. Everything \subseteq UNION {files[f].content : f \in JobFiles}
      <3> SUFFICES ASSUME NEW s \in Shards, NEW e \in EntitiesOf(s)
                   PROVE \E f \in JobFiles : e \in files[f].content
        BY DEF Everything
      <3> QED
        BY <2>4 DEF AllWritten, Written, JobFiles
    <2>7. /\ \A f \in c.state.filenames : files'[f].finalized
          /\ Everything' \subseteq UNION {files'[f].content :
                                             f \in c.state.filenames}
      BY <2>2, <2>4, <2>5, <2>6 DEF Everything, EntitiesOf, Shards
    <2> QED
      BY <2>2, <2>7 DEF ListedFilesHold
  <1>2. CompleteInv /\ [Next]_vars => [Telling]_vars
    BY <1>1
  <1> QED
    BY CompleteInit, CompleteStep, <1>2, PTL DEF Spec, SuccessMeansAll

-----------------------------------------------------------------------------
(* Types, and that the pipeline is called no more often than runs stop.    *)

(* A slice leaves entities to a next one only where there may be one.      *)
MoreSlices(w) ==
    w.pc = "reschedule" \/ (w.pc \in {"flush", "finalize", "put"} /\ ~w.done)
        => w.slice + 1 < MaxSlices[w.shard]

MorePolls(c) ==
    /\ c.pc \in {"put", "reschedule"} => c.serial < MaxPolls
    /\ c.pc # "queued" => c.state \in MapreduceState

(* A run of a controller commits once, and only a run that stopped makes   *)
(* a second one of that task.                                              *)
Live == {c \in controllers : c.pc # "end"}
OneTeller ==
    /\ IsFiniteSet(controllers)
    /\ polls = 0 => controllers = {} /\ doneTasks = 0
    /\ polls > 0 => doneTasks + Cardinality(Live) <= faults + 1

TypeInv ==
    /\ TypeOK /\ KickOffOK /\ OneTeller
    /\ \A w \in workers : MoreSlices(w)
    /\ \A c \in controllers : MorePolls(c)

LEMMA TypeInvInit == Init => TypeInv
  <1> SUFFICES ASSUME Init PROVE TypeInv
    OBVIOUS
  <1>1. kickoff = [pc |-> "absent", run |-> 0, next |-> 0] /\ faults = 0
    BY DEF Init
  <1>2. KickOffOK
    BY <1>1, MapReduceAssumption DEF KickOffOK
  <1>3. IsFiniteSet(controllers)
    BY FS_EmptySet DEF Init
  <1>4. TypeOK
    <2>1. /\ kickoff \in [pc : {"absent", "queued", "shards", "slices",
                               "controller", "end", "over"},
                         run : 0..(MaxFaults + 1), next : 0..ShardCount]
          /\ polls \in 0..(MaxPolls + 1) /\ doneTasks \in 0..(MaxFaults + 1)
          /\ faults \in 0..MaxFaults
      BY <1>1, MapReduceAssumption DEF Init
    <2>2. files \in [Files -> [content : SUBSET (UNION {EntitiesOf(s) :
                                                          s \in Shards}),
                              finalized : BOOLEAN]]
      BY DEF Init
    <2>3. /\ slices \in [Shards -> Nat]
          /\ \A s \in Shards : slices[s] <= MaxSlices[s]
      BY MapReduceAssumption DEF Init, Shards
    <2> QED
      BY <2>1, <2>2, <2>3 DEF Init, TypeOK
  <1> QED
    BY <1>2, <1>3, <1>4 DEF Init, TypeInv, OneTeller

(* The kickoff, and the count of faults.                                   *)
LEMMA KickOffTyped ==
    ASSUME TypeInv, [Next]_vars
    PROVE /\ KickOffOK'
          /\ kickoff' \in [pc : {"absent", "queued", "shards", "slices",
                                 "controller", "end", "over"},
                           run : 0..(MaxFaults + 1), next : 0..ShardCount]
  <1> DEFINE Typed == kickoff' \in [pc : {"absent", "queued", "shards",
                                 "slices", "controller", "end", "over"},
                           run : 0..(MaxFaults + 1), next : 0..ShardCount]
  <1>1. KickOffOK /\ kickoff \in [pc : {"absent", "queued", "shards", "slices",
                                 "controller", "end", "over"},
                           run : 0..(MaxFaults + 1), next : 0..ShardCount]
    BY DEF TypeInv, TypeOK
  <1>2. CASE StartMap
    BY <1>1, <1>2 DEF StartMap, KickOffOK
  <1>3. CASE KickOff
    BY <1>1, <1>3, MapReduceAssumption DEF KickOff, KickOffOK
  <1>4. CASE PutShards
    BY <1>1, <1>4, MapReduceAssumption DEF PutShards, KickOffOK
  <1>5. CASE KickOffSlice
    <2>1. /\ kickoff.pc = "slices" /\ faults' = faults
          /\ kickoff'.run = kickoff.run /\ kickoff'.next = kickoff.next + 1
          /\ kickoff'.pc = IF kickoff.next + 1 = ShardCount THEN "controller"
                           ELSE "slices"
          /\ DOMAIN kickoff' = DOMAIN kickoff
      BY <1>1, <1>5 DEF KickOffSlice
    <2>2. kickoff' = [pc |-> kickoff'.pc, run |-> kickoff.run,
                      next |-> kickoff.next + 1]
      BY <1>1, <1>5 DEF KickOffSlice
    <2>3. kickoff.next + 1 \in 0..ShardCount
      BY <1>1, <2>1, MapReduceAssumption DEF KickOffOK
    <2> QED
      BY <1>1, <2>1, <2>2, <2>3, MapReduceAssumption DEF KickOffOK
  <1>6. CASE KickOffController \/ KickOffEnds
    BY <1>1, <1>6 DEF KickOffController, KickOffEnds, KickOffOK
  <1>7. CASE Stop
    <2>1. /\ faults \in 0..MaxFaults
          /\ faults' = faults + 1 /\ faults' <= MaxFaults
      BY <1>1, <1>7, MapReduceAssumption DEF Stop, Fault, KickOffOK
    <2>2. CASE UNCHANGED kickoff
      BY <1>1, <2>1, <2>2, MapReduceAssumption DEF KickOffOK
    <2>3. CASE KickOffStops
      <3>1. kickoff' = [pc |-> "queued", run |-> kickoff.run, next |-> 0]
        BY <1>1, <2>3 DEF KickOffStops
      <3>2. kickoff.run \in 1..(faults + 1)
        BY <1>1, <2>3 DEF KickOffStops, KickOffOK
      <3> QED
        BY <1>1, <2>1, <3>1, <3>2, MapReduceAssumption DEF KickOffOK
    <2> QED
      BY <1>7, <2>2, <2>3 DEF Stop, FinalizerStops, WorkerStops, ControllerStops
  <1>8. CASE AbortJob \/ CleanUpJob
    BY <1>1, <1>8, MapReduceAssumption
    DEF AbortJob, CleanUpJob, Fault, queue, KickOffOK
  <1>9. CASE UNCHANGED <<kickoff, faults>>
    BY <1>1, <1>9 DEF KickOffOK
  <1>10. ASSUME NEW w \in workers, WorkerStep(w)
         PROVE UNCHANGED <<kickoff, faults>>
    BY <1>10 DEF WorkerStep, WorkerBegins, Flush, FinalizeShard, PutShard,
                AbortShard, RepeatCommand, RescheduleSlice, WorkerEnds
  <1>11. ASSUME NEW c \in controllers, ControllerStep(c)
         PROVE UNCHANGED <<kickoff, faults>>
    BY <1>11 DEF ControllerStep, ControllerBegins, ReadShards, AbortLost,
                PutState, RescheduleController, FinalizeFiles,
                ScheduleFinalizer, CommitState, ControllerEnds
  <1>12. CASE Callback \/ FinalizerStep
    BY <1>9, <1>12
    DEF Callback, FinalizerStep, DeleteControl, DeleteShards, FinalizerEnds,
        queue
  <1> QED
    BY <1>2, <1>3, <1>4, <1>5, <1>6, <1>7, <1>8, <1>9, <1>10, <1>11, <1>12
    DEF Next, KickOffStep, vars, queue

(* The tasks of workers.                                                   *)
WorkersTyped ==
    /\ workers \subseteq Worker
    /\ \A w \in workers : MoreSlices(w)
    /\ slices \in [Shards -> Nat]
    /\ \A s \in Shards : slices[s] <= MaxSlices[s]

LEMMA WorkersTypedNow ==
    ASSUME TypeInv
    PROVE WorkersTyped
  BY DEF TypeInv, TypeOK, WorkersTyped

LEMMA ReplacedTyped ==
    ASSUME WorkersTyped, NEW w \in workers, NEW v \in Worker, MoreSlices(v),
           workers' = Replace(workers, w, v), UNCHANGED slices
    PROVE WorkersTyped'
  BY DEF WorkersTyped, Replace, MoreSlices

LEMMA RestTyped ==
    ASSUME WorkersTyped, workers' \subseteq workers, UNCHANGED slices
    PROVE WorkersTyped'
  BY DEF WorkersTyped, MoreSlices

LEMMA ScheduleTyped ==
    ASSUME WorkersTyped, NEW rest, rest \subseteq Worker,
           \A w \in rest : MoreSlices(w), NEW s \in Shards, NEW n \in Nat,
           n < MaxSlices[s], NEW from \in 0..Entities, NEW file \in Files,
           ScheduleSlice(rest, s, n, from, file)
    PROVE WorkersTyped'
  <1> DEFINE new == NewSlice(s, n, from, file)
  <1>1. new \in Worker /\ MoreSlices(new)
    BY NewSliceTyped DEF NewSlice, MoreSlices
  <1> HIDE DEF new
  <1>2. CASE n = slices[s]
    <2>1. /\ workers' = rest \cup {new}
          /\ slices' = [slices EXCEPT ![s] = n + 1]
      BY <1>2 DEF ScheduleSlice, new
    <2>2. \A t \in Shards : MaxSlices[t] \in Nat
      BY MapReduceAssumption DEF Shards
    <2>3. /\ slices' \in [Shards -> Nat]
          /\ \A t \in Shards : slices'[t] <= MaxSlices[t]
      BY <2>1, <2>2 DEF WorkersTyped
    <2> QED
      BY <1>1, <2>1, <2>3 DEF WorkersTyped, MoreSlices
  <1>3. CASE n # slices[s]
    BY <1>3 DEF ScheduleSlice, WorkersTyped, MoreSlices
  <1> QED
    BY <1>2, <1>3

LEMMA AtTyped ==
    ASSUME NEW w \in Worker,
           NEW pc \in {"queued", "finalizeAborted", "abort", "control",
                       "flush", "finalize", "put", "reschedule", "end"},
           \/ pc \in {"finalizeAborted", "abort", "control", "end"}
           \/ w.slice + 1 < MaxSlices[w.shard]
           \/ w.done /\ pc # "reschedule"
    PROVE At(w, pc) \in Worker /\ MoreSlices(At(w, pc))
  BY DEF At, Worker, MoreSlices

LEMMA AgainTyped ==
    ASSUME NEW w \in Worker
    PROVE Again(w) \in Worker /\ MoreSlices(Again(w))
  BY NewSliceTyped DEF Again, NewSlice, Worker, MoreSlices

LEMMA WorkerStepTyped ==
    ASSUME WorkersTyped, NEW w \in workers, WorkerStep(w)
    PROVE WorkersTyped'
  <1>1. w \in Worker /\ MoreSlices(w)
    BY DEF WorkersTyped
  <1>2. CASE WorkerBegins(w)
    <2>1. CASE workers' = workers \ {w}
      BY <1>2, <2>1, RestTyped DEF WorkerBegins
    <2>2. CASE workers' = Replace(workers, w, At(w, "finalizeAborted"))
      BY <1>1, <1>2, <2>2, AtTyped, ReplacedTyped DEF WorkerBegins
    <2>3. ASSUME NEW to \in w.from..Entities, NEW done \in BOOLEAN,
                 ScanMayEnd(w, to, done),
                 workers' = Replace(workers, w, Scanned(w, to, done))
          PROVE WorkersTyped'
      <3>1. to \in 0..Entities
        BY <1>1, MapReduceAssumption DEF Worker
      <3>2. Scanned(w, to, done) \in Worker
        BY <1>1, <3>1 DEF Scanned, Worker
      <3>3. MoreSlices(Scanned(w, to, done))
        BY <1>1, <2>3 DEF Scanned, Worker, MoreSlices, ScanMayEnd
      <3> QED
        BY <1>2, <2>3, <3>2, <3>3, ReplacedTyped DEF WorkerBegins
    <2> QED
      BY <1>2, <2>1, <2>2, <2>3 DEF WorkerBegins
  <1>3. CASE Flush(w)
    <2>1. \/ workers' = Replace(workers, w, Again(w))
          \/ /\ workers' = Replace(workers, w,
                               At(w, IF w.done THEN "finalize" ELSE "put"))
             /\ w.pc = "flush"
      BY <1>3 DEF Flush
    <2>2. w.pc = "flush" /\ ~w.done => w.slice + 1 < MaxSlices[w.shard]
      BY <1>1 DEF MoreSlices
    <2>3. UNCHANGED slices
      BY <1>3 DEF Flush
    <2> QED
      BY <1>1, <2>1, <2>2, <2>3, AgainTyped, AtTyped, ReplacedTyped
  <1>4. CASE FinalizeShard(w)
    <2>1. /\ workers' = Replace(workers, w,
                       At(w, IF w.pc = "finalize" THEN "put" ELSE "abort"))
          /\ UNCHANGED slices
      BY <1>4 DEF FinalizeShard
    <2>2. w.pc = "finalize" /\ ~w.done => w.slice + 1 < MaxSlices[w.shard]
      BY <1>1 DEF MoreSlices
    <2> QED
      BY <1>1, <2>1, <2>2, AtTyped, ReplacedTyped
  <1>5. CASE AbortShard(w)
    BY <1>1, <1>5, AtTyped, ReplacedTyped DEF AbortShard
  <1>6. CASE RepeatCommand(w)
    BY <1>1, <1>6, AtTyped, ReplacedTyped DEF RepeatCommand
  <1>7. CASE PutShard(w)
    <2>1. /\ w.pc = "put" /\ UNCHANGED slices
          /\ \/ workers' = Replace(workers, w, Again(w))
             \/ workers' = Replace(workers, w, At(w, "end"))
             \/ workers' = Replace(workers, w, At(w, "reschedule")) /\ ~w.done
      BY <1>7 DEF PutShard
    <2>2. ~w.done => w.slice + 1 < MaxSlices[w.shard]
      BY <1>1, <2>1 DEF MoreSlices
    <2> QED
      BY <1>1, <2>1, <2>2, AgainTyped, AtTyped, ReplacedTyped
  <1>8. CASE RescheduleSlice(w)
    <2> DEFINE rest == Replace(workers, w, At(w, "end"))
    <2>1. At(w, "end") \in Worker /\ MoreSlices(At(w, "end"))
      BY <1>1, AtTyped
    <2>2. rest \subseteq Worker /\ \A v \in rest : MoreSlices(v)
      BY <2>1 DEF WorkersTyped, Replace
    <2>3. /\ w.shard \in Shards /\ w.slice + 1 \in Nat /\ w.to \in 0..Entities
          /\ w.file \in Files /\ w.slice + 1 < MaxSlices[w.shard]
      BY <1>1, <1>8 DEF Worker, MoreSlices, RescheduleSlice
    <2>4. ScheduleSlice(rest, w.shard, w.slice + 1, w.to, w.file)
      BY <1>8 DEF RescheduleSlice
    <2> HIDE DEF rest
    <2> QED
      BY <2>2, <2>3, <2>4, ScheduleTyped
  <1>9. CASE WorkerEnds(w)
    BY <1>9, RestTyped DEF WorkerEnds
  <1> QED
    BY <1>2, <1>3, <1>4, <1>5, <1>6, <1>7, <1>8, <1>9 DEF WorkerStep

LEMMA WorkersStayTyped ==
    ASSUME TypeInv, [Next]_vars
    PROVE WorkersTyped'
  <1>1. WorkersTyped
    BY WorkersTypedNow
  <1>2. CASE UNCHANGED <<workers, slices>>
    BY <1>1, <1>2, RestTyped
  <1>3. ASSUME NEW w \in workers, WorkerStep(w)
        PROVE WorkersTyped'
    BY <1>1, <1>3, WorkerStepTyped
  <1>4. CASE KickOffSlice
    <2>1. /\ kickoff.next \in Shards /\ kickoff.pc = "slices"
          /\ KickOffOK
      BY <1>4, MapReduceAssumption
      DEF KickOffSlice, TypeInv, TypeOK, KickOffOK, Shards
    <2>2. FileOf(kickoff.run, kickoff.next) \in Files
      BY <2>1, FileThere
    <2>3. /\ ScheduleSlice(workers, kickoff.next, 0, 0,
                           FileOf(kickoff.run, kickoff.next))
          /\ 0 < MaxSlices[kickoff.next] /\ 0 \in 0..Entities
      BY <1>4, <2>1, MapReduceAssumption DEF KickOffSlice, Shards
    <2>4. workers \subseteq Worker /\ \A w \in workers : MoreSlices(w)
      BY <1>1 DEF WorkersTyped
    <2> QED
      BY <1>1, <2>1, <2>2, <2>3, <2>4, ScheduleTyped
  <1>5. CASE Stop
    <2>1. UNCHANGED slices
      BY <1>5 DEF Stop
    <2>2. ASSUME NEW w \in workers, WorkerStops(w)
          PROVE WorkersTyped'
      <3>1. w \in Worker
        BY <1>1 DEF WorkersTyped
      <3> QED
        BY <1>1, <2>1, <2>2, <3>1, AgainTyped, ReplacedTyped DEF WorkerStops
    <2> QED
      BY <1>2, <1>5, <2>1, <2>2
      DEF Stop, KickOffStops, FinalizerStops, ControllerStops
  <1>6. ASSUME NEW c \in controllers, ControllerStep(c)
        PROVE UNCHANGED <<workers, slices>>
    BY <1>6 DEF ControllerStep, ControllerBegins, ReadShards, AbortLost,
                PutState, RescheduleController, FinalizeFiles,
                ScheduleFinalizer, CommitState, ControllerEnds
  <1>7. CASE \/ StartMap \/ KickOff \/ PutShards \/ KickOffController
             \/ KickOffEnds \/ FinalizerStep \/ Callback \/ AbortJob
             \/ CleanUpJob \/ UNCHANGED vars
    BY <1>2, <1>7
    DEF StartMap, KickOff, PutShards, KickOffController, KickOffEnds,
        FinalizerStep, DeleteControl, DeleteShards, FinalizerEnds, Callback,
        AbortJob, CleanUpJob, vars, queue
  <1> QED
    BY <1>3, <1>4, <1>5, <1>2, <1>6, <1>7 DEF Next, KickOffStep

(* The state of the job, and the tasks of controllers.                     *)
ControllersTyped ==
    /\ mapreduceState \in MapreduceState \cup {NoEntity}
    /\ control \in BOOLEAN
    /\ controllers \subseteq Controller
    /\ \A c \in controllers : MorePolls(c)
    /\ polls \in 0..(MaxPolls + 1)

LEMMA KickOffTypes ==
    ASSUME TypeInv, KickOff
    PROVE mapreduceState' \in MapreduceState
  <1>1. \A s \in Shards : FileOf(kickoff.run + 1, s) \in Files
    BY MapReduceAssumption
    DEF TypeInv, TypeOK, KickOff, KickOffOK, FileOf, Files, Shards
  <1> QED
    BY <1>1 DEF KickOff, Running, MapreduceState

LEMMA ControllerReplaced ==
    ASSUME ControllersTyped, NEW c \in controllers, NEW d \in Controller,
           MorePolls(d), controllers' = Replace(controllers, c, d),
           UNCHANGED polls,
           mapreduceState' \in MapreduceState \cup {NoEntity},
           control' \in BOOLEAN
    PROVE ControllersTyped'
  BY DEF ControllersTyped, Replace, MorePolls, MapreduceState, Files, Controller

LEMMA ControllerAdded ==
    ASSUME ControllersTyped, NEW rest, rest \subseteq Controller,
           \A c \in rest : MorePolls(c),
           NEW n \in 0..MaxPolls, ScheduleController(rest, n),
           UNCHANGED <<mapreduceState, control>>
    PROVE ControllersTyped'
  <1> DEFINE new == [serial |-> n, control |-> FALSE, state |-> NoEntity,
                     pc |-> "queued"]
  <1>1. new \in Controller /\ MorePolls(new)
    BY DEF Controller, MorePolls
  <1> HIDE DEF new
  <1>2. \/ controllers' = rest \cup {new} /\ polls' = n + 1
        \/ controllers' = rest /\ polls' = polls
    BY DEF ScheduleController, new
  <1> QED
    BY <1>1, <1>2, MapReduceAssumption
    DEF ControllersTyped, MorePolls, MapreduceState, Files, Controller

LEMMA ControllerStepTyped ==
    ASSUME ControllersTyped, NEW c \in controllers, ControllerStep(c)
    PROVE ControllersTyped'
  <1>1. c \in Controller /\ MorePolls(c)
    BY DEF ControllersTyped
  <1>2. /\ mapreduceState \in MapreduceState \cup {NoEntity}
        /\ control \in BOOLEAN
    BY DEF ControllersTyped
  <1>3. ASSUME NEW pc \in {"lost", "put", "reschedule", "files", "schedule",
                           "commit", "end"},
               c.pc # "queued",
               pc \in {"put", "reschedule"} => c.serial < MaxPolls
        PROVE At(c, pc) \in Controller /\ MorePolls(At(c, pc))
    BY <1>1, <1>3 DEF At, Controller, MorePolls
  <1>4. ASSUME controllers' = controllers \ {c}, UNCHANGED <<entities, polls>>
        PROVE ControllersTyped'
    BY <1>4 DEF ControllersTyped, MorePolls, entities, MapreduceState, Files,
                Controller
  <1>5. CASE ControllerBegins(c)
    <2>1. CASE mapreduceState = NoEntity
      BY <1>4, <1>5, <2>1 DEF ControllerBegins
    <2>2. CASE mapreduceState # NoEntity
      <3> DEFINE new == [c EXCEPT !.pc = "shards", !.state = mapreduceState,
                                  !.control = control]
      <3>1. new \in Controller /\ MorePolls(new)
        BY <1>1, <1>2, <2>2 DEF Controller, MorePolls
      <3>2. controllers' = Replace(controllers, c, new)
        BY <1>5, <2>2 DEF ControllerBegins
      <3> HIDE DEF new
      <3> QED
        BY <1>2, <1>5, <3>1, <3>2, ControllerReplaced
        DEF ControllerBegins, entities
    <2> QED
      BY <2>1, <2>2
  <1>6. CASE ReadShards(c)
    <2> DEFINE new == [c EXCEPT !.state.active = FALSE,
                                !.state.result_status = FinalStatus(c),
                                !.pc = IF Lost(c) THEN "lost" ELSE "files"]
    <2>1. /\ c.pc = "shards" /\ UNCHANGED <<entities, polls>>
          /\ StillActive(c) => c.serial < MaxPolls
          /\ controllers' = Replace(controllers, c,
                               IF StillActive(c) THEN At(c, "put") ELSE new)
      BY <1>6 DEF ReadShards, StillActive
    <2>2. c.state \in MapreduceState
      BY <1>1, <2>1 DEF MorePolls
    <2>3. FinalStatus(c) \in Results \cup {"none"}
      BY <2>2 DEF FinalStatus, Results, MapreduceState
    <2>4. new \in Controller /\ MorePolls(new)
      BY <1>1, <2>2, <2>3 DEF Controller, MorePolls, MapreduceState
    <2> HIDE DEF new
    <2>5. CASE StillActive(c)
      BY <1>2, <1>3, <2>1, <2>5, ControllerReplaced DEF entities
    <2> QED
      BY <1>2, <2>1, <2>4, <2>5, ControllerReplaced DEF entities
  <1>7. CASE AbortLost(c)
    BY <1>2, <1>3, <1>7, ControllerReplaced DEF AbortLost
  <1>8. CASE PutState(c)
    <2>1. c.state \in MapreduceState /\ c.serial < MaxPolls
      BY <1>1, <1>8 DEF PutState, MorePolls
    <2> QED
      BY <1>2, <1>3, <1>8, <2>1, ControllerReplaced DEF PutState
  <1>9. CASE RescheduleController(c)
    <2> DEFINE rest == Replace(controllers, c, At(c, "end"))
    <2>1. /\ c.serial + 1 \in 0..MaxPolls /\ c.pc # "queued"
          /\ ScheduleController(rest, c.serial + 1)
      BY <1>1, <1>9, MapReduceAssumption
      DEF RescheduleController, MorePolls, Controller
    <2>2. rest \subseteq Controller /\ \A d \in rest : MorePolls(d)
      BY <1>3, <2>1 DEF ControllersTyped, Replace
    <2> HIDE DEF rest
    <2> QED
      BY <1>9, <2>1, <2>2, ControllerAdded DEF RescheduleController, entities
  <1>10. CASE FinalizeFiles(c)
    <2> DEFINE new == [c EXCEPT !.pc = "schedule",
                                !.state = FinalizedNames(c.state)]
    <2>1. c.pc = "files" /\ c.state \in MapreduceState
      BY <1>1, <1>10 DEF FinalizeFiles, MorePolls
    <2>2. FinalizedNames(c.state) \in MapreduceState
      BY <2>1 DEF FinalizedNames, MapreduceState
    <2>3. new \in Controller /\ MorePolls(new)
      BY <1>1, <2>2 DEF Controller, MorePolls
    <2>4. /\ UNCHANGED <<entities, polls>>
          /\ controllers' = Replace(controllers, c, new)
      BY <1>10 DEF FinalizeFiles
    <2> HIDE DEF new
    <2> QED
      BY <1>2, <2>3, <2>4, ControllerReplaced DEF entities
  <1>11. CASE ScheduleFinalizer(c)
    BY <1>2, <1>3, <1>11, ControllerReplaced DEF ScheduleFinalizer, entities
  <1>12. CASE CommitState(c)
    <2>1. c.state \in MapreduceState
      BY <1>1, <1>12 DEF CommitState, MorePolls
    <2> QED
      BY <1>2, <1>3, <1>12, <2>1, ControllerReplaced DEF CommitState
  <1>13. CASE ControllerEnds(c)
    BY <1>4, <1>13 DEF ControllerEnds
  <1> QED
    BY <1>5, <1>6, <1>7, <1>8, <1>9, <1>10, <1>11, <1>12, <1>13
    DEF ControllerStep

LEMMA ControllersStayTyped ==
    ASSUME TypeInv, [Next]_vars
    PROVE ControllersTyped'
  <1>1. ControllersTyped
    BY DEF TypeInv, TypeOK, ControllersTyped
  <1>2. ASSUME UNCHANGED <<controllers, polls>>,
               mapreduceState' \in MapreduceState \cup {NoEntity},
               control' \in BOOLEAN
        PROVE ControllersTyped'
    BY <1>1, <1>2 DEF ControllersTyped, MorePolls, MapreduceState, Files,
                      Controller
  <1>3. CASE UNCHANGED <<mapreduceState, control, controllers, polls>>
    BY <1>1, <1>2, <1>3 DEF ControllersTyped
  <1>4. ASSUME NEW c \in controllers, ControllerStep(c)
        PROVE ControllersTyped'
    BY <1>1, <1>4, ControllerStepTyped
  <1>5. ASSUME NEW w \in workers, WorkerStep(w)
        PROVE /\ UNCHANGED <<mapreduceState, controllers, polls>>
              /\ control' \in {control, TRUE}
    BY <1>5 DEF WorkerStep, WorkerBegins, Flush, FinalizeShard, PutShard,
                AbortShard, RepeatCommand, RescheduleSlice, WorkerEnds,
                entities
  <1>6. CASE KickOffController
    <2>1. \A c \in controllers : c \in Controller /\ MorePolls(c)
      BY <1>1 DEF ControllersTyped
    <2> QED
      BY <1>1, <1>6, <2>1, ControllerAdded, MapReduceAssumption
      DEF KickOffController, entities
  <1>7. CASE KickOff
    <2>1. mapreduceState' \in MapreduceState
      BY <1>7, KickOffTypes
    <2> QED
      BY <1>1, <1>2, <1>7, <2>1 DEF KickOff, ControllersTyped
  <1>8. CASE StartMap
    <2>1. Running \in MapreduceState
      BY DEF Running, MapreduceState
    <2> QED
      BY <1>1, <1>2, <1>8, <2>1 DEF StartMap, ControllersTyped
  <1>9. CASE AbortJob \/ CleanUpJob \/ FinalizerStep
    BY <1>1, <1>2, <1>9
    DEF AbortJob, CleanUpJob, FinalizerStep, DeleteControl, DeleteShards,
        FinalizerEnds, ControllersTyped, queue, entities
  <1>10. CASE Stop
    <2>1. UNCHANGED <<entities, polls>>
      BY <1>10 DEF Stop
    <2>2. ASSUME NEW c \in controllers, ControllerStops(c)
          PROVE ControllersTyped'
      <3> DEFINE new == [c EXCEPT !.pc = "queued", !.state = NoEntity,
                                  !.control = FALSE]
      <3>1. new \in Controller /\ MorePolls(new)
        BY <1>1 DEF ControllersTyped, Controller, MorePolls
      <3>2. controllers' = Replace(controllers, c, new)
        BY <2>2 DEF ControllerStops
      <3>3. /\ mapreduceState' \in MapreduceState \cup {NoEntity}
            /\ control' \in BOOLEAN
        BY <1>1, <2>1 DEF ControllersTyped, entities
      <3> HIDE DEF new
      <3> QED
        BY <1>1, <2>1, <3>1, <3>2, <3>3, ControllerReplaced
    <2> QED
      BY <1>3, <1>10, <2>1, <2>2
      DEF Stop, KickOffStops, FinalizerStops, WorkerStops, entities
  <1>11. CASE \/ PutShards \/ KickOffSlice \/ KickOffEnds \/ Callback
              \/ UNCHANGED vars
    BY <1>3, <1>11
    DEF PutShards, KickOffSlice, KickOffEnds, Callback, vars, entities, queue
  <1> QED
    BY <1>1, <1>2, <1>4, <1>5, <1>6, <1>7, <1>8, <1>9, <1>10, <1>11
    DEF Next, KickOffStep, ControllersTyped

(* How often the pipeline is told.                                         *)

(* Counting, when one task goes, one comes, or one takes the place of      *)
(* another.                                                                *)
LEMMA CountReplaced ==
    ASSUME NEW S, IsFiniteSet(S), NEW c \in S, NEW x, NEW T,
           T \subseteq (S \ {c}) \cup {x}
    PROVE IsFiniteSet(T) /\ Cardinality(T) <= Cardinality(S)
  <1>1. /\ IsFiniteSet(S \ {c}) /\ Cardinality(S \ {c}) = Cardinality(S) - 1
        /\ Cardinality(S) \in Nat
    BY FS_RemoveElement, FS_CardinalityType
  <1>2. /\ IsFiniteSet((S \ {c}) \cup {x})
        /\ Cardinality((S \ {c}) \cup {x}) <= Cardinality(S)
    <2>1. /\ IsFiniteSet((S \ {c}) \cup {x})
          /\ Cardinality((S \ {c}) \cup {x}) =
                IF x \in S \ {c} THEN Cardinality(S \ {c})
                ELSE Cardinality(S \ {c}) + 1
      BY <1>1, FS_AddElement, Zenon
    <2> QED
      BY <1>1, <2>1
  <1>3. IsFiniteSet(T) /\ Cardinality(T) <= Cardinality((S \ {c}) \cup {x})
    BY <1>2, FS_Subset
  <1> QED
    BY <1>1, <1>2, <1>3, FS_CardinalityType

LEMMA CountAdded ==
    ASSUME NEW S, IsFiniteSet(S), NEW x, NEW T, T \subseteq S \cup {x}
    PROVE IsFiniteSet(T) /\ Cardinality(T) <= Cardinality(S) + 1
  <1>1. /\ IsFiniteSet(S \cup {x})
        /\ Cardinality(S \cup {x}) <= Cardinality(S) + 1
        /\ Cardinality(S) \in Nat
    BY FS_AddElement, FS_CardinalityType
  <1>2. IsFiniteSet(T) /\ Cardinality(T) <= Cardinality(S \cup {x})
    BY <1>1, FS_Subset
  <1> QED
    BY <1>1, <1>2, FS_CardinalityType

LEMMA CountRemoved ==
    ASSUME NEW S, IsFiniteSet(S), NEW c \in S, NEW T, T \subseteq S \ {c}
    PROVE IsFiniteSet(T) /\ Cardinality(T) + 1 <= Cardinality(S)
  <1>1. /\ IsFiniteSet(S \ {c}) /\ Cardinality(S \ {c}) = Cardinality(S) - 1
        /\ Cardinality(S) \in Nat
    BY FS_RemoveElement, FS_CardinalityType
  <1>2. IsFiniteSet(T) /\ Cardinality(T) <= Cardinality(S \ {c})
    BY <1>1, FS_Subset
  <1> QED
    BY <1>1, <1>2, FS_CardinalityType

LEMMA LiveFinite ==
    ASSUME TypeInv
    PROVE IsFiniteSet(Live) /\ Cardinality(Live) \in Nat
  BY FS_Subset, FS_CardinalityType DEF TypeInv, OneTeller, Live

LEMMA TellerControllerStep ==
    ASSUME TypeInv, NEW c \in controllers, ControllerStep(c)
    PROVE OneTeller'
  <1>1. /\ IsFiniteSet(Live) /\ Cardinality(Live) \in Nat
        /\ IsFiniteSet(controllers) /\ faults \in Nat /\ doneTasks \in Nat
        /\ polls \in Nat
    BY LiveFinite, MapReduceAssumption DEF TypeInv, OneTeller, TypeOK
  <1>2. polls > 0 /\ doneTasks + Cardinality(Live) <= faults + 1
    BY <1>1 DEF TypeInv, OneTeller
  <1>3. UNCHANGED faults
    BY DEF ControllerStep, ControllerBegins, ReadShards, AbortLost, PutState,
           RescheduleController, FinalizeFiles, ScheduleFinalizer,
           CommitState, ControllerEnds
  \* The task goes on, or ends without telling anybody.
  <1>4. ASSUME UNCHANGED <<doneTasks, polls>>,
               NEW x, controllers' \subseteq (controllers \ {c}) \cup {x},
               c.pc # "end" \/ x = c
        PROVE OneTeller'
    <2>1. IsFiniteSet(controllers')
      BY <1>1, <1>4, CountReplaced
    <2>2. Cardinality(Live') <= Cardinality(Live) /\ IsFiniteSet(Live')
      <3>1. CASE c \in Live
        <4>1. Live' \subseteq (Live \ {c}) \cup {x}
          BY <1>4 DEF Live
        <4> QED
          BY <1>1, <3>1, <4>1, CountReplaced
      <3>2. CASE c \notin Live
        BY <1>1, <1>4, <3>2, FS_Subset DEF Live
      <3> QED
        BY <3>1, <3>2
    <2>3. polls' > 0
      BY <1>1, <1>2, <1>4
    <2>4. Cardinality(Live') \in Nat
      BY <2>2, FS_CardinalityType
    <2> QED
      BY <1>1, <1>2, <1>3, <1>4, <2>1, <2>2, <2>3, <2>4 DEF OneTeller
  <1>5. CASE ControllerEnds(c)
    BY <1>1, <1>4, <1>5 DEF ControllerEnds
  <1>6. CASE CommitState(c)
    <2>1. /\ c \in Live /\ c.pc = "commit" /\ doneTasks' = doneTasks + 1
          /\ polls' = polls
          /\ controllers' = (controllers \ {c}) \cup {At(c, "end")}
      BY <1>6 DEF CommitState, Live, Replace
    <2>2. At(c, "end").pc = "end"
      BY DEF At, TypeInv, TypeOK, Controller
    <2>3. Live' \subseteq Live \ {c}
      BY <2>1, <2>2 DEF Live
    <2>4. IsFiniteSet(Live') /\ Cardinality(Live') + 1 <= Cardinality(Live)
      BY <1>1, <2>1, <2>3, CountRemoved
    <2>5. IsFiniteSet(controllers')
      BY <1>1, <2>1, CountReplaced
    <2>6. Cardinality(Live') \in Nat
      BY <2>4, FS_CardinalityType
    <2> QED
      BY <1>1, <1>2, <1>3, <2>1, <2>4, <2>5, <2>6 DEF OneTeller
  <1>7. CASE RescheduleController(c)
    <2> DEFINE new == [serial |-> c.serial + 1, control |-> FALSE,
                       state |-> NoEntity, pc |-> "queued"]
    <2>1. /\ c \in Live /\ UNCHANGED doneTasks
          /\ \/ /\ controllers' = Replace(controllers, c, At(c, "end"))
                                   \cup {new}
                /\ polls' = c.serial + 2
                /\ c.serial + 1 = polls
             \/ /\ controllers' = Replace(controllers, c, At(c, "end"))
                /\ polls' = polls
      BY <1>7, MapReduceAssumption
      DEF RescheduleController, ScheduleController, Live, TypeInv, TypeOK,
          Controller
    <2> HIDE DEF new
    <2>2. At(c, "end").pc = "end"
      BY DEF At, TypeInv, TypeOK, Controller
    <2>3. Live' \subseteq (Live \ {c}) \cup {new}
      BY <2>1, <2>2 DEF Live, Replace
    <2>4. IsFiniteSet(Live') /\ Cardinality(Live') <= Cardinality(Live)
      BY <1>1, <2>1, <2>3, CountReplaced
    <2>5. IsFiniteSet(controllers')
      <3>1. IsFiniteSet(Replace(controllers, c, At(c, "end")))
        BY <1>1, CountReplaced DEF Replace
      <3> QED
        BY <2>1, <3>1, FS_AddElement
    <2>6. polls' > 0
      BY <1>1, <1>2, <2>1 DEF TypeInv, TypeOK, Controller
    <2>7. Cardinality(Live') \in Nat
      BY <2>4, FS_CardinalityType
    <2> QED
      BY <1>1, <1>2, <1>3, <2>1, <2>4, <2>5, <2>6, <2>7 DEF OneTeller
  <1>8. ASSUME NEW x, controllers' = Replace(controllers, c, x),
               UNCHANGED <<doneTasks, polls>>, c.pc # "end"
        PROVE OneTeller'
    BY <1>1, <1>4, <1>8 DEF Replace
  <1>9. CASE ControllerBegins(c)
    <2>1. CASE controllers' = controllers \ {c}
      BY <1>1, <1>4, <1>9, <2>1 DEF ControllerBegins
    <2> QED
      BY <1>8, <1>9, <2>1 DEF ControllerBegins
  <1>10. CASE ReadShards(c)
    BY <1>8, <1>10 DEF ReadShards
  <1>11. CASE \/ AbortLost(c) \/ PutState(c) \/ FinalizeFiles(c)
              \/ ScheduleFinalizer(c)
    BY <1>8, <1>11 DEF AbortLost, PutState, FinalizeFiles, ScheduleFinalizer
  <1> QED
    BY <1>5, <1>6, <1>7, <1>9, <1>10, <1>11 DEF ControllerStep

LEMMA TellerStep ==
    ASSUME TypeInv, [Next]_vars
    PROVE OneTeller'
  <1>1. /\ IsFiniteSet(Live) /\ Cardinality(Live) \in Nat
        /\ IsFiniteSet(controllers) /\ faults \in Nat /\ doneTasks \in Nat
        /\ polls \in Nat /\ OneTeller
    BY LiveFinite, MapReduceAssumption DEF TypeInv, OneTeller, TypeOK
  <1>2. ASSUME UNCHANGED <<controllers, polls>>,
               faults' \in {faults, faults + 1},
               doneTasks' \in Nat, doneTasks' <= doneTasks
        PROVE OneTeller'
    BY <1>1, <1>2 DEF OneTeller, Live
  <1>3. ASSUME NEW c \in controllers, ControllerStep(c)
        PROVE OneTeller'
    BY <1>3, TellerControllerStep
  <1>4. ASSUME NEW w \in workers, WorkerStep(w)
        PROVE UNCHANGED <<controllers, polls, faults, doneTasks>>
    BY <1>4 DEF WorkerStep, WorkerBegins, Flush, FinalizeShard, PutShard,
                AbortShard, RepeatCommand, RescheduleSlice, WorkerEnds
  <1>5. CASE KickOffController
    <2> DEFINE new == [serial |-> 0, control |-> FALSE, state |-> NoEntity,
                       pc |-> "queued"]
    <2>1. /\ UNCHANGED <<doneTasks, faults>>
          /\ \/ UNCHANGED <<controllers, polls>>
             \/ controllers' = controllers \cup {new} /\ polls = 0 /\ polls' = 1
      BY <1>5 DEF KickOffController, ScheduleController
    <2> HIDE DEF new
    <2>2. CASE UNCHANGED <<controllers, polls>>
      BY <1>1, <1>2, <2>1, <2>2
    <2>3. CASE controllers' = controllers \cup {new} /\ polls = 0 /\ polls' = 1
      <3>1. controllers = {} /\ doneTasks = 0
        BY <1>1, <2>3 DEF OneTeller
      <3>2. controllers' = {new}
        BY <2>3, <3>1
      <3>3. Live' \subseteq {new}
        BY <3>2 DEF Live
      <3>4. Cardinality({new}) = 1 /\ IsFiniteSet({new})
        BY FS_Singleton
      <3>5. /\ IsFiniteSet(Live') /\ Cardinality(Live') <= 1
            /\ Cardinality(Live') \in Nat
        BY <3>3, <3>4, FS_Subset, FS_CardinalityType
      <3> QED
        BY <1>1, <2>1, <2>3, <3>1, <3>2, <3>4, <3>5 DEF OneTeller
    <2> QED
      BY <2>1, <2>2, <2>3
  <1>6. CASE Callback
    BY <1>1, <1>2, <1>6 DEF Callback, queue
  <1>7. CASE Stop
    <2>1. faults' = faults + 1 /\ UNCHANGED <<polls, doneTasks>>
      BY <1>7 DEF Stop, Fault
    <2>2. ASSUME NEW c \in controllers, ControllerStops(c)
          PROVE OneTeller'
      <3> DEFINE new == [c EXCEPT !.pc = "queued", !.state = NoEntity,
                                  !.control = FALSE]
      <3>1. controllers' = (controllers \ {c}) \cup {new}
        BY <2>2 DEF ControllerStops, Replace
      <3> HIDE DEF new
      <3>2. Live' \subseteq Live \cup {new}
        BY <3>1 DEF Live
      <3>3. /\ IsFiniteSet(Live') /\ Cardinality(Live') <= Cardinality(Live) + 1
            /\ Cardinality(Live') \in Nat
        BY <1>1, <3>2, CountAdded, FS_CardinalityType
      <3>4. IsFiniteSet(controllers')
        BY <1>1, <3>1, CountReplaced
      <3>5. polls' > 0
        BY <1>1, <2>1 DEF OneTeller
      <3> QED
        BY <1>1, <2>1, <3>3, <3>4, <3>5 DEF OneTeller
    <2>3. CASE UNCHANGED controllers
      BY <1>1, <1>2, <2>1, <2>3
    <2> QED
      BY <1>7, <2>2, <2>3
      DEF Stop, KickOffStops, FinalizerStops, WorkerStops
  <1>8. CASE AbortJob \/ CleanUpJob
    BY <1>1, <1>2, <1>8 DEF AbortJob, CleanUpJob, Fault, queue
  <1>9. CASE \/ StartMap \/ KickOff \/ PutShards \/ KickOffSlice
             \/ KickOffEnds \/ FinalizerStep \/ UNCHANGED vars
    BY <1>1, <1>2, <1>9
    DEF StartMap, KickOff, PutShards, KickOffSlice, KickOffEnds,
        FinalizerStep, DeleteControl, DeleteShards, FinalizerEnds, vars, queue
  <1> QED
    BY <1>1, <1>2, <1>3, <1>4, <1>5, <1>6, <1>7, <1>8, <1>9
    DEF Next, KickOffStep

(* The shards, the files, the finalizer and the output.                    *)
RestTypes ==
    /\ sharding \in {"none", "input"}
    /\ shardState \in [Shards -> ShardState \cup {NoEntity}]
    /\ files \in [Files -> [content : SUBSET Everything, finalized : BOOLEAN]]
    /\ finalizer \in {"absent", "queued", "shards", "end", "over"}
    /\ doneTasks \in Nat
    /\ output \in (SUBSET Files) \cup {NoEntity}

LEMMA RestStaysTyped ==
    ASSUME TypeInv, [Next]_vars
    PROVE RestTypes'
  <1>1. RestTypes /\ workers \subseteq Worker
    BY DEF TypeInv, TypeOK, RestTypes, Everything
  <1>2. ASSUME UNCHANGED sharding,
               shardState' \in [Shards -> ShardState \cup {NoEntity}],
               files' \in [Files -> [content : SUBSET Everything,
                                     finalized : BOOLEAN]],
               finalizer' \in {"absent", "queued", "shards", "end", "over"},
               doneTasks' \in Nat,
               output' \in (SUBSET Files) \cup {NoEntity}
        PROVE RestTypes'
    BY <1>1, <1>2 DEF RestTypes, ShardState, Results, Files, Everything,
                      EntitiesOf, Shards
  <1>3. CASE UNCHANGED <<sharding, shardState, files, finalizer, doneTasks,
                         output>>
    BY <1>1, <1>2, <1>3 DEF RestTypes
  <1>4. \A b \in BOOLEAN, r \in Results \cup {"none"} :
            [active |-> b, result_status |-> r] \in ShardState
    BY DEF ShardState
  <1>5. ASSUME NEW w \in workers, WorkerStep(w)
        PROVE RestTypes'
    <2>1. w \in Worker
      BY <1>1
    <2>2. CASE Flush(w)
      <3>1. Slice(w.shard, w.from, w.to) \subseteq Everything
        BY <2>1, SliceOfShard DEF Worker
      <3>2. files' \in [Files -> [content : SUBSET Everything,
                                  finalized : BOOLEAN]]
        BY <1>1, <2>2, <3>1 DEF Flush, RestTypes
      <3> QED
        BY <1>1, <1>2, <2>2, <3>2 DEF Flush, RestTypes, entities
    <2>3. CASE FinalizeShard(w)
      <3>1. files' \in [Files -> [content : SUBSET Everything,
                                  finalized : BOOLEAN]]
        BY <1>1, <2>3 DEF FinalizeShard, RestTypes
      <3> QED
        BY <1>1, <1>2, <2>3, <3>1 DEF FinalizeShard, RestTypes, entities
    <2>4. CASE AbortShard(w) \/ PutShard(w)
      <3>1. shardState' \in [Shards -> ShardState \cup {NoEntity}]
        <4> DEFINE aborted == [active |-> FALSE, result_status |-> "aborted"]
                   put == [active |-> ~w.done,
                           result_status |-> IF w.done THEN "success"
                                             ELSE "none"]
        <4>1. aborted \in ShardState /\ put \in ShardState
          BY <2>1 DEF ShardState, Results, Worker
        <4>2. \/ UNCHANGED shardState
              \/ shardState' = [shardState EXCEPT ![w.shard] = aborted]
              \/ shardState' = [shardState EXCEPT ![w.shard] = put]
          BY <2>4 DEF AbortShard, PutShard
        <4> HIDE DEF aborted, put
        <4> QED
          BY <1>1, <4>1, <4>2 DEF RestTypes
      <3> QED
        BY <1>1, <1>2, <2>4, <3>1 DEF AbortShard, PutShard, RestTypes
    <2> QED
      BY <1>3, <1>5, <2>2, <2>3, <2>4
      DEF WorkerStep, WorkerBegins, RepeatCommand, RescheduleSlice,
          WorkerEnds, entities
  <1>6. ASSUME NEW c \in controllers, ControllerStep(c)
        PROVE RestTypes'
    <2>1. CASE FinalizeFiles(c)
      <3>1. files' \in [Files -> [content : SUBSET Everything,
                                  finalized : BOOLEAN]]
        <4>1. \A f \in Files : \A b \in BOOLEAN :
                  [files[f] EXCEPT !.finalized = b]
                      \in [content : SUBSET Everything, finalized : BOOLEAN]
          BY <1>1 DEF RestTypes
        <4> DEFINE final(f) ==
                      \/ files[f].finalized
                      \/ /\ sharding # "input" /\ c.state.request_filenames
                         /\ f \in c.state.filenames
        <4>2. \A f \in Files : final(f) \in BOOLEAN
          BY Zenon
        <4>3. files' = [f \in Files |->
                           [files[f] EXCEPT !.finalized = final(f)]]
          BY <2>1 DEF FinalizeFiles
        <4> HIDE DEF final
        <4>4. \A f \in Files : [files[f] EXCEPT !.finalized = final(f)]
                  \in [content : SUBSET Everything, finalized : BOOLEAN]
          BY <4>1, <4>2, Zenon
        <4> QED
          BY <4>3, <4>4
      <3> QED
        BY <1>1, <1>2, <2>1, <3>1 DEF FinalizeFiles, RestTypes, entities
    <2>2. CASE ScheduleFinalizer(c) \/ CommitState(c)
      BY <1>1, <1>2, <2>2
      DEF ScheduleFinalizer, CommitState, RestTypes, entities
    <2> QED
      BY <1>3, <1>6, <2>1, <2>2
      DEF ControllerStep, ControllerBegins, ReadShards, AbortLost, PutState,
          RescheduleController, ControllerEnds, entities
  <1>7. CASE PutShards
    <2>1. shardState' \in [Shards -> ShardState \cup {NoEntity}]
      BY <1>1, <1>4, <1>7 DEF PutShards, RestTypes
    <2> QED
      BY <1>1, <1>2, <1>7, <2>1 DEF PutShards, RestTypes
  <1>8. CASE Callback
    <2>1. output' \in SUBSET Files /\ doneTasks' \in Nat
      BY <1>1, <1>8 DEF Callback, RestTypes, TypeInv, TypeOK, MapreduceState
    <2> QED
      BY <1>1, <1>2, <1>8, <2>1 DEF Callback, RestTypes, entities, queue
  <1>9. CASE FinalizerStep
    BY <1>1, <1>2, <1>9
    DEF FinalizerStep, DeleteControl, DeleteShards, FinalizerEnds, RestTypes,
        entities
  <1>10. CASE Stop
    BY <1>1, <1>2, <1>10
    DEF Stop, KickOffStops, FinalizerStops, WorkerStops, ControllerStops,
        RestTypes, entities
  <1>11. CASE \/ StartMap \/ KickOff \/ KickOffSlice \/ KickOffController
              \/ KickOffEnds \/ AbortJob \/ CleanUpJob \/ UNCHANGED vars
    BY <1>3, <1>11
    DEF StartMap, KickOff, KickOffSlice, KickOffController, KickOffEnds,
        AbortJob, CleanUpJob, vars, entities, queue
  <1> QED
    BY <1>5, <1>6, <1>7, <1>8, <1>9, <1>10, <1>11 DEF Next, KickOffStep

LEMMA TypeInvStep ==
    ASSUME TypeInv, [Next]_vars
    PROVE TypeInv'
  <1>1. /\ KickOffOK' /\ WorkersTyped' /\ ControllersTyped' /\ OneTeller'
        /\ RestTypes'
        /\ kickoff' \in [pc : {"absent", "queued", "shards", "slices",
                               "controller", "end", "over"},
                         run : 0..(MaxFaults + 1), next : 0..ShardCount]
    BY KickOffTyped, WorkersStayTyped, ControllersStayTyped, TellerStep,
       RestStaysTyped
  <1>2. faults' \in 0..MaxFaults
    BY <1>1 DEF KickOffOK
  <1>3. doneTasks' \in 0..(MaxFaults + 1)
    <2>1. polls' \in Nat /\ doneTasks' \in Nat /\ faults' \in 0..MaxFaults
      BY <1>1, <1>2, MapReduceAssumption DEF ControllersTyped, RestTypes
    <2>2. IsFiniteSet(Live')
      BY <1>1, FS_Subset DEF OneTeller, Live
    <2>3. Cardinality(Live') \in Nat
      BY <2>2, FS_CardinalityType
    <2> QED
      BY <1>1, <2>1, <2>3, MapReduceAssumption DEF OneTeller
  <1>4. TypeOK'
    BY <1>1, <1>2, <1>3
    DEF TypeOK, WorkersTyped, ControllersTyped, RestTypes, Everything
  <1> QED
    BY <1>1, <1>4 DEF TypeInv, WorkersTyped, ControllersTyped

(* Every variable keeps its type and its bound: no slice and no look of a  *)
(* controller beyond the bounds is ever added, and the pipeline is called  *)
(* at most once more than runs stop halfway (handlers.py:516-538).  That   *)
(* needs to know where a task is when it adds the next one, and how many   *)
(* controllers may still commit.                                           *)
THEOREM TypeCorrect == Spec => []TypeOK
  <1>1. TypeInv => TypeOK
    BY DEF TypeInv
  <1> QED
    BY <1>1, TypeInvInit, TypeInvStep, PTL DEF Spec
==============================================================================
