----------------------------- MODULE Experiment -----------------------------
(***************************************************************************)
(* One run of run-experiment (jobs/run_experiment.py and                   *)
(* services/experiment_service.py): setup, traffic through the event       *)
(* simulator and the Kafka producer, the processors it starts as child     *)
(* processes, the snapshots, the success gates, and the records of the     *)
(* result.  The broker, the child processes and the runner interleave.     *)
(*                                                                         *)
(* The realtime job counts and publishes as CtrStore does.  Flink restores *)
(* it from a checkpoint inside the living process: offsets and keyed state *)
(* go back, Redis does not.  When the process exits, what it has not       *)
(* published is gone.  A snapshot is a scan, bucket after bucket.          *)
(***************************************************************************)
EXTENDS Naturals, Sequences, FiniteSets, SequencesExt

CONSTANTS
    Definitions,  \* experiment definitions that may be run
    DryRunValues, \* values of --dry-run
    Keys,         \* buckets
    None,         \* Python's None: no key, no snapshot, no result
    Seeded,       \* the buckets seed-values writes, None where it writes none
    Found,        \* what may be in Redis and in the topics at first
    MaxModels,    \* bound: rows of ctr_model_snapshots
    Disturbed,    \* bound: definitions and stages for the next two
    MaxRestores,  \* bound: restores of the realtime job
    MaxRepeats    \* bound: buckets one scan reads again

Processors == {"realtime_ctr", "streaming_weight_update"}
StartOrder == <<"realtime_ctr", "streaming_weight_update">>
Kinds == {"impression", "click"}
CountOfKind == [impression |-> "impressions", click |-> "clicks"]
Records == [key : Keys, kind : Kinds]
BatchCount(batch, kind) == Cardinality({i \in DOMAIN batch : batch[i].kind = kind})

Bucket == {b \in [impressions : Nat, clicks : Nat] : b.clicks <= b.impressions}
Buckets == [Keys -> Bucket \cup {None}]
Total(bucket, kind) == bucket[CountOfKind[kind]]
Counts == [Records -> Nat]
NoRecords == [record \in Records |-> 0]
OfKind(counts, kind) ==
    SumFunction([k \in Keys |-> counts[[key |-> k, kind |-> kind]]])

(* What a checkpoint of the realtime job holds: keyed state and offsets.   *)
Checkpoint == [counted : [Keys -> Bucket], loaded : SUBSET Keys,
               dirty : SUBSET Keys, consumed : Counts]

(* A scan under way: the buckets it is bound to return, those there when   *)
(* it began; each one as first read; and what reading some again adds.     *)
Scans == [due : SUBSET Keys, first : Buckets, again : [Kinds -> Nat],
          repeats : 0 .. MaxRepeats]

(* ExperimentDefinition: the flags of setup and success_gates, the number  *)
(* of traffic phases and a batch that stands for the events of each.       *)
Definition == [phases : Nat \ {0}, batch : Seq(Records),
               cleanTopics : BOOLEAN, resetValues : BOOLEAN, seedValues : BOOLEAN,
               preload : BOOLEAN, traffic : BOOLEAN, enabled : SUBSET Processors,
               offsets : {"earliest", "latest"}, matchImpressions : BOOLEAN,
               matchClicks : BOOLEAN, requireModel : BOOLEAN]

(* result.json: whether the gates passed, and the id of the row, if any.   *)
Artifact == [passed : BOOLEAN, row : Nat \cup {None}]

ASSUME ConfigAssumption ==
    /\ Definitions \subseteq Definition
    /\ DryRunValues \subseteq BOOLEAN
    /\ IsFiniteSet(Keys)
    /\ Seeded \in Buckets
    /\ Found \subseteq [redis : Buckets, topic : Counts]
    /\ MaxModels \in Nat /\ MaxRestores \in Nat /\ MaxRepeats \in Nat
    /\ None \notin Bucket \cup BOOLEAN \cup Artifact \cup Checkpoint \cup Scans
    /\ None \notin {"complete", "gates_failed", "error"}

(* Nobody resets the stores under a realtime job that is running.          *)
ASSUME SetupAssumption ==
    \A d \in Definitions :
        d.cleanTopics \/ d.resetValues \/ d.seedValues => "realtime_ctr" \in d.enabled

VARIABLES
    definition,  \* the experiment
    dryRun,      \* --dry-run
    pc,          \* what the runner does next
    phases,      \* phases whose result is in phase_results
    index,       \* events of the current phase given to the producer
    managed,     \* _processors, those not stopped yet
    before,      \* before_snapshot
    final,       \* final_snapshot
    passed,      \* success_gates.passed
    artifact,    \* result.json: passed and the row's id
    rows,        \* its rows of ctr_experiment_results
    raised,      \* an exception other than ExperimentFailure is under way
    outcome,     \* how the command ended
    process,     \* the processors' processes
    buffered,    \* records in the producer's buffer
    topic,       \* records in the topics
    consumed,    \* the realtime job's position in them
    counted,     \* its counters
    loaded,      \* the buckets in its keyed state
    dirty,       \* those it has yet to publish
    checkpoint,  \* its last completed checkpoint
    restores,    \* how often Flink has restored it
    published,   \* the buckets in Redis
    scan,        \* the scan of Redis under way
    models,      \* rows of ctr_model_snapshots
    recounted,   \* history: records rewound in buckets no checkpoint held
    started,     \* history: processors this run has started
    exitedEarly, \* history: those that exited before the last health check
    stopAborted  \* history: stop_processors raised

Phases == definition.phases
Batch == definition.batch

options == <<definition, dryRun>>
position == <<phases, index>>
snapshots == <<before, final, passed>>
result == <<snapshots, artifact, rows, raised, outcome>>
stopping == <<managed, started, stopAborted>>
runner == <<options, pc, position, scan, result, stopping>>
kafka == <<buffered, topic>>
keyedState == <<loaded, dirty, checkpoint>>
restarts == <<restores, recounted>>
job == <<consumed, counted, published, keyedState, restarts>>
environment == <<process, kafka, job, models, exitedEarly>>
vars == <<runner, environment>>

Job == INSTANCE CtrStore WITH Seed <- [k \in Keys |-> None]

(* The same values in the store and, for want of keyed state, in the job.  *)
SetBuckets(values) ==
    /\ published' = values
    /\ counted' = [k \in Keys |-> IF values[k] = None THEN Job!Empty ELSE values[k]]

-----------------------------------------------------------------------------
Setup == {"clean", "reset", "seed", "before"}
Measuring == {"start", "started", "warm", "phase", "publish", "flush", "settle"}
Stopping == {"stop", "wait", "killed"}
Recording == {"artifact", "insert", "rewrite"}
Stages == Setup \cup Measuring \cup {"final", "failed"} \cup Stopping
            \cup Recording \cup {"ended"}

ScanTotal(kind) ==
    SumFunction([k \in Keys |-> IF scan.first[k] = None THEN 0
                                ELSE Total(scan.first[k], kind)])
    + scan.again[kind]

(* The totals, and as history how much of them may stand for records that  *)
(* are in them already: a bucket read again, or counted again.             *)
Snapshot ==
    [impressions |-> ScanTotal("impression"), clicks |-> ScanTotal("click"),
     models |-> models,
     twice |-> [kind \in Kinds |-> OfKind(recounted, kind) + scan.again[kind]]]
Snapshots == [impressions : Nat, clicks : Nat, models : Nat, twice : [Kinds -> Nat]]

TypeOK ==
    /\ definition \in Definitions
    /\ dryRun \in DryRunValues
    /\ pc \in Stages
    /\ phases \in 0 .. Phases
    /\ index \in 0 .. Len(Batch)
    /\ managed \in Seq(started) /\ IsInjective(managed)
    /\ before \in Snapshots \cup {None}
    /\ final \in Snapshots \cup {None}
    /\ passed \in BOOLEAN \cup {None}
    /\ artifact \in Artifact \cup {None}
    /\ rows \in Seq(BOOLEAN)
    /\ raised \in BOOLEAN
    /\ outcome \in {None, "complete", "gates_failed", "error"}
    /\ process \in [Processors -> {"none", "starting", "running", "exited"}]
    /\ buffered \in Counts
    /\ topic \in Counts
    /\ consumed \in Counts /\ \A record \in Records : consumed[record] <= topic[record]
    /\ counted \in [Keys -> Bucket] /\ published \in Buckets
    /\ loaded \subseteq Keys /\ dirty \subseteq Keys
    /\ checkpoint \in Checkpoint \cup {None}
    /\ restores \in 0 .. MaxRestores /\ recounted \in Counts
    /\ scan \in Scans \cup {None}
    /\ models \in Nat
    /\ started \subseteq Processors /\ exitedEarly \subseteq started
    /\ stopAborted \in BOOLEAN

(* Processors the experiment does not start may run already.               *)
Init ==
    /\ definition \in Definitions
    /\ dryRun \in DryRunValues
    /\ pc = IF dryRun THEN "before" ELSE "clean"
    /\ phases = 0 /\ index = 0
    /\ managed = <<>>
    /\ before = None /\ final = None /\ passed = None
    /\ artifact = None /\ rows = <<>>
    /\ raised = FALSE /\ outcome = None
    /\ process = [p \in Processors |->
          IF p \in definition.enabled THEN "none" ELSE "running"]
    /\ buffered = NoRecords
    /\ \E found \in Found :
          /\ topic = found.topic
          /\ published = found.redis
    /\ consumed = topic
    /\ counted = [k \in Keys |-> Job!Seen(k)]
    /\ loaded = {} /\ dirty = {} /\ checkpoint = None
    /\ restores = 0 /\ recounted = NoRecords
    /\ scan = None
    /\ models = 1
    /\ started = {} /\ exitedEarly = {} /\ stopAborted = FALSE

-----------------------------------------------------------------------------
(* Setup and snapshots                                                     *)

(* clean_topics, when asked for: the topics are empty.                     *)
CleanTopics ==
    /\ pc = "clean"
    /\ pc' = "reset"
    /\ IF definition.cleanTopics
       THEN topic' = NoRecords /\ consumed' = NoRecords
       ELSE UNCHANGED <<topic, consumed>>
    /\ UNCHANGED <<options, position, scan, stopping, result, process, buffered,
                   counted, published, keyedState, restarts, models, exitedEarly>>

(* reset_values, when asked for: no bucket and no model is left.           *)
ResetValues ==
    /\ pc = "reset"
    /\ pc' = "seed"
    /\ IF definition.resetValues
       THEN SetBuckets([k \in Keys |-> None]) /\ models' = 0
       ELSE UNCHANGED <<published, counted, models>>
    /\ UNCHANGED <<options, position, scan, stopping, result, process, kafka,
                   consumed, keyedState, restarts, exitedEarly>>

(* seed_values, when asked for: it writes the buckets of the dataset.      *)
SeedValues ==
    /\ pc = "seed"
    /\ pc' = "before"
    /\ IF definition.seedValues
       THEN /\ SetBuckets([k \in Keys |->
                 IF Seeded[k] = None THEN published[k] ELSE Seeded[k]])
            /\ models' = models + 1
       ELSE UNCHANGED <<published, counted, models>>
    /\ UNCHANGED <<options, position, scan, stopping, result, process, kafka,
                   consumed, keyedState, restarts, exitedEarly>>

(* _collect_runtime_snapshot begins with scan_iter.                        *)
BeginScan ==
    /\ pc \in {"before", "final", "failed"}
    /\ scan = None
    /\ scan' = [due |-> {k \in Keys : published[k] # None},
                first |-> [k \in Keys |-> None],
                again |-> [kind \in Kinds |-> 0], repeats |-> 0]
    /\ UNCHANGED <<options, pc, position, stopping, result, environment>>

(* SCAN returns a key, perhaps not for the first time, and GET its bucket  *)
(* of that moment.  A key that is new since SCAN began may be returned.    *)
ReadBucket(k) ==
    /\ scan # None
    /\ published[k] # None
    /\ IF scan.first[k] = None
       THEN scan' = [scan EXCEPT !.first[k] = published[k]]
       ELSE /\ <<definition, pc>> \in Disturbed
            /\ scan.repeats < MaxRepeats
            /\ scan' = [scan EXCEPT !.repeats = @ + 1,
                  !.again = [kind \in Kinds |-> @[kind] + Total(published[k], kind)]]
    /\ UNCHANGED <<options, pc, position, stopping, result, environment>>

(* The scan has returned what it is bound to; model rows are counted last. *)
EndScan ==
    /\ scan # None
    /\ \A k \in scan.due : scan.first[k] # None
    /\ scan' = None

BeforeSnapshot ==
    /\ pc = "before"
    /\ EndScan
    /\ before' = Snapshot
    /\ pc' = IF definition.preload THEN "phase" ELSE "start"
    /\ UNCHANGED <<options, position, stopping, final, passed, artifact, rows,
                   raised, outcome, environment>>

-----------------------------------------------------------------------------
(* Processors                                                              *)

(* Mutant: what was started is started again.                              *)
ToStartAgain == definition.enabled

(* start_processors: the enabled ones, one after another.                  *)
ToStart == definition.enabled \ started

StartProcessor ==
    /\ pc = "start" /\ ~dryRun
    /\ \E i \in DOMAIN StartOrder :
          /\ StartOrder[i] \in ToStart
          /\ \A j \in 1 .. (i - 1) : StartOrder[j] \notin ToStart
          /\ process' = [process EXCEPT ![StartOrder[i]] = "starting"]
          /\ managed' = Append(managed, StartOrder[i])
          /\ started' = started \cup {StartOrder[i]}
    /\ UNCHANGED <<options, pc, position, scan, result, stopAborted, kafka, job,
                   models, exitedEarly>>

AllStarted ==
    /\ pc = "start"
    /\ dryRun \/ ToStart = {}
    /\ pc' = "started"
    /\ UNCHANGED <<options, position, scan, stopping, result, environment>>

(* assert_healthy raises ExperimentFailure; a dry run does not call it.    *)
Healthy == \A i \in DOMAIN managed : process[managed[i]] # "exited"

ContinueIfHealthy(next) == pc' = IF dryRun \/ Healthy THEN next ELSE "failed"

(* The check after starting, and the one after the startup wait.           *)
CheckStarted ==
    /\ \/ pc = "started" /\ ContinueIfHealthy("warm")
       \/ pc = "warm" /\ ContinueIfHealthy(IF definition.preload THEN "settle" ELSE "phase")
    /\ UNCHANGED <<options, position, scan, stopping, result, environment>>

(* What is left of the job when it exits: Redis.  close() flushes nothing. *)
LoseKeyedState ==
    /\ counted' = [k \in Keys |-> Job!Seen(k)]
    /\ loaded' = {} /\ dirty' = {} /\ checkpoint' = None
    /\ UNCHANGED <<consumed, published, restarts>>

(* A processor exits: it fails, or the signal it was sent ends it.         *)
ProcessorExits(p) ==
    /\ process[p] \in {"starting", "running"}
    /\ process' = [process EXCEPT ![p] = "exited"]
    /\ IF p = "realtime_ctr" THEN LoseKeyedState ELSE UNCHANGED job
    /\ exitedEarly' = IF p \in started /\ pc \in Measuring
                      THEN exitedEarly \cup {p} ELSE exitedEarly
    /\ UNCHANGED <<runner, kafka, models>>

(* The first record there is, or behind the last.                          *)
StartingOffsets == IF definition.offsets = "earliest" THEN NoRecords ELSE topic

(* A processor is up, whatever the runner waited.                          *)
ProcessorRuns(p) ==
    /\ process[p] = "starting"
    /\ process' = [process EXCEPT ![p] = "running"]
    /\ consumed' = IF p = "realtime_ctr" THEN StartingOffsets ELSE consumed
    /\ UNCHANGED <<runner, kafka, counted, published, keyedState, restarts, models,
                   exitedEarly>>

Counted(record) == Total(counted[record.key], record.kind)

(* The realtime job handles a record: it counts it in keyed state, loaded  *)
(* from Redis when there is none, and publishes the bucket or marks it     *)
(* dirty; or the record is a dead letter.                                  *)
Consume(record) ==
    /\ process["realtime_ctr"] = "running"
    /\ consumed[record] < topic[record]
    /\ consumed' = [consumed EXCEPT ![record] = @ + 1]
    /\ \/ /\ \/ Job!CountOnly(record.key) /\ dirty' = dirty \cup {record.key}
             \/ Job!CountAndPublish(record.key) /\ dirty' = dirty \ {record.key}
          /\ Counted(record)' = Counted(record) + 1
          /\ loaded' = loaded \cup {record.key}
       \/ /\ record.kind = "click"
          /\ counted[record.key].clicks = counted[record.key].impressions
          /\ UNCHANGED <<counted, published, loaded, dirty>>
    /\ UNCHANGED <<runner, process, kafka, checkpoint, restarts, models, exitedEarly>>

(* A bucket's flush timer fires.                                           *)
PublishBucket(k) ==
    /\ process["realtime_ctr"] = "running"
    /\ k \in dirty
    /\ dirty' = dirty \ {k}
    /\ published' = [published EXCEPT ![k] = counted[k]]
    /\ UNCHANGED <<runner, process, kafka, consumed, counted, loaded, checkpoint,
                   restarts, models, exitedEarly>>

(* Flink completes a checkpoint of the job, as long as there may be a      *)
(* restore from it.                                                        *)
CompleteCheckpoint ==
    /\ process["realtime_ctr"] = "running"
    /\ <<definition, pc>> \in Disturbed
    /\ restores < MaxRestores
    /\ checkpoint' = [counted |-> counted, loaded |-> loaded, dirty |-> dirty,
                      consumed |-> consumed]
    /\ UNCHANGED <<runner, process, kafka, consumed, counted, published, loaded, dirty,
                   restarts, models, exitedEarly>>

(* Without a completed checkpoint the job starts over.                     *)
LastCheckpoint ==
    IF checkpoint # None THEN checkpoint
    ELSE [counted |-> counted, loaded |-> {}, dirty |-> {}, consumed |-> StartingOffsets]

(* Flink restores the job in its process.  A bucket the checkpoint does    *)
(* not hold is loaded from Redis, as late as it may have been published,   *)
(* and the records that are rewound are counted on top of it.              *)
RestoreJob ==
    /\ process["realtime_ctr"] = "running"
    /\ <<definition, pc>> \in Disturbed
    /\ restores < MaxRestores
    /\ restores' = restores + 1
    /\ loaded' = LastCheckpoint.loaded
    /\ dirty' = LastCheckpoint.dirty
    /\ consumed' = LastCheckpoint.consumed
    /\ counted' = [k \in Keys |-> IF k \in loaded' THEN LastCheckpoint.counted[k]
                                  ELSE Job!Seen(k)]
    /\ recounted' = [record \in Records |->
          IF record.key \notin loaded' /\ consumed'[record] < consumed[record]
          THEN recounted[record] + (consumed[record] - consumed'[record])
          ELSE recounted[record]]
    /\ UNCHANGED <<runner, process, kafka, published, checkpoint, models, exitedEarly>>

(* The streaming weight update inserts a model.                            *)
InsertModel ==
    /\ process["streaming_weight_update"] = "running"
    /\ models < MaxModels
    /\ models' = models + 1
    /\ UNCHANGED <<runner, process, kafka, job, exitedEarly>>

-----------------------------------------------------------------------------
(* Traffic                                                                 *)

(* A phase begins with a health check.  In a dry run, and when traffic is  *)
(* disabled, its batch is built and reported but not published.            *)
BeginPhase ==
    /\ pc = "phase"
    /\ ContinueIfHealthy(IF dryRun \/ ~definition.traffic THEN "flush" ELSE "publish")
    /\ index' = 0
    /\ UNCHANGED <<options, phases, scan, stopping, result, environment>>

(* publish hands an event to the producer, which sends it on its own.      *)
Publish ==
    /\ pc = "publish"
    /\ index < Len(Batch)
    /\ index' = index + 1
    /\ buffered' = [buffered EXCEPT ![Batch[index + 1]] = @ + 1]
    /\ pc' = IF index' = Len(Batch) THEN "flush" ELSE "publish"
    /\ UNCHANGED <<options, phases, scan, stopping, result, process, topic, job,
                   models, exitedEarly>>

(* flush returns when no record is pending; the phase is reported, settles *)
(* and takes a snapshot.  Records that failed are reported all the same.   *)
FinishPhase ==
    /\ pc = "flush"
    /\ buffered = NoRecords
    /\ phases' = phases + 1
    /\ pc' = IF phases' < Phases THEN "phase"
             ELSE IF definition.preload THEN "start" ELSE "settle"
    /\ UNCHANGED <<options, index, scan, stopping, result, environment>>

(* The broker accepts a record, or the send fails for good: it is not      *)
(* retried, so no record is there twice.                                   *)
Deliver(record) ==
    /\ buffered[record] > 0
    /\ buffered' = [buffered EXCEPT ![record] = @ - 1]
    /\ topic' = [topic EXCEPT ![record] = @ + 1]
    /\ UNCHANGED <<runner, process, job, models, exitedEarly>>

LoseRecord(record) ==
    /\ buffered[record] > 0
    /\ buffered' = [buffered EXCEPT ![record] = @ - 1]
    /\ UNCHANGED <<runner, process, topic, job, models, exitedEarly>>

-----------------------------------------------------------------------------
(* Measurement and gates                                                   *)

(* Mutant: no health check after the last settle.                          *)
SettleUnchecked ==
    /\ pc = "settle"
    /\ pc' = "final"
    /\ UNCHANGED <<options, position, scan, stopping, result, environment>>

(* The final settle, and the last health check.                            *)
Settle ==
    /\ pc = "settle"
    /\ ContinueIfHealthy("final")
    /\ UNCHANGED <<options, position, scan, stopping, result, environment>>

Reported(kind) == phases * BatchCount(Batch, kind)

(* Mutant: the click gate is left out.                                     *)
GatesWithoutClicks(after) ==
    /\ definition.matchImpressions =>
          after.impressions = before.impressions + Reported("impression")
    /\ definition.requireModel => after.models > before.models

(* _evaluate_success_gates.  A bucket is never invalid here, and no        *)
(* processor is ever marked as an early exit in the metrics of its start.  *)
Gates(after) ==
    /\ definition.matchImpressions =>
          after.impressions = before.impressions + Reported("impression")
    /\ definition.matchClicks =>
          after.clicks = before.clicks + Reported("click")
    /\ definition.requireModel => after.models > before.models

AfterMeasuring == IF dryRun THEN "artifact" ELSE "stop"

FinalSnapshot ==
    /\ pc = "final"
    /\ EndScan
    /\ final' = Snapshot
    /\ passed' = Gates(final')
    /\ pc' = AfterMeasuring
    /\ UNCHANGED <<options, position, stopping, before, artifact, rows, raised,
                   outcome, environment>>

(* except ExperimentFailure: a snapshot, and the gates have failed.        *)
FailureSnapshot ==
    /\ pc = "failed"
    /\ EndScan
    /\ final' = Snapshot
    /\ passed' = FALSE
    /\ pc' = AfterMeasuring
    /\ UNCHANGED <<options, position, stopping, before, artifact, rows, raised,
                   outcome, environment>>

-----------------------------------------------------------------------------
(* stop_processors, from the finally clause                                *)

(* The next processor has exited already, or is sent SIGINT.               *)
StopProcessor ==
    /\ pc = "stop"
    /\ managed # <<>>
    /\ IF process[Head(managed)] = "exited"
       THEN managed' = Tail(managed) /\ UNCHANGED pc
       ELSE pc' = "wait" /\ UNCHANGED managed
    /\ UNCHANGED <<options, position, scan, result, started, stopAborted,
                   environment>>

(* wait returns when the process has exited.                               *)
ProcessorStopped ==
    /\ pc \in {"wait", "killed"}
    /\ process[Head(managed)] = "exited"
    /\ managed' = Tail(managed)
    /\ pc' = "stop"
    /\ UNCHANGED <<options, position, scan, result, started, stopAborted,
                   environment>>

(* Mutant: wait has no timeout.                                            *)
NeverKill == FALSE /\ UNCHANGED vars

(* After stop_timeout_seconds the process is killed, and waited for again. *)
KillProcessor ==
    /\ pc = "wait"
    /\ process[Head(managed)] # "exited"
    /\ pc' = "killed"
    /\ UNCHANGED <<options, position, scan, stopping, result, environment>>

(* It has not exited after five seconds, its log cannot be read, or the    *)
(* runner is interrupted: the exception ends the command.                  *)
StopRaises ==
    /\ pc \in Stopping
    /\ managed # <<>>
    /\ stopAborted' = TRUE
    /\ outcome' = "error"
    /\ pc' = "ended"
    /\ UNCHANGED <<options, position, scan, managed, snapshots, artifact, rows,
                   raised, started, environment>>

AllStopped ==
    /\ pc = "stop"
    /\ managed = <<>>
    /\ IF raised THEN pc' = "ended" /\ outcome' = "error"
                 ELSE pc' = "artifact" /\ UNCHANGED outcome
    /\ UNCHANGED <<options, position, scan, stopping, snapshots, artifact, rows,
                   raised, environment>>

-----------------------------------------------------------------------------
(* Recording                                                               *)

(* Mutant: the artifact is written once, when the row has its id.          *)
SkipFirstArtifact ==
    /\ pc = "artifact"
    /\ pc' = IF dryRun THEN "rewrite" ELSE "insert"
    /\ UNCHANGED <<options, position, scan, stopping, result, environment>>

WriteArtifact ==
    /\ pc = "artifact"
    /\ artifact' = [passed |-> passed, row |-> None]
    /\ pc' = IF dryRun THEN "rewrite" ELSE "insert"
    /\ UNCHANGED <<options, position, scan, stopping, snapshots, rows, raised,
                   outcome, environment>>

InsertResult ==
    /\ pc = "insert"
    /\ rows' = Append(rows, passed)
    /\ pc' = "rewrite"
    /\ UNCHANGED <<options, position, scan, stopping, snapshots, artifact, raised,
                   outcome, environment>>

(* The artifact is written again, with the id; main ends the command.      *)
RewriteArtifact ==
    /\ pc = "rewrite"
    /\ artifact' = [passed |-> passed, row |-> IF dryRun THEN None ELSE Len(rows)]
    /\ outcome' = IF passed THEN "complete" ELSE "gates_failed"
    /\ pc' = "ended"
    /\ UNCHANGED <<options, position, scan, stopping, snapshots, rows, raised,
                   environment>>

(* Mutant: the processors are not stopped in a finally clause.             *)
RaiseWithoutStopping ==
    /\ pc \in Setup \cup Measuring \cup {"final", "failed"} \cup Recording
    /\ raised' = TRUE
    /\ scan' = None
    /\ pc' = "ended"
    /\ outcome' = "error"
    /\ UNCHANGED <<options, position, stopping, snapshots, artifact, rows,
                   environment>>

(* Any other exception (a SeedError, a RedisError, a command that is not   *)
(* found): the processors are stopped and the command ends.  What the call *)
(* had done by then is the state the step before has left.                 *)
Raise ==
    /\ pc \in Setup \cup Measuring \cup {"final", "failed"} \cup Recording
    /\ raised' = TRUE
    /\ scan' = None
    /\ IF pc \in Recording \/ dryRun
       THEN pc' = "ended" /\ outcome' = "error"
       ELSE pc' = "stop" /\ UNCHANGED outcome
    /\ UNCHANGED <<options, position, stopping, snapshots, artifact, rows,
                   environment>>

-----------------------------------------------------------------------------
(* The steps of the runner that need nobody else.                          *)
Run ==
    \/ CleanTopics \/ ResetValues \/ SeedValues
    \/ BeginScan \/ (\E k \in Keys : ReadBucket(k)) \/ BeforeSnapshot
    \/ StartProcessor \/ AllStarted \/ CheckStarted
    \/ BeginPhase \/ Publish \/ FinishPhase
    \/ Settle \/ FinalSnapshot \/ FailureSnapshot
    \/ StopProcessor \/ ProcessorStopped \/ KillProcessor \/ AllStopped
    \/ WriteArtifact \/ InsertResult \/ RewriteArtifact

GiveUp == StopRaises \/ Raise

Broker == \E record \in Records : Deliver(record) \/ LoseRecord(record)

Processes ==
    \/ \E p \in Processors : ProcessorRuns(p) \/ ProcessorExits(p)
    \/ \E record \in Records : Consume(record)
    \/ \E k \in Keys : PublishBucket(k)
    \/ CompleteCheckpoint \/ RestoreJob
    \/ InsertModel

Next == Run \/ GiveUp \/ Broker \/ Processes

Spec == Init /\ [][Next]_vars

(* The runner goes on, a killed process or its wait ends, and a record is  *)
(* accepted or fails; nothing is assumed of processors and their signals.  *)
FairSpec ==
    /\ Spec
    /\ WF_vars(Run)
    /\ WF_vars(pc = "killed" /\ StopRaises)
    /\ WF_vars(Broker)

-----------------------------------------------------------------------------
(* Properties                                                              *)

(* Failed sends are not noticed, and only the delta gates may reveal them. *)
(* An experiment that measured its own realtime job on clean topics and    *)
(* passed both gates lacks no more events of a kind than its final         *)
(* snapshot may have twice: by a bucket the scan returned again, or by     *)
(* records a restore made the job count again on top of Redis.  Without    *)
(* either, every event reported was delivered                              *)
(* (experiment_service.py, 650-690; kafka_event_producer.py, 39-52;        *)
(* redis_runtime.py, 34; run_realtime_ctr.py, 307 and 467).                *)
PassedMeansDelivered ==
    /\ pc \in Recording \cup {"ended"} /\ passed = TRUE /\ ~dryRun
    /\ definition.traffic /\ definition.cleanTopics
    /\ definition.matchImpressions /\ definition.matchClicks
    => \A kind \in Kinds :
          /\ OfKind(topic, kind) <= Phases * BatchCount(Batch, kind)
          /\ Phases * BatchCount(Batch, kind) <= OfKind(topic, kind) + final.twice[kind]

(* A passed experiment ran on processors that all lived through traffic    *)
(* and settling (experiment_service.py, 202-256; run_experiment.py,        *)
(* 158-166).                                                               *)
PassedMeansHealthy == passed = TRUE => exitedEarly = {}

(* However the run ends, the processors it started have exited, unless     *)
(* stopping them itself was cut short (experiment_service.py, 266-273;     *)
(* run_experiment.py, 168-188).                                            *)
NoProcessorLeftBehind ==
    pc = "ended" /\ ~stopAborted => \A p \in started : process[p] = "exited"

(* A row never stands for a result without artifact, and whoever is told   *)
(* how the gates went finds the same in both (experiment_service.py,       *)
(* 291-308; run_experiment.py, 250-263).                                   *)
ResultIsRecorded ==
    /\ Len(rows) <= (IF dryRun THEN 0 ELSE 1)
    /\ rows # <<>> => artifact # None /\ artifact.passed = rows[1]
    /\ outcome \in {"complete", "gates_failed"} =>
          /\ artifact.passed = (outcome = "complete")
          /\ dryRun \/ (artifact.row = 1 /\ rows = <<artifact.passed>>)

(* The command ends, also when a processor ignores its signal.             *)
RunEnds == <>(pc = "ended")

=============================================================================
