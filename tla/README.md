# Verification of ctx-ctr

TLA+ models of the contextual click-through-rate system in `src/ctx_ctr`, the
TLC configurations that check them on small instances, and proofs checked by
TLAPS for every value of the constants. Paths below are relative to `src/`.

- [The system](#the-system): components, state, operations, what is hard
- [The modules](#the-modules): what models what
- [The runs](#the-runs): questions, bounds, fairness
- [The proofs](#the-proofs)
- [Disagreements found](#disagreements-found)
- [What is not covered, and the plan](#what-is-not-covered-and-the-plan)

## The system

Events (an impression, or a click on one) about a triplet *(ad category,
publisher domain, conversation category)* are published to Kafka. A Flink job
counts them per triplet ("bucket") and serves the buckets from Redis. A logistic
model, `weights:current` in Redis, gives each bucket its prior; it is
recalibrated from the buckets, by a batch command or by a second Flink job, and
its versions are recorded in PostgreSQL.

    event simulator --> Kafka impressions, clicks
                           |              |
                 realtime CTR job    streaming weight update
                  |        |              |        |
          dead letters   Redis ctr:*    Redis      PostgreSQL
                           |            weights:   ctr_model_snapshots
                           |            current
                           +--> batch weight update --> both
                           +--> persist-redis-buckets --> PostgreSQL
                                                    ctr_bucket_statistics
    seed-values, reset-values, clean-topics: all of these stores
    run-experiment: resets, seeds, starts the jobs, produces, measures, gates

Nothing locks Redis or PostgreSQL across calls. Every program here is one more
independent writer.

| Component | State it keeps | Operations | Correct when |
|---|---|---|---|
| Realtime CTR job (`jobs/run_realtime_ctr.py`, `services/realtime_ctr.py`, `adapters/redis_ctr_state.py`) | keyed state per bucket (counters, dirty count, flush timer), Flink timers, operator counters, metrics timer, checkpoints | `process_element`, `on_timer`, checkpoint, restore, start again | every record counted once, in Redis within the flush interval; a dirty bucket always has a timer; nothing is lost or goes back |
| Bucket mathematics (`services/ctr_math.py`, `services/realtime_ctr.py`) | none | prior, posterior, interval, acceptance | clicks never exceed impressions; every statistic is one its model accepts |
| Kafka events and producer (`models/events.py`, `adapters/kafka_event_producer.py`, `services/event_simulator.py`) | topics, the producer's buffer | produce, flush | what is counted as produced is in the topics; a click follows its impression |
| Batch weight update (`jobs/run_weight_update.py`, `services/weight_update_service.py`, `adapters/redis_runtime.py`, `adapters/postgres_runtime.py`) | none of its own; both stores | scan, read, decide, write, insert, loop | a model comes from recent evidence and from the model it replaces; Redis and PostgreSQL agree |
| Streaming weight update (`jobs/run_streaming_weight_update.py`, `services/streaming_weight_update_service.py`) | evidence counters, current model, timer, checkpoints | `process_element`, `on_timer`, checkpoint, restore, start again | each record is evidence once; one chain of timers; state does not get ahead of the stores |
| Persist Redis buckets (`services/persist_redis_buckets_service.py`) | PostgreSQL rows | scan, upsert | a row is a value the bucket had in Redis during the run, and no bucket is missing |
| Seed and reset (`services/seed_service.py`, `adapters/*_seed.py`) | both stores | five commits; two deletions | afterwards the stores agree |
| Topic cleaning (`adapters/kafka_admin.py`) | topics | delete, sleep, create | a topic it reports clean holds nothing of before |
| Experiment runner (`services/experiment_service.py`, `jobs/run_experiment.py`) | subprocesses, snapshots, artifacts | start, warm up, produce, drain, measure, stop, gate | processors are stopped on every path; no more traffic is missing from a run the gates accept than its counters may have twice |
| Configuration and command line (`job_config_loader.py`, `models/job_configs.py`, each `main` in `jobs/`) | none | parse, load, validate, merge, end | a command works with what its user asked for; a dry run changes nothing |
| Seed dataset (`services/seed_values_dataset.py`, `models/seed.py`) | none | build, validate | what is seeded passes the models it is read back with |
| Redis inspection (`services/redis_inspect.py`) | none | scan or read one bucket, print | shows what was asked for |
| Containers, schema, notebooks, recorded results | none that changes | | out of scope |

What is hard about it, and hard to test:

- **Two copies of a bucket.** Keyed state is rolled back by a restore and by a
  fresh start, Redis never is, and `process_element` falls back from one to the
  other.
- **Coalesced flushing.** Marking a bucket dirty keeps, accelerates or registers
  a timer; Flink identifies timers by key and timestamp, and the metrics timer
  shares that space.
- **Order.** Impressions and clicks come from two topics; a click can overtake
  its impression and is then a dead letter for good.
- **Unlocked read, compute, overwrite** of `weights:current`, by commands that
  may be stopped between any two calls.
- **Feedback.** Each weight update learns from all the evidence there is, from a
  prior the last update has moved; clipping, centring over the whole family and
  new values act on the same weights.
- **A broker that deletes in its own time**, while a fixed sleep guesses how long.
- **Two stores, no transaction**: Redis first, then PostgreSQL, or the reverse
  when seeding.
- **Timer chains** that live in operator state and in Flink at once, and each of
  whose links must register the next.

`PROJECT.json` lists each hazard at its line, with the properties that guard
against it, or why none does yet.

## The modules

| Module | Models |
|---|---|
| `RealtimeCtr` | one subtask of the realtime job, with topics, keyed state, timers, checkpoints, Redis and the dead-letter topic |
| `CtrStore` | what that job promises to the readers of Redis (abstract) |
| `WeightUpdate` | any number of batch commands, both stores, and the realtime job as a writer of buckets |
| `StreamingWeightUpdate` | the streaming operator with both stores and a batch command as a second writer |
| `Experiment` | one `run-experiment` command: runner, child processes, broker, and the realtime job, which counts and publishes as `CtrStore` does, with checkpoints and restores inside its process |
| `StoreAdmin` | `persist-redis-buckets`, `seed-values` and `reset-values` against both stores, next to one another and to the realtime job |
| `CtrMath`, `SeedDataset` | the arithmetic of buckets, and the seeded dataset with the traffic simulated from it |
| `ModelUpdate` | what a weight update computes, on that dataset, from the buckets in Redis or the streaming job's counters |
| `Commands` | all ten commands from `parse_args` to their end, with `clean-topics`, `produce-events` and `watch-redis-values` in full |
| `MC...` | constants of the instances TLC checks |
| `...Proofs` | theorems and proofs about the module they extend |

A record, a bucket and a model are abstracted to what the control flow and the
properties tell apart. Records of one kind for one key are interchangeable, so a
topic is a count, `produced`, and a source position is a count, `consumed`. A
bucket is its two counters: prior, posterior, interval and trust flag are
functions of them and of the prior fixed when the bucket was built. A model is
its number, its author and the model it was computed from; its weights enter the
control flow through two guards only, whose outcomes are left open. The numbers
themselves are in `ModelUpdate`, which has no interleaving: there an update is
one step, and here it is several without numbers.

Operators whose comment starts with "Mutant:" are plausible bugs. Each stands
before the operator it would replace, with the same parameters, and is used by
no specification; replacing the original by it breaks the property
`PROJECT.json` names, which shows that the property depends on that code.

### RealtimeCtr

| Code | Model |
|---|---|
| `process_element`, valid record | `AcceptPerEvent`, `AcceptPeriodic` |
| `process_element`, parse error or click without impression | `DeadLetter` |
| `_load_bucket_state`, `apply_event` | `LoadBucketState`, `AcceptsEvent`, `ApplyEvent` |
| `_mark_bucket_dirty`, `redis_flush_action`, `_schedule_redis_flush` | `MarkBucketDirty`, `RedisFlushAction`, `ScheduleRedisFlush` |
| `on_timer`, `_flush_bucket_to_redis` | `OnTimer`, `FlushBucketToRedis`, `MetricsTimerFires` |
| `_log_metrics`, `_ensure_metrics_timer` | `CountAndLog`, `EnsureMetricsTimer` |
| `keyedState`, `_flush_timer_state` ... | `bucket`, `dirty`, `flushTimer` |
| Flink timer service | `timers`, a set of (key, timestamp): registering twice is registering once, deleting removes both uses |
| Flink checkpoint, recovery | `CompleteCheckpoint`, `RestoreFromCheckpoint` |
| the command started again | `FreshStart`: no state, earliest or latest offsets |
| Kafka dead-letter sink, at least once | `unflushed`, `FlushSink` |

A callback is one action: Flink runs the callbacks of a subtask one at a time,
and Redis is touched by one call in each, whose failure fails the task before
any state of the callback is in a checkpoint (a restore). `open`'s reading of the
model is a precondition: without it the job does not run. The monotonic clock of
`_last_event_monotonic` and Flink's processing time advance together. The key
strings are model values, distinct by construction.

### WeightUpdate

One action per call to a store, because other programs run between two calls:
`ScanBucket` (SCAN and GET of one key; SCAN may repeat a key, and may or may not
return one written meanwhile), `EndScan`, `ReadWeightsAndReject` /
`ReadWeightsAndAccept`, `WriteWeights`, `InsertSnapshot`. `Accepted` is the
conjunction of `recalibrate`'s guards. `Stop` ends a command anywhere, and a call
it was waiting for was applied or was not. `Start` and `NextRun` are `--once`
commands, loops and their repetition. `WriteBucket` is the realtime job.

### StreamingWeightUpdate

`ProcessInvalid` and `ProcessValid` are `process_element`. `on_timer` is
`SkipUpdate` or `AcceptDryRun`, or two actions, `AcceptAndWrite` up to the Redis
write and `InsertAndFinish` from the PostgreSQL insert, since a failure or a batch
command can come between; no other callback of the operator can. `NewOperator` is
`open`, with the model read from Redis. A failure while an insert is under way
leaves it committed or not.

### Experiment

`pc` is the place of the command in `ExperimentService.run`; each call to a
store, to the producer or to a process is a step, between which the processes and
the broker move.

| Code | Model |
|---|---|
| `_run_setup` | `CleanTopics`, `ResetValues`, `SeedValues` |
| `start_processors`, `assert_healthy`, the sleeps | `StartProcessor`, `ContinueIfHealthy`; a sleep is no step, since whatever may happen meanwhile may happen anyway |
| `_run_traffic_phases`, `produce`, `publish`, `flush` | `BeginPhase`, `Publish`, `FinishPhase` |
| `KafkaProducer`'s sender thread | `Deliver`, `LoseRecord`: the future of `send` is dropped, so neither is seen by the runner |
| `_collect_runtime_snapshot`, over `scan_iter` and `get` | `BeginScan`, `ReadBucket`, `EndScan`, `Snapshot`: bucket after bucket while the job writes; a key may come again (`MaxRepeats`), a new one may be missed |
| `_evaluate_success_gates` | `Gates` |
| Flink's checkpoints of the realtime job and its restores | `CompleteCheckpoint`, `RestoreJob`; the process lives on and no health check sees them |
| `except ExperimentFailure`, `finally` | `FailureSnapshot`; `Raise` is any other exception, at any step |
| `stop_processors`, `_stop_processor` | `StopProcessor`, `ProcessorStopped`, `KillProcessor`, `StopRaises` |
| the artifact, the row, the artifact again | `WriteArtifact`, `InsertResult`, `RewriteArtifact` |

A processor is a process that comes up whenever it likes and exits whenever it
likes; while it runs, the realtime job counts records and publishes buckets by the
actions of `CtrStore`, and the streaming job inserts models. `RealtimeCtr`
implements `CtrStore` without restarts only, so restarts are here as they are
there. A restore takes offsets and keyed state back to the last checkpoint, or to
nothing, and leaves Redis as it is: a bucket that no checkpoint holds is loaded
from Redis again (`_load_bucket_state`, line 307), and the records that are
rewound are counted on top of it. An exit takes everything unpublished with it, as
`close()` flushes nothing. A send is not retried (kafka-python's default), so the
producer duplicates nothing. Two history parts say how much a snapshot may have
twice: `recounted`, what restores rewound in buckets loaded from Redis, and
`scan.again`, what buckets returned again added. A step of `Raise` leaves what the
steps before it did; a call that did half its work and raised is covered only
where the half is a step. One gate is absent: `require_processor_health` reads
`early_exit` from what `start_processors` returned, where it is always `False`, so
it can reject nothing; `assert_healthy` alone decides about health.

### StoreAdmin

One action per call to Redis and per row PostgreSQL locks. A batch of upserts
holds the rows in `written` until `Commit` or `Fail`; `Truncate` waits for open
transactions; `AbortDeadlocked` is PostgreSQL's deadlock detection. Redis scans
promise only that a key present throughout is returned: `held` remembers what was
there during a scan, and `ScanMayEnd` is that promise. `restored` records whether
a reset, and a seed after it, have had the stores to themselves.

### CtrMath, SeedDataset and ModelUpdate

Floating-point numbers are fixed-point integers: a probability is a multiple of
1/40000, a weight of 1/100. The logistic curve is a table of 56 points with
linear interpolation; it increases strictly, so `SafeLogit` inverts it exactly.
Rounding is visible in two properties, which allow one unit for each value, and
nowhere else.

| Code | Model |
|---|---|
| `sigmoid`, `safe_logit`, `beta_variance`, `clipped_confidence_interval` | operators of the same names in `CtrMath` |
| `_build_bucket`, `initialize_bucket`, `build_snapshot` | `BucketStatistic`, `PriorMean` |
| `build_seed_values_dataset`, the validators of `models/seed.py` | `SeedBuckets`, `SeedModel`, `ValidModel`, `ValidStatistic` |
| `_build_candidates`, the draw, the click probability | `TrafficWeight`, `ChooseCandidate`, `ClickProbability`, `ProduceEvents` |
| `scan_bucket_statistics`, `_aggregate_single_feature_buckets` | `RedisEvidence`, `FeatureBuckets` |
| the streaming operator's counters as statistics | `StreamEvidence` |
| `_build_baseline_update_proposal`, `_without_accepted_baseline_update` | `BaselineProposal` |
| `_update_feature_family`, `_center_family` | `UpdateFeatureFamily`, `LearnFeature`, `Delta`, `CenterFamily` |
| `recalibrate`, `_build_metrics` | `Recalibrate`, `Result`, `Metrics` |

`run` is what the last step, if it was an update, was given and returned: the
properties compare a model with the one before it and with the evidence.

### Commands

`pc` takes each command through `ParseArgs`, `LoadJobConfig` (the file is
validated alone), `MergeJobConfig` (command line over file over defaults,
validated again) and `main`. A field is known by where its value comes from:
`"default"`, `"file"`, `"cli"`, or `"bad"` for one the declaration rejects; flags
are `"on"` or `"off"`. `ConfigOf` lists the fields of the ten configuration
classes, `MayOverride` what each parser accepts.

`clean-topics` is `DeleteTopics`, in which the broker only marks the topics,
and `CreateTopics`, before or after `FinishDeletion`; the sleep between them is no
step, as it promises nothing. A topic remembers in `stale` the cleanings that
began with its present contents. `produce-events` is `Publish`, the producer's
thread `Deliver`, `Flush` and `Close`. `watch-redis-values` is `CollectSnapshot`,
with the focused bucket or without. The other commands' work is one of the
modules above: here it writes, unless it is a dry run, and ends or goes on.
`Abort` is any exception or interrupt.

## The runs

| Run | Question | Answer |
|---|---|---|
| `realtime_safety` | does coalesced flushing lose, duplicate or starve anything, and do the counters add up? | no; yes |
| `realtime_recovery` | what holds through checkpoints, restores and fresh starts? | state and offsets move together, no record is lost, Redis agrees again once drained |
| `realtime_liveness` | is everything published and every metrics window logged? does the job implement `CtrStore`? | yes, if no flush is accelerated |
| `replay_double_count` | does Redis equal the topics after a restore? | no |
| `metrics_timer_lost` | is every metrics window logged when flushes are accelerated? | no |
| `weight_update_safety` | are evidence, lineage and records right with a loop, a dry run and stops anywhere? | yes |
| `weight_update_partial` | is an accepted model always in both stores? | no |
| `streaming_safety` | are evidence, timer chain, state and stores right through failures and beside a batch command? | yes |
| `experiment_safety` | what does a passed experiment guarantee, whatever fails and whenever? what does a command leave behind, and does it end? | it lacks no more events than its final snapshot may have twice, so none if it has none twice (with both delta gates, own job, clean topics); processors alive to the last check; none left running, unless stopping them was cut short; records that agree; yes |
| `store_admin_safety` | what do overlapping and failing persist, seed and reset commands leave in the stores, and do they end? | rows are values of the run; reset then seed restores a known state; a half seed leaves nothing in Redis only; yes |
| `model_update_safety` | what do weight updates make of a model, twice in a row, from simulated and foreign traffic? | models stay valid and centred; a weight moves by less than twice `max_delta`; the baseline stays between the old one and the observed rate; weights follow the order of the evidence |
| `commands_safety` | does each command work with what was asked for, and what does a completed cleaning guarantee? | yes, and a dry run changes nothing; nothing of before is left in the topics |

### Bounds

Every constant named `Max...`, `LastEventTime`, `RestartKinds`, `BatchUpdates`,
`SeededPlaces`, `OddKeys` and `Disturbed` bounds an instance and nothing else. The
specifications are finite because of them, and the last state has no successor:
hence `CHECK_DEADLOCK FALSE`. `Commands` is finite as it is; its run checks for
deadlock, since a command must end or go on.

- *Realtime.* Two keys, one already in Redis, and flush thresholds of two
  updates, so that both branches of loading and all four of
  `redis_flush_action` occur. Three impressions per key exceed the threshold;
  a click and an invalid record per key reach the dead letters in both ways.
  Records arrive up to `LastEventTime`, two intervals before the clock stops.
  The recovery run has one key, since a restore acts on keys separately, and two
  restarts, so that a restore can follow a restore and a fresh start.
  The liveness run sets `MaxUpdates` above what is produced: with acceleration
  its property fails (`metrics_timer_lost`).
- *Batch.* A looping command and a dry run, each started twice; scans that return
  a key twice; one bucket that exists without impressions and one that does
  not yet; three models, so a real update can follow a real update.
- *Streaming.* One record of each kind, an interval of two within a clock of
  five, two restarts, one batch update and three models: an update, a failure in
  it, and the update after recovery.

- *Experiment.* Five definitions, each real and dry. Three are those of
  `experiments/configs`: no processor; both processors on seeded stores; preloaded
  traffic and the earliest offsets. The fourth runs processors without traffic.
  The second and third also set both delta gates, which the shipped files leave
  off (`tests/test_experiment_service.py` sets the one for impressions): without
  them nothing is promised of delivery. Two phases of an impression and a click,
  so that a loss in one phase can be offset by a stray record only if the gates
  allow it. The topics hold an old impression and Redis may hold a bucket, so that
  an earlier run's leftovers could be counted.
  The fifth (`Measured`) is the one in which delivery is disturbed: one phase of two
  impressions and a click, one restore from a checkpoint or from none, and one
  repeated read. So one impression can be lost and the other counted twice, by either
  disturbance: "every event was delivered" fails in this instance, and holds once
  both bounds are 0. They happen from the last settle to the final snapshot
  (`Disturbed`), when the job may still have handled nothing of what was sent, so
  what was counted before a checkpoint, between it and the restore, and after the
  restore is any part of it. One bucket: a bucket's copies are all that
  `PassedMeansDelivered` sums up, and the theorem is about any number of them, any
  stage and any number of disturbances.
- *Store commands.* Two buckets, of which one is not in Redis yet, and a seed order
  that a scan may reverse, so that two batches deadlock; two persist runs, a
  persist run and a seed, a reset between two seeds and with either of the
  others; the job counts to two. Each command runs once.
- *Numbers.* Every fifth triplet of the dataset, so that each value of each family
  meets each value of the others; two batches of 5000 impressions, which is
  enough for one value to pass `min_feature_impressions` and the width guard and
  another not; the first and the last candidate of the simulator, and two new ad
  categories, one with a key that is scanned twice or cannot be read; the
  expected clicks or five times as many, so that deltas are clipped; two
  updates, the second from what the first and the traffic between made. The
  configurations are those of `configs/`, one without baseline update and with a
  small `max_delta`, and dry runs of both jobs.
- *Commands.* One command alone, for each job a field of every sort it has, up to
  two of them given in the file and two on the command line, the file in each
  state; and pairs of a cleaning with another cleaning or a producer, over five
  topics of which one or two are missing and one is named in the file only.

### Fairness

Safety runs use `Spec`. `RealtimeCtr!FairSpec` adds weak fairness of `Tick`
(time passes) and of `FireTimer(k)` (Flink's timer service fires what is due, and
the task's mailbox gets to it). `StreamingWeightUpdate!FairSpec` does so with
`OnTimer`, which includes PostgreSQL answering. Nothing is assumed of the
producers, of checkpoints, restarts or of the batch command. No fairness of
`process_element` is needed: the promises are about records already processed.

`Experiment!FairSpec` assumes that the runner makes its next step, which is a
Python statement or a wait with a timeout; that the five-second wait after a kill
ends, by exit or `TimeoutExpired`; and that the producer's sender accepts or fails
every record, as its request and batch timeouts make it do. Processors may
ignore every signal. `StoreAdmin!FairSpec` assumes that each command makes its next
call and that PostgreSQL looks for deadlocks, which it does after
`deadlock_timeout`.

## The proofs

For all values of the constants that satisfy the modules' `ASSUME`s: any number
of keys, commands, triplets, records, restarts, feature values and updates. Every
safety property that a passing run checks is a theorem.

| Module | Proved | Argument |
|---|---|---|
| `RealtimeCtrProofs`, for all restarts | `TypeOK`; `FlushIsScheduled`; `ExactlyOnceSinceCheckpoint`; `RedisAgreesWhenDrained`; `NoRecordLost`, if a fresh start reads from the earliest offsets (`NothingSkipped`) | each must hold of the checkpoint too, since a restore brings it back: `ScheduleInv` (scheduled timers are registered), `LossInv` (a sink flush precedes a checkpoint), `ReplayInv` (a bucket that is clean, now or as a restore would find it, and differs from its copy in Redis, has records to handle that will mark it dirty) |
| the same, without restores | `CleanBucketIsInRedis`, `RedisNeverRegresses`, `DeadlineSlipsAtMostOnce` and `FlushAccounting` (`NeverRestored`; the last for finitely many keys); `EveryRecordCountedOnce` and each step a step of `CtrStore` or a stutter (`NoRestarts`) | `RedisInv`: Redis is never ahead of keyed state, and equal to it where clean; `FlushInv`: updates flushed are updates counted less the sum of the dirty counts, a step changing one summand; `LoadedInv`: a bucket that is not loaded is what Redis says |
| `WeightUpdateProofs` | `TypeOK`, `RowsWerePublished`, `EvidenceIsRecent`, `PublishedIsRecorded`; `NoUpdateIsLost` with one command that writes (`OneWriter`) | `WriterInv`, `ParentInv`, `GrowthInv`, `RecordedOnce`: a proposal belongs to one command, comes after every model that command wrote, and has no row before its insert |
| `StreamingWeightUpdateProofs` | `TypeOK`, `OneTimerChain`, `EvidenceMatchesSource`, `StateModelWasPublished`, `StreamContinuesItsModel` | each must hold of the checkpoint too: `CheckpointInv`; `AloneInv`: while nothing interferes, state, startup model and Redis are one model |
| `ExperimentProofs` | `TypeOK`, `NoProcessorLeftBehind`, `PassedMeansHealthy`, `ResultIsRecorded`, `PassedMeansDelivered` | `ManagedInv`: who has started is managed until it has exited; `HealthInv`: a processor that passed the last check was alive at it; `ResultInv`: artifact and row follow the result; for delivery, `TrafficInv`: what is in the topics is part of what was reported; `CountedInv`: there is a base, covered by the first snapshot, such that every copy of a bucket (in Redis, the job, its checkpoint, the scan) holds at most the base, the records up to that copy's position and those recounted; `DeliveredInv`: so a final snapshot, summed over the buckets, exceeds the first by no more than what was delivered and what it has twice, and one that exceeds it by what was reported bounds what was lost |
| `StoreAdminProofs` | `TypeOK`, `PersistedWasCurrent`, `KnownState`, `RedisFollowsPostgres` | `WatchInv`: what a persist run owes or holds Redis has held since its scan began, and a bucket there throughout is owed or held. `RestoredInv`: after a reset only scans with nothing are active; during a seed there is one seeder, at a stage (`SeedStage`) that says what the stores have, and everyone's batch is of the seed dataset, which is why a persist run in between can do no harm |
| `CommandsProofs` | `TypeOK` (stated there), `WorksAsAsked`, `CleanedMeansFresh` | `CommandInv`: from the merge on a configuration is the one that was asked for and validates; nothing is written before it is known, and a record in the producer's buffer says that this is no dry run; `CleanInv`: records that are stale to a cleaning are in its own topics only and never in an absent topic, and none is left when its result is complete |
| `ModelUpdateProofs` | `TypeOK`, `RankFollowsEvidence`, `MovementBounded`, `BaselineBetween` | `NumbersInv`: baselines and priors are in the range of the table, families are finite, of integers and centred; see below |
| `SumProofs` | lemmas on the library's sum of a function over a finite set: its equation, splitting, bounds, change of one summand | by smallest counterexample among the subsets; used by `RealtimeCtrProofs`, `ExperimentProofs` and `ModelUpdateProofs` |

`PROJECT.json` lists the theorems. The assumptions named in brackets are
exactly those the properties need: `NoUpdateIsLost` is false with two writers,
`CleanBucketIsInRedis` just after a restore, and `FlushAccounting` after one.

`ModelUpdateProofs` is about the numbers themselves, in four layers.

1. *Arithmetic* (`CtrMath`). The table is increasing, so `Sigmoid` is, for every
   integer, and its values are probabilities; `SafeLogit` is increasing and
   inverts `Sigmoid` on the table; quotients rounded down are monotonic; `ISqrt` is a
   root, found digit by digit in base 32; hence a posterior mean is a
   probability, more clicks do not lower it, and it lies between the prior and
   the observed rate (up to the rounding that both share); an interval contains
   its mean; and every `BucketStatistic` of counts whose clicks are not ahead is
   valid.
2. *The seed* (`SeedDataset`). The three seeded families are centred and every
   seeded bucket is valid, for any subset of the places.
3. *One family*. Of any values and any evidence: totals have no more clicks
   than impressions however often a key was read; a delta is within `max_delta`;
   more clicks give no smaller delta; what centring leaves of a family's sum is
   less than one unit for each of its values, and it moves a weight by what the
   deltas of the others sum to (`Moved`).
4. *The model*. One lemma for each action; an update from any typed evidence
   keeps `NumbersInv` and moves the model as the two action properties say
   (`Recalibrated`), and both kinds of evidence are typed.

What this says of the code is what the fixed-point arithmetic shares with
floats: monotonic functions and rounding down. A weight beyond the table has the
table's last probability, where the code's `sigmoid` goes on towards zero or one.

Only model-checked: the liveness properties `MetricsEventuallyLogged`,
`TimerRecurs`, `RunEnds`, `CommandsEnd`, and the fairness half of
`ImplementsCtrStore`, which TLAPS cannot reach (it has neither ENABLED nor rules
for weak fairness).

## Disagreements found

Each is a run that must fail, with the line it contradicts in `PROJECT.json`.

1. **Replay counts twice** (`replay_double_count`). A bucket first seen after the
   last checkpoint and already flushed is absent from the restored state; it is
   loaded from Redis, with the records about to be replayed already in it.
2. **The metrics timer can be deleted** (`metrics_timer_lost`). When the flush
   timer of a bucket and the metrics timer have one key and one timestamp they
   are one Flink timer. Accelerating the flush deletes it, and
   `_metrics_timer_timestamp` stays set, so none is ever registered again.
3. **An accepted model may have no row** (`weight_update_partial`). Redis is
   written first and nothing undoes it.

Three observations are no disagreements, since no line of the repository promises
otherwise; they are listed as hazards. A passed experiment does not imply that its
traffic was delivered: the delta gates compare sums, and a failed send goes unseen
if as much is in the final snapshot twice, because a restore had the job count
records again (disagreement 1, inside the living process) or because `SCAN`
returned a bucket again. `PassedMeansDelivered` is the bound that remains. After a
restore the dirty counts of keyed state come back and the operator's counters do
not, so that `redis_updates_flushed` may exceed `valid_events`: the accounting
`FlushAccounting` is of runs without a restore. And the next timer of the
streaming job follows the timestamp of the last, not the clock, so that intervals
missed in an outage are made up at once, each update learning from the same
evidence; `ModelUpdate` shows what that does to the weights.

## What is not covered, and the plan

Not modelled, and why:

- *Floating point.* The fixed-point numbers follow the formulas to about four
  digits. What depends on the last digits of a float is not covered, nor are weights
  outside the range of the table, which no instance reaches.
- *Layout and logging*: what tables, JSON and progress lines look like, and the
  values `watch-redis-values` prints. The bounds that the configuration
  classes impose are `"bad"` in `Commands` and `ASSUME`s elsewhere.
- *Containers, schema, notebooks, recorded results* are data; the two notebooks
  are analyses of recorded runs.
- *Processor metrics* of an experiment (`services/experiment_service.py`, 476-648)
  aggregate log lines; no decision depends on them.
- *Invalid payloads in Redis*: every writer modelled writes valid ones. A key that
  cannot be read is in `ModelUpdate`.
- *A reset under a running realtime job* is in `StoreAdmin`, but nothing is
  promised of it: the job writes the old counts back. `Experiment` assumes nobody
  resets under a job (`SetupAssumption`).
- *A fresh start over a whole topic* is in `RealtimeCtr`, but `replay_double_count`
  is about a restore; no run is about the double count of a fresh start.
- *Processors behind one whose stopping raised*: `_stop_processor` then leaves them
  running, and `NoProcessorLeftBehind` excludes it (`stopAborted`).
- *An interrupt* between starting a process and remembering it.
- *The unified topic* is written in `Commands`; no job reads it.
- *Records sent to a topic that is deleted meanwhile* are lost and only their
  future knows (`Commands`); nothing promises otherwise.
- *Flink's distribution*: one subtask of each operator is modelled. Keys are
  partitioned among subtasks, and the streaming job has one key only.

Next, in this order:

1. The batch and the streaming update composed over one `weights:current` and one
   table, each an instance of its module, in place of `BatchUpdate` in
   `StreamingWeightUpdate`.
2. `CtrStore` in `WeightUpdate` and `StoreAdmin` in place of a counter per bucket,
   and clicks with it.
3. The theorems that such a composition then needs: `WeightUpdate!NoUpdateIsLost`
   for the batch command next to the streaming job, from the two modules' own
   invariants.
