---------------------------- MODULE RealtimeCtr ----------------------------
(***************************************************************************)
(* One subtask of the realtime CTR Flink job (jobs/run_realtime_ctr.py)    *)
(* with what surrounds it: the Kafka topics it reads, Flink's keyed state, *)
(* processing-time timers and checkpoints, the Redis hash of buckets that  *)
(* other programs read, and the dead-letter topic.                         *)
(*                                                                         *)
(* The records of one type for one bucket are interchangeable, so a topic  *)
(* is a count per type and key (produced) and the source's position in it  *)
(* is the count handled so far (consumed).  Impressions and clicks live in *)
(* different topics, so they are handled in either order.                  *)
(*                                                                         *)
(* One unit of the clock is one millisecond.                               *)
(***************************************************************************)
EXTENDS Naturals, FiniteSets, Functions

CONSTANTS
    Keys,             \* contextual buckets routed to this subtask
    None,             \* Python's None: no state, no timer, no checkpoint
    Modes,            \* redis_flush_mode values the job may be started with
    StartingOffsets,  \* "earliest" or "latest"
    Checkpointing,    \* checkpoint_interval_ms > 0
    FlushInterval,    \* redis_flush_interval_ms
    MaxUpdates,       \* redis_flush_max_updates
    MetricsInterval,  \* metrics_flush_interval_ms, 0 disables the timer
    LogEvery,         \* log_every, 0 disables progress logs
    Seed,             \* Redis buckets before the job starts
    MaxProduced,      \* bound: records produced per type and key
    LastEventTime,    \* bound: no record is handled after this time
    MaxTime,          \* bound: the clock stops here
    RestartKinds,     \* bound: what ends an operator, "restore" and "fresh"
    MaxRestarts       \* bound: job restarts

EventTypes == {"impression", "click", "invalid"}
AllModes == {"periodic", "per_event"}

(* A bucket's prior, posterior, interval and trust flag are functions of   *)
(* its two counters and of the prior fixed when it is first built;         *)
(* CtrBucketStatistic's validator refuses more clicks than impressions.    *)
Bucket == {b \in [impressions : Nat, clicks : Nat] : b.clicks <= b.impressions}
BucketOrNone == Bucket \cup {None}
TimeOrNone == Nat \cup {None}

ASSUME ConfigAssumption ==
    /\ Modes \subseteq AllModes
    /\ StartingOffsets \in {"earliest", "latest"}
    /\ Checkpointing \in BOOLEAN
    /\ FlushInterval \in Nat \ {0}
    /\ MaxUpdates \in Nat \ {0}
    /\ MetricsInterval \in Nat
    /\ LogEvery \in Nat
    /\ Seed \in [Keys -> BucketOrNone]

ASSUME BoundAssumption ==
    /\ MaxProduced \in [EventTypes -> Nat]
    /\ LastEventTime \in Nat
    /\ MaxTime \in Nat
    /\ RestartKinds \subseteq {"restore", "fresh"}
    /\ MaxRestarts \in Nat

ASSUME NoneAssumption == None \notin Nat /\ None \notin Bucket

(* EARLY_REDIS_FLUSH_DELAY_MS *)
EarlyFlushDelay == 1

VARIABLES
    now,           \* processing time
    mode,          \* redis_flush_mode
    produced,      \* records in the topics, by type and key
    consumed,      \* source offsets: records handled, by type and key
    bucket,        \* keyed state "bucket_state"
    dirty,         \* keyed state "redis_dirty_update_count"
    flushTimer,    \* keyed state "redis_flush_timer"
    timers,        \* registered processing-time timers, <<key, timestamp>>
    redis,         \* the ctr:* keys
    deadLetters,   \* records in the dead-letter topic, by key
    unflushed,     \* records the dead-letter sink has not flushed, by key
    metricsTimer,  \* _metrics_timer_timestamp
    lastEvent,     \* _last_event_monotonic
    lastLogged,    \* _last_log_processed_events
    metrics,       \* the operator's counters
    checkpoint,    \* the last completed checkpoint, or None
    restarts       \* restarts so far

keyedState == <<bucket, dirty, flushTimer>>
vars == <<now, mode, produced, consumed, bucket, dirty, flushTimer, timers, redis,
          deadLetters, unflushed, metricsTimer, lastEvent, lastLogged, metrics,
          checkpoint, restarts>>

Metrics == [processed : Nat, impressions : Nat, clicks : Nat, deadLetters : Nat,
            redisFlushes : Nat, updatesFlushed : Nat, updatesCoalesced : Nat]

ZeroMetrics == [processed |-> 0, impressions |-> 0, clicks |-> 0, deadLetters |-> 0,
                redisFlushes |-> 0, updatesFlushed |-> 0, updatesCoalesced |-> 0]

ValidEvents == metrics.impressions + metrics.clicks

Offsets == [EventTypes -> [Keys -> Nat]]
NoRecords == [t \in EventTypes |-> [k \in Keys |-> 0]]

(* What Flink saves: source offsets, keyed state, timers.                  *)
Checkpoint == [consumed : Offsets, bucket : [Keys -> BucketOrNone],
               dirty : [Keys -> Nat], flushTimer : [Keys -> TimeOrNone],
               timers : SUBSET (Keys \X Nat)]

TypeOK ==
    /\ now \in Nat
    /\ mode \in Modes
    /\ produced \in Offsets
    /\ consumed \in Offsets
    /\ bucket \in [Keys -> BucketOrNone]
    /\ dirty \in [Keys -> Nat]
    /\ flushTimer \in [Keys -> TimeOrNone]
    /\ timers \in SUBSET (Keys \X Nat)
    /\ redis \in [Keys -> BucketOrNone]
    /\ deadLetters \in [Keys -> Nat]
    /\ unflushed \in [Keys -> Nat]
    /\ metricsTimer \in TimeOrNone
    /\ lastEvent \in Nat
    /\ lastLogged \in Nat
    /\ metrics \in Metrics
    /\ checkpoint \in Checkpoint \cup {None}
    /\ restarts \in Nat

Init ==
    /\ now = 0
    /\ mode \in Modes
    /\ produced = NoRecords
    /\ consumed = NoRecords
    /\ bucket = [k \in Keys |-> None]
    /\ dirty = [k \in Keys |-> 0]
    /\ flushTimer = [k \in Keys |-> None]
    /\ timers = {}
    /\ redis = Seed
    /\ deadLetters = [k \in Keys |-> 0]
    /\ unflushed = [k \in Keys |-> 0]
    /\ metricsTimer = None
    /\ lastEvent = 0
    /\ lastLogged = 0
    /\ metrics = ZeroMetrics
    /\ checkpoint = None
    /\ restarts = 0

-----------------------------------------------------------------------------
(* Counters and the metrics timer                                          *)

(* _log_metrics: the counters become m, and a progress line is written     *)
(* when their number of processed records is a multiple of log_every.      *)
ShouldLogProgress(m) == LogEvery > 0 /\ m.processed % LogEvery = 0

CountAndLog(m) ==
    /\ metrics' = m
    /\ lastLogged' = IF ShouldLogProgress(m) THEN m.processed ELSE lastLogged

(* _ensure_metrics_timer: one timer per operator, registered under the key *)
(* being handled, on top of the timers in registered.                      *)
NeedsMetricsTimer(current) == MetricsInterval > 0 /\ current = None

EnsureMetricsTimer(k, current, registered) ==
    IF NeedsMetricsTimer(current)
    THEN [timers |-> registered \cup {<<k, now + MetricsInterval>>},
          metricsTimer |-> now + MetricsInterval]
    ELSE [timers |-> registered, metricsTimer |-> current]

-----------------------------------------------------------------------------
(* Bucket updates                                                          *)

InitializeBucket == [impressions |-> 0, clicks |-> 0]

(* Mutants: the stale copy first; Redis not read at all.                   *)
LoadBucketStateRedisFirst(k) == IF redis[k] # None THEN redis[k] ELSE bucket[k]
LoadBucketStateWithoutRedis(k) == bucket[k]

(* Keyed state first, then Redis.                                          *)
LoadBucketState(k) == IF bucket[k] # None THEN bucket[k] ELSE redis[k]

ExistingOrNew(existing) == IF existing = None THEN InitializeBucket ELSE existing

(* Mutant: off by one.                                                     *)
AcceptsEventOffByOne(type, existing) ==
    LET b == ExistingOrNew(existing)
    IN  type = "impression" \/ b.clicks <= b.impressions

AcceptsEvent(type, existing) ==
    LET b == ExistingOrNew(existing)
    IN  type = "impression" \/ b.clicks + 1 <= b.impressions

ApplyEvent(type, existing) ==
    LET b == ExistingOrNew(existing)
    IN  IF type = "impression"
        THEN [b EXCEPT !.impressions = @ + 1]
        ELSE [b EXCEPT !.clicks = @ + 1]

-----------------------------------------------------------------------------
(* Periodic flushing                                                       *)

(* Mutants: every update past the threshold pushes the timer; no timer     *)
(* below the threshold.                                                    *)
RedisFlushActionAlwaysAccelerating(dirtyUpdates, hasTimer) ==
    IF dirtyUpdates >= MaxUpdates
    THEN "accelerate_timer"
    ELSE IF hasTimer THEN "keep_timer" ELSE "schedule_timer"
RedisFlushActionAtThresholdOnly(dirtyUpdates, hasTimer) ==
    IF dirtyUpdates = MaxUpdates THEN "accelerate_timer" ELSE "keep_timer"

RedisFlushAction(dirtyUpdates, hasTimer) ==
    IF dirtyUpdates >= MaxUpdates
    THEN IF dirtyUpdates = MaxUpdates \/ ~hasTimer
         THEN "accelerate_timer" ELSE "keep_timer"
    ELSE IF hasTimer THEN "keep_timer" ELSE "schedule_timer"

(* _schedule_redis_flush, on top of the timers in registered.              *)
ScheduleRedisFlush(k, delay, replaceExisting, registered) ==
    IF flushTimer[k] # None /\ ~replaceExisting
    THEN /\ timers' = registered
         /\ UNCHANGED flushTimer
    ELSE /\ timers' = (registered \ {<<k, flushTimer[k]>>}) \cup {<<k, now + delay>>}
         /\ flushTimer' = [flushTimer EXCEPT ![k] = now + delay]

MarkBucketDirty(k, registered) ==
    LET action == RedisFlushAction(dirty[k] + 1, flushTimer[k] # None)
    IN  /\ dirty' = [dirty EXCEPT ![k] = @ + 1]
        /\ CASE action = "keep_timer" ->
                  timers' = registered /\ UNCHANGED flushTimer
             [] action = "accelerate_timer" ->
                  ScheduleRedisFlush(k, EarlyFlushDelay, TRUE, registered)
             [] OTHER ->
                  ScheduleRedisFlush(k, FlushInterval, FALSE, registered)

(* Mutants of the flush: the timer state is not cleared; Redis is not      *)
(* written; one update is counted instead of the coalesced ones.           *)
FlushKeepingTimerState(k) ==
    /\ redis' = [redis EXCEPT ![k] = bucket[k]]
    /\ dirty' = [dirty EXCEPT ![k] = 0]
    /\ UNCHANGED <<flushTimer, metrics>>
FlushWithoutWrite(k) ==
    /\ dirty' = [dirty EXCEPT ![k] = 0]
    /\ flushTimer' = [flushTimer EXCEPT ![k] = None]
    /\ UNCHANGED <<redis, metrics>>
FlushCountingOneUpdate(k) ==
    /\ redis' = [redis EXCEPT ![k] = bucket[k]]
    /\ dirty' = [dirty EXCEPT ![k] = 0]
    /\ flushTimer' = [flushTimer EXCEPT ![k] = None]
    /\ metrics' = [metrics EXCEPT !.redisFlushes = @ + 1, !.updatesFlushed = @ + 1]

(* _flush_bucket_to_redis.  The timer it deletes is the one being fired.   *)
FlushBucketToRedis(k) ==
    IF dirty[k] = 0
    THEN UNCHANGED <<redis, dirty, flushTimer, metrics>>
    ELSE /\ redis' = [redis EXCEPT ![k] = bucket[k]]
         /\ dirty' = [dirty EXCEPT ![k] = 0]
         /\ flushTimer' = [flushTimer EXCEPT ![k] = None]
         /\ metrics' = [metrics EXCEPT
                !.redisFlushes = @ + 1,
                !.updatesFlushed = @ + dirty[k],
                !.updatesCoalesced = @ + (dirty[k] - 1)]

-----------------------------------------------------------------------------
(* process_element                                                         *)

(* The source hands the operator the next record of this type and key.     *)
TakeRecord(type, k) ==
    /\ now <= LastEventTime
    /\ consumed[type][k] < produced[type][k]
    /\ consumed' = [consumed EXCEPT ![type][k] = @ + 1]
    /\ lastEvent' = now

(* A record that is not a CtrEvent, or a click its bucket cannot hold.     *)
DeadLetter(type, k) ==
    LET ensured == EnsureMetricsTimer(k, metricsTimer, timers)
    IN  /\ TakeRecord(type, k)
        /\ type # "invalid" => ~AcceptsEvent(type, LoadBucketState(k))
        /\ timers' = ensured.timers
        /\ metricsTimer' = ensured.metricsTimer
        /\ unflushed' = [unflushed EXCEPT ![k] = @ + 1]
        /\ CountAndLog([metrics EXCEPT !.processed = @ + 1, !.deadLetters = @ + 1])
        /\ UNCHANGED <<now, mode, produced, keyedState, redis, deadLetters,
                       checkpoint, restarts>>

Counted(type) ==
    IF type = "impression"
    THEN [metrics EXCEPT !.processed = @ + 1, !.impressions = @ + 1]
    ELSE [metrics EXCEPT !.processed = @ + 1, !.clicks = @ + 1]

(* A valid event in per_event mode: keyed state and Redis together.        *)
AcceptPerEvent(type, k) ==
    LET ensured == EnsureMetricsTimer(k, metricsTimer, timers)
        updated == ApplyEvent(type, LoadBucketState(k))
    IN  /\ mode = "per_event"
        /\ TakeRecord(type, k)
        /\ type # "invalid" /\ AcceptsEvent(type, LoadBucketState(k))
        /\ bucket' = [bucket EXCEPT ![k] = updated]
        /\ redis' = [redis EXCEPT ![k] = updated]
        /\ timers' = ensured.timers
        /\ metricsTimer' = ensured.metricsTimer
        /\ CountAndLog([Counted(type) EXCEPT !.redisFlushes = @ + 1,
                                             !.updatesFlushed = @ + 1])
        /\ UNCHANGED <<now, mode, produced, dirty, flushTimer, deadLetters,
                       unflushed, checkpoint, restarts>>

(* A valid event in periodic mode: keyed state now, Redis when the bucket's *)
(* timer fires.                                                            *)
AcceptPeriodic(type, k) ==
    LET ensured == EnsureMetricsTimer(k, metricsTimer, timers)
    IN  /\ mode = "periodic"
        /\ TakeRecord(type, k)
        /\ type # "invalid" /\ AcceptsEvent(type, LoadBucketState(k))
        /\ bucket' = [bucket EXCEPT ![k] = ApplyEvent(type, LoadBucketState(k))]
        /\ MarkBucketDirty(k, ensured.timers)
        /\ metricsTimer' = ensured.metricsTimer
        /\ CountAndLog(Counted(type))
        /\ UNCHANGED <<now, mode, produced, redis, deadLetters, unflushed,
                       checkpoint, restarts>>

-----------------------------------------------------------------------------
(* on_timer                                                                *)

(* Mutant: a timer that finds fresh activity asks for no other timer.      *)
MetricsTimerFiresOnce(k, remaining) ==
    /\ timers' = remaining
    /\ metricsTimer' = None
    /\ lastLogged' = IF now - lastEvent >= MetricsInterval
                     THEN metrics.processed ELSE lastLogged

(* The metrics half: a full idle interval logs the partial window, a       *)
(* shorter one asks for another timer.                                     *)
MetricsTimerFires(k, remaining) ==
    LET unlogged == metrics.processed # lastLogged
        idle == now - lastEvent >= MetricsInterval
        ensured == EnsureMetricsTimer(k, None, remaining)
    IN  IF unlogged /\ ~idle
        THEN /\ timers' = ensured.timers
             /\ metricsTimer' = ensured.metricsTimer
             /\ UNCHANGED lastLogged
        ELSE /\ timers' = remaining
             /\ metricsTimer' = None
             /\ lastLogged' = metrics.processed

(* Flink fires the timers that are due in timestamp order.  Firing without *)
(* bucket state raises in the code; FlushIsScheduled excludes it.          *)
OnTimer(k, timestamp) ==
    LET remaining == timers \ {<<k, timestamp>>}
    IN  /\ <<k, timestamp>> \in timers
        /\ timestamp <= now
        /\ \A timer \in timers : timestamp <= timer[2]
        /\ IF flushTimer[k] = timestamp
           THEN bucket[k] # None /\ FlushBucketToRedis(k)
           ELSE UNCHANGED <<redis, dirty, flushTimer, metrics>>
        /\ IF timestamp = metricsTimer
           THEN MetricsTimerFires(k, remaining)
           ELSE timers' = remaining /\ UNCHANGED <<metricsTimer, lastLogged>>
        /\ UNCHANGED <<now, mode, produced, consumed, bucket, deadLetters, unflushed,
                       lastEvent, checkpoint, restarts>>

-----------------------------------------------------------------------------
(* The environment                                                         *)

(* The simulator publishes a click only after its impression.              *)
Produce(type, k) ==
    /\ produced[type][k] < MaxProduced[type]
    /\ type = "click" => produced["click"][k] < produced["impression"][k]
    /\ produced' = [produced EXCEPT ![type][k] = @ + 1]
    /\ UNCHANGED <<now, mode, consumed, keyedState, timers, redis, deadLetters,
                   unflushed, metricsTimer, lastEvent, lastLogged, metrics,
                   checkpoint, restarts>>

Tick ==
    /\ now < MaxTime
    /\ now' = now + 1
    /\ UNCHANGED <<mode, produced, consumed, keyedState, timers, redis, deadLetters,
                   unflushed, metricsTimer, lastEvent, lastLogged, metrics,
                   checkpoint, restarts>>

(* Mutants: the timer, or the whole dirty mark, kept in operator memory    *)
(* instead of keyed state; a sink without delivery guarantee.              *)
SnapshotWithoutTimerState ==
    [consumed |-> consumed, bucket |-> bucket, dirty |-> dirty,
     flushTimer |-> [k \in Keys |-> None], timers |-> timers]
SnapshotWithoutDirtyMark ==
    [consumed |-> consumed, bucket |-> bucket, dirty |-> [k \in Keys |-> 0],
     flushTimer |-> [k \in Keys |-> None], timers |-> timers]
FlushSinkNever == UNCHANGED <<deadLetters, unflushed>>

(* What open() keeps in keyed state, and so in a checkpoint.               *)
Snapshot ==
    [consumed |-> consumed, bucket |-> bucket, dirty |-> dirty,
     flushTimer |-> flushTimer, timers |-> timers]

(* The AT_LEAST_ONCE sink flushes before a checkpoint completes.           *)
FlushSink ==
    /\ deadLetters' = [k \in Keys |-> deadLetters[k] + unflushed[k]]
    /\ unflushed' = [k \in Keys |-> 0]

CompleteCheckpoint ==
    /\ Checkpointing
    /\ checkpoint' = Snapshot
    /\ FlushSink
    /\ UNCHANGED <<now, mode, produced, consumed, keyedState, timers, redis,
                   metricsTimer, lastEvent, lastLogged, metrics, restarts>>

(* A new operator runs __init__ and open: its memory is new, and what the  *)
(* old one's sink had not flushed may or may not have reached the topic.   *)
NewOperator(kind) ==
    /\ kind \in RestartKinds
    /\ restarts < MaxRestarts
    /\ restarts' = restarts + 1
    /\ metricsTimer' = None
    /\ lastEvent' = now
    /\ lastLogged' = 0
    /\ metrics' = ZeroMetrics
    /\ unflushed' = [k \in Keys |-> 0]
    /\ \E sent \in [Keys -> UNION {0 .. unflushed[k] : k \in Keys}] :
          /\ \A k \in Keys : sent[k] <= unflushed[k]
          /\ deadLetters' = [k \in Keys |-> deadLetters[k] + sent[k]]

(* The task fails (any RedisError does it) and Flink restores the last     *)
(* checkpoint.  Redis keeps what was written to it.                        *)
RestoreFromCheckpoint ==
    /\ checkpoint # None
    /\ consumed' = checkpoint.consumed
    /\ bucket' = checkpoint.bucket
    /\ dirty' = checkpoint.dirty
    /\ flushTimer' = checkpoint.flushTimer
    /\ timers' = checkpoint.timers
    /\ NewOperator("restore")
    /\ UNCHANGED <<now, mode, produced, redis, checkpoint>>

(* The task fails before a checkpoint completes, or the command is stopped *)
(* and started again.  close() flushes no dirty bucket, and the source     *)
(* goes to earliest() or latest() whatever offsets the group committed.    *)
FreshStart ==
    /\ consumed' = IF StartingOffsets = "earliest" THEN NoRecords ELSE produced
    /\ bucket' = [k \in Keys |-> None]
    /\ dirty' = [k \in Keys |-> 0]
    /\ flushTimer' = [k \in Keys |-> None]
    /\ timers' = {}
    /\ checkpoint' = None
    /\ NewOperator("fresh")
    /\ UNCHANGED <<now, mode, produced, redis>>

-----------------------------------------------------------------------------
ProcessElement(type, k) ==
    DeadLetter(type, k) \/ AcceptPerEvent(type, k) \/ AcceptPeriodic(type, k)

FireTimer(k) == \E timer \in timers : timer[1] = k /\ OnTimer(k, timer[2])

Next ==
    \/ \E type \in EventTypes, k \in Keys : Produce(type, k) \/ ProcessElement(type, k)
    \/ \E k \in Keys : FireTimer(k)
    \/ Tick
    \/ CompleteCheckpoint
    \/ RestoreFromCheckpoint
    \/ FreshStart

Spec == Init /\ [][Next]_vars

(* Time passes, and the task's mailbox runs the timers that are due.       *)
FairSpec == Spec /\ WF_vars(Tick) /\ \A k \in Keys : WF_vars(FireTimer(k))

(* The counters of a bucket: the operator's, or Redis' until it loads them. *)
CurrentCounters(k) ==
    ExistingOrNew(IF bucket[k] # None THEN bucket[k] ELSE redis[k])

-----------------------------------------------------------------------------
(* Invariants of every run                                                 *)

(* A bucket has updates Redis has not seen exactly when a flush timer is    *)
(* recorded for it; that timer is registered with Flink and, when it fires, *)
(* finds bucket state.  Otherwise the updates would never reach Redis, or   *)
(* on_timer would raise (run_realtime_ctr.py, 265-276 and 334-380).         *)
FlushIsScheduled ==
    \A k \in Keys :
        /\ dirty[k] > 0 <=> flushTimer[k] # None
        /\ flushTimer[k] # None => /\ <<k, flushTimer[k]>> \in timers
                                   /\ bucket[k] # None

-----------------------------------------------------------------------------
(* Properties of runs without restarts                                     *)

(* Redis holds the latest counters of every bucket that is not dirty:      *)
(* marking, flushing and the early flush never leave a stale clean bucket. *)
CleanBucketIsInRedis ==
    \A k \in Keys : bucket[k] # None /\ dirty[k] = 0 => redis[k] = bucket[k]

(* Every record handled is counted exactly once: an impression in its      *)
(* bucket, a click in its bucket or in the dead-letter topic, an invalid   *)
(* record in the dead-letter topic, all on top of what Redis held at first.*)
EveryRecordCountedOnce ==
    \A k \in Keys :
        LET start == ExistingOrNew(Seed[k])
            b == CurrentCounters(k)
        IN  /\ b.impressions = start.impressions + consumed["impression"][k]
            /\ b.clicks + deadLetters[k] + unflushed[k]
                 = start.clicks + consumed["click"][k] + consumed["invalid"][k]

(* The flush counters account for every valid event: it has been flushed,  *)
(* or is in the dirty count of its bucket (periodic), and a flush of n     *)
(* updates coalesces n - 1 (run_realtime_ctr.py, 250-262 and 382-403;      *)
(* docs/desc/run_realtime_ctr.md, 201-205).                                *)
FlushAccounting ==
    /\ metrics.updatesFlushed + SumFunction(dirty) = ValidEvents
    /\ metrics.redisFlushes + metrics.updatesCoalesced = metrics.updatesFlushed
    /\ mode = "per_event" => metrics.updatesCoalesced = 0

(* Under a stream of updates the flush deadline of a dirty bucket moves    *)
(* earlier, except once, when the threshold is reached with the timer      *)
(* already overdue: updates cannot starve the flush.                       *)
DeadlineSlipsAtMostOnce ==
    [][\A k \in Keys :
          dirty[k] > 0 /\ dirty'[k] > 0 =>
              \/ flushTimer'[k] <= flushTimer[k]
              \/ dirty[k] < MaxUpdates /\ dirty'[k] = MaxUpdates /\ flushTimer[k] <= now
      ]_vars

(* The counters readers see in Redis never go back.                        *)
RedisNeverRegresses ==
    [][\A k \in Keys :
          redis[k] # None => /\ redis'[k] # None
                             /\ redis[k].impressions <= redis'[k].impressions
                             /\ redis[k].clicks <= redis'[k].clicks
      ]_vars

-----------------------------------------------------------------------------
(* Properties of runs with restarts                                        *)

(* Flink's keyed state and the source offsets move together: since the     *)
(* last checkpoint a bucket has gained exactly the impressions handled     *)
(* since, and no more clicks than were handled since.                      *)
ExactlyOnceSinceCheckpoint ==
    checkpoint # None =>
        \A k \in Keys : checkpoint.bucket[k] # None =>
            /\ bucket[k] # None
            /\ bucket[k].impressions + checkpoint.consumed["impression"][k]
                 = checkpoint.bucket[k].impressions + consumed["impression"][k]
            /\ checkpoint.bucket[k].clicks <= bucket[k].clicks
            /\ bucket[k].clicks + checkpoint.consumed["click"][k]
                 <= checkpoint.bucket[k].clicks + consumed["click"][k]

(* Read from the earliest offsets, no record before the source's position  *)
(* is lost, whatever failed: each is in its bucket or is, at least once,   *)
(* a dead letter.  (Some are counted twice: see RedisMatchesTopics.)       *)
NoRecordLost ==
    \A k \in Keys :
        LET start == ExistingOrNew(Seed[k])
            b == CurrentCounters(k)
        IN  /\ start.impressions + consumed["impression"][k] <= b.impressions
            /\ start.clicks + consumed["click"][k] + consumed["invalid"][k]
                 <= b.clicks + deadLetters[k] + unflushed[k]

(* A restore takes keyed state back and leaves Redis ahead of it.  Once    *)
(* the replay has caught up and the bucket is clean, Redis equals keyed    *)
(* state again: the replay always marks such a bucket dirty.               *)
Drained(k) == \A type \in EventTypes : consumed[type][k] = produced[type][k]

RedisAgreesWhenDrained ==
    \A k \in Keys :
        Drained(k) /\ bucket[k] # None /\ dirty[k] = 0 => redis[k] = bucket[k]

-----------------------------------------------------------------------------
(* Liveness                                                                *)

(* Every processed record is eventually covered by a CTR_PROCESSOR_METRICS *)
(* line: the metrics timer flushes a partial window.                       *)
MetricsEventuallyLogged ==
    metrics.processed # lastLogged ~> metrics.processed = lastLogged

(* The job implements the store of CtrStore: its counters are those of the *)
(* operator, or Redis' own before the operator has loaded a bucket.        *)
Store == INSTANCE CtrStore WITH
    counted <- [k \in Keys |-> CurrentCounters(k)],
    published <- redis

ImplementsCtrStore == Store!FairSpec

-----------------------------------------------------------------------------
(* Claims of the repository that the code does not meet                    *)

(* experiment_service.py:674-682 takes the difference of the Redis         *)
(* counters for the traffic produced: with all of it handled and flushed,  *)
(* Redis has gained the impressions in the topic.                          *)
RedisMatchesTopics ==
    \A k \in Keys :
        Drained(k) /\ dirty[k] = 0 =>
            ExistingOrNew(redis[k]).impressions
              = ExistingOrNew(Seed[k]).impressions + produced["impression"][k]

=============================================================================
