------------------------- MODULE RealtimeCtrProofs -------------------------
(***************************************************************************)
(* Proofs about RealtimeCtr, for every set of keys, every configuration    *)
(* and every bound: its types and its flush schedule; what holds through   *)
(* any failure and restore (the keyed state against the checkpoint, no     *)
(* record lost, Redis in agreement after a replay); and what holds as long *)
(* as no keyed state is restored, or without any restart (Redis up to      *)
(* date, the flush counters, the store of CtrStore).                       *)
(***************************************************************************)
EXTENDS RealtimeCtr, SumProofs, TLAPS

(* Buckets, loaded and updated, stay buckets.                              *)
LEMMA BucketFacts ==
    ASSUME TypeOK
    PROVE  /\ InitializeBucket \in Bucket
           /\ \A b \in BucketOrNone : ExistingOrNew(b) \in Bucket
           /\ \A k \in Keys : LoadBucketState(k) \in BucketOrNone
  BY NoneAssumption DEF TypeOK, InitializeBucket, Bucket, BucketOrNone, ExistingOrNew,
     LoadBucketState

(* An accepted event turns a bucket into a bucket.                         *)
LEMMA AppliedIsBucket ==
    ASSUME NEW type \in EventTypes, type # "invalid", NEW b \in BucketOrNone,
           AcceptsEvent(type, b)
    PROVE  ApplyEvent(type, b) \in Bucket
  BY NoneAssumption DEF EventTypes, AcceptsEvent, ApplyEvent, ExistingOrNew,
     InitializeBucket, Bucket, BucketOrNone

LEMMA InitType == Init => TypeOK
  BY ConfigAssumption, NoneAssumption
     DEF Init, TypeOK, NoRecords, Offsets, ZeroMetrics, Metrics, BucketOrNone, TimeOrNone

(* What _ensure_metrics_timer returns: timers and the metrics timestamp.   *)
LEMMA EnsuredType ==
    ASSUME NEW k \in Keys, NEW current \in TimeOrNone,
           NEW registered \in SUBSET (Keys \X Nat), now \in Nat
    PROVE  LET ensured == EnsureMetricsTimer(k, current, registered)
           IN  /\ ensured.timers \in SUBSET (Keys \X Nat)
               /\ ensured.metricsTimer \in TimeOrNone
               /\ registered \subseteq ensured.timers
  BY ConfigAssumption DEF EnsureMetricsTimer, TimeOrNone

(* What _mark_bucket_dirty does to the keyed state of its bucket.          *)
LEMMA MarkedType ==
    ASSUME TypeOK, NEW k \in Keys, NEW registered \in SUBSET (Keys \X Nat),
           MarkBucketDirty(k, registered)
    PROVE  /\ dirty' \in [Keys -> Nat]
           /\ flushTimer' \in [Keys -> TimeOrNone]
           /\ timers' \in SUBSET (Keys \X Nat)
  BY ConfigAssumption
     DEF TypeOK, MarkBucketDirty, ScheduleRedisFlush, EarlyFlushDelay, TimeOrNone

LEMMA TakenType ==
    ASSUME TypeOK, NEW type \in EventTypes, NEW k \in Keys, TakeRecord(type, k)
    PROVE  consumed' \in Offsets /\ lastEvent' \in Nat
  BY DEF TypeOK, TakeRecord, Offsets

LEMMA CountedType ==
    ASSUME TypeOK, NEW m \in Metrics, CountAndLog(m)
    PROVE  metrics' \in Metrics /\ lastLogged' \in Nat
  BY DEF TypeOK, CountAndLog, Metrics

(* The counters after a valid event, before any flush.                     *)
LEMMA CountedIsMetrics ==
    ASSUME TypeOK, NEW type \in EventTypes
    PROVE  Counted(type) \in Metrics
<1>1. metrics.processed + 1 \in Nat /\ metrics.impressions + 1 \in Nat
      /\ metrics.clicks + 1 \in Nat
  BY DEF TypeOK, Metrics
<1>2. CASE type = "impression"
  BY <1>1, <1>2, Zenon DEF Counted, TypeOK, Metrics
<1>3. CASE type # "impression"
  BY <1>1, <1>3, Zenon DEF Counted, TypeOK, Metrics
<1> QED BY <1>2, <1>3

(* A flush keeps the types of what it writes.                              *)
LEMMA FlushedType ==
    ASSUME TypeOK, NEW k \in Keys, FlushBucketToRedis(k)
    PROVE  /\ redis' \in [Keys -> BucketOrNone]
           /\ dirty' \in [Keys -> Nat]
           /\ flushTimer' \in [Keys -> TimeOrNone]
           /\ metrics' \in Metrics
<1>1. CASE dirty[k] = 0
  BY <1>1 DEF FlushBucketToRedis, TypeOK
<1>2. CASE dirty[k] # 0
  <2>1. /\ metrics.redisFlushes + 1 \in Nat
        /\ metrics.updatesFlushed + dirty[k] \in Nat
        /\ metrics.updatesCoalesced + (dirty[k] - 1) \in Nat
    BY <1>2 DEF TypeOK, Metrics
  <2>2. metrics' \in Metrics
    BY <1>2, <2>1, Zenon DEF FlushBucketToRedis, TypeOK, Metrics
  <2> QED
    BY <1>2, <2>2 DEF FlushBucketToRedis, TypeOK, TimeOrNone
<1> QED BY <1>1, <1>2

LEMMA StepType == TypeOK /\ [Next]_vars => TypeOK'
<1> SUFFICES ASSUME TypeOK, [Next]_vars PROVE TypeOK'
  OBVIOUS
<1>1. ASSUME NEW type \in EventTypes, NEW k \in Keys, Produce(type, k) PROVE TypeOK'
  BY <1>1 DEF TypeOK, Produce, Offsets, keyedState
<1>2. ASSUME NEW type \in EventTypes, NEW k \in Keys, DeadLetter(type, k) PROVE TypeOK'
  <2>1. timers' \in SUBSET (Keys \X Nat) /\ metricsTimer' \in TimeOrNone
    BY <1>2, EnsuredType DEF DeadLetter, TypeOK
  <2>2. metrics' \in Metrics /\ lastLogged' \in Nat
    <3>1. [metrics EXCEPT !.processed = @ + 1, !.deadLetters = @ + 1] \in Metrics
      <4>1. metrics.processed + 1 \in Nat /\ metrics.deadLetters + 1 \in Nat
        BY DEF TypeOK, Metrics
      <4> QED BY <4>1, Zenon DEF TypeOK, Metrics
    <3> QED BY <1>2, <3>1, CountedType DEF DeadLetter
  <2>3. consumed' \in Offsets /\ lastEvent' \in Nat
    BY <1>2, TakenType DEF DeadLetter
  <2> QED
    BY <1>2, <2>1, <2>2, <2>3 DEF DeadLetter, TypeOK, keyedState
<1>3. ASSUME NEW type \in EventTypes, NEW k \in Keys, AcceptPerEvent(type, k) PROVE TypeOK'
  <2>1. timers' \in SUBSET (Keys \X Nat) /\ metricsTimer' \in TimeOrNone
    BY <1>3, EnsuredType DEF AcceptPerEvent, TypeOK
  <2>2. metrics' \in Metrics /\ lastLogged' \in Nat
    <3> DEFINE m == Counted(type)
    <3>1. m \in Metrics
      BY CountedIsMetrics
    <3> HIDE DEF m
    <3>2. m.redisFlushes + 1 \in Nat /\ m.updatesFlushed + 1 \in Nat
      BY <3>1 DEF Metrics
    <3>3. [m EXCEPT !.redisFlushes = @ + 1, !.updatesFlushed = @ + 1] \in Metrics
      BY <3>1, <3>2, Zenon DEF Metrics
    <3> QED BY <1>3, <3>3, CountedType DEF AcceptPerEvent, m
  <2>3. consumed' \in Offsets /\ lastEvent' \in Nat
    BY <1>3, TakenType DEF AcceptPerEvent
  <2>4. ApplyEvent(type, LoadBucketState(k)) \in BucketOrNone
    BY <1>3, BucketFacts, AppliedIsBucket DEF AcceptPerEvent, BucketOrNone
  <2> QED
    BY <1>3, <2>1, <2>2, <2>3, <2>4 DEF AcceptPerEvent, TypeOK
<1>4. ASSUME NEW type \in EventTypes, NEW k \in Keys, AcceptPeriodic(type, k) PROVE TypeOK'
  <2>1. metricsTimer' \in TimeOrNone
    BY <1>4, EnsuredType DEF AcceptPeriodic, TypeOK
  <2>2. metrics' \in Metrics /\ lastLogged' \in Nat
    BY <1>4, CountedIsMetrics, CountedType DEF AcceptPeriodic
  <2>3. consumed' \in Offsets /\ lastEvent' \in Nat
    BY <1>4, TakenType DEF AcceptPeriodic
  <2>4. ApplyEvent(type, LoadBucketState(k)) \in BucketOrNone
    BY <1>4, BucketFacts, AppliedIsBucket DEF AcceptPeriodic, BucketOrNone
  <2>5. /\ dirty' \in [Keys -> Nat]
        /\ flushTimer' \in [Keys -> TimeOrNone]
        /\ timers' \in SUBSET (Keys \X Nat)
    BY <1>4, EnsuredType, MarkedType DEF AcceptPeriodic, TypeOK
  <2> QED
    BY <1>4, <2>1, <2>2, <2>3, <2>4, <2>5 DEF AcceptPeriodic, TypeOK
<1>5. ASSUME NEW k \in Keys, NEW t \in Nat, OnTimer(k, t) PROVE TypeOK'
  <2> DEFINE remaining == timers \ {<<k, t>>}
  <2>1. remaining \in SUBSET (Keys \X Nat)
    BY DEF TypeOK
  <2>2. /\ timers' \in SUBSET (Keys \X Nat)
        /\ metricsTimer' \in TimeOrNone
        /\ lastLogged' \in Nat
    <3>1. CASE t = metricsTimer
      <4>1. MetricsTimerFires(k, remaining)
        BY <1>5, <3>1 DEF OnTimer
      <4>2. metrics.processed \in Nat /\ None \in TimeOrNone /\ now \in Nat
        BY DEF TypeOK, Metrics, TimeOrNone
      <4>3. LET ensured == EnsureMetricsTimer(k, None, remaining)
            IN  ensured.timers \in SUBSET (Keys \X Nat) /\ ensured.metricsTimer \in TimeOrNone
        <5> HIDE DEF remaining
        <5> QED BY <2>1, <4>2, EnsuredType
      <4> QED BY <2>1, <4>1, <4>2, <4>3 DEF MetricsTimerFires, TypeOK
    <3>2. CASE t # metricsTimer
      BY <1>5, <2>1, <3>2 DEF OnTimer, TypeOK
    <3> QED BY <3>1, <3>2
  <2>3. /\ redis' \in [Keys -> BucketOrNone]
        /\ dirty' \in [Keys -> Nat]
        /\ flushTimer' \in [Keys -> TimeOrNone]
        /\ metrics' \in Metrics
    BY <1>5, FlushedType DEF OnTimer, TypeOK
  <2> QED
    BY <1>5, <2>2, <2>3 DEF OnTimer, TypeOK
<1>6. CASE Tick
  BY <1>6 DEF TypeOK, Tick, keyedState
<1>7. CASE CompleteCheckpoint
  BY <1>7 DEF TypeOK, CompleteCheckpoint, Snapshot, FlushSink, Checkpoint, keyedState
<1>8. ASSUME NEW kind, NewOperator(kind)
      PROVE  /\ restarts' \in Nat /\ metricsTimer' \in TimeOrNone /\ lastEvent' \in Nat
             /\ lastLogged' \in Nat /\ metrics' \in Metrics
             /\ unflushed' \in [Keys -> Nat] /\ deadLetters' \in [Keys -> Nat]
  <2>1. PICK sent \in [Keys -> UNION {0 .. unflushed[k] : k \in Keys}] :
           deadLetters' = [k \in Keys |-> deadLetters[k] + sent[k]]
    BY <1>8 DEF NewOperator
  <2>2. \A k \in Keys : sent[k] \in Nat
    BY <2>1 DEF TypeOK
  <2>3. deadLetters' \in [Keys -> Nat]
    BY <2>1, <2>2 DEF TypeOK
  <2> QED
    BY <1>8, <2>3 DEF NewOperator, TypeOK, TimeOrNone, Metrics, ZeroMetrics
<1>9. CASE RestoreFromCheckpoint
  <2>1. checkpoint \in Checkpoint
    BY <1>9 DEF RestoreFromCheckpoint, TypeOK
  <2> QED
    BY <1>8, <1>9, <2>1 DEF RestoreFromCheckpoint, TypeOK, Checkpoint
<1>10. CASE FreshStart
  BY <1>8, <1>10 DEF FreshStart, TypeOK, Offsets, NoRecords, BucketOrNone, TimeOrNone
<1>11. CASE UNCHANGED vars
  BY <1>11 DEF TypeOK, vars
<1> QED
  BY <1>1, <1>2, <1>3, <1>4, <1>5, <1>6, <1>7, <1>9, <1>10, <1>11
     DEF Next, ProcessElement, FireTimer, TypeOK

(* Every variable keeps its type; in particular a bucket never has more    *)
(* clicks than impressions, in keyed state, in Redis or in a checkpoint.   *)
THEOREM TypeCorrect == Spec => []TypeOK
<1> QED BY InitType, StepType, PTL DEF Spec

-----------------------------------------------------------------------------
(* FlushIsScheduled.  A restore brings back the keyed state and the timers *)
(* of the checkpoint, so the checkpoint must satisfy the same relation.    *)

Scheduled(k, b, d, f, ts) ==
    /\ d[k] > 0 <=> f[k] # None
    /\ f[k] # None => <<k, f[k]>> \in ts /\ b[k] # None

ScheduleInv ==
    /\ FlushIsScheduled
    /\ checkpoint # None =>
         \A k \in Keys : Scheduled(k, checkpoint.bucket, checkpoint.dirty,
                                   checkpoint.flushTimer, checkpoint.timers)

LEMMA InitScheduled == Init => ScheduleInv
  BY DEF Init, ScheduleInv, FlushIsScheduled

(* A bucket marked dirty has a flush timer registered, whatever the action *)
(* of _redis_flush_action, and the other buckets keep theirs.              *)
LEMMA MarkedIsScheduled ==
    ASSUME TypeOK, FlushIsScheduled, NEW k \in Keys,
           NEW registered \in SUBSET (Keys \X Nat), timers \subseteq registered,
           MarkBucketDirty(k, registered)
    PROVE  /\ dirty'[k] > 0 /\ flushTimer'[k] # None
           /\ <<k, flushTimer'[k]>> \in timers'
           /\ \A other \in Keys \ {k} :
                /\ dirty'[other] = dirty[other]
                /\ flushTimer'[other] = flushTimer[other]
                /\ <<other, flushTimer[other]>> \in timers
                     => <<other, flushTimer[other]>> \in timers'
<1>1. dirty' = [dirty EXCEPT ![k] = @ + 1] /\ dirty'[k] > 0
  BY DEF MarkBucketDirty, TypeOK
<1>2. now + FlushInterval # None /\ now + EarlyFlushDelay # None
  BY ConfigAssumption, NoneAssumption DEF TypeOK, EarlyFlushDelay
<1>3. \/ flushTimer[k] # None /\ timers' = registered /\ UNCHANGED flushTimer
      \/ \E delay \in {EarlyFlushDelay, FlushInterval} :
            /\ timers' = (registered \ {<<k, flushTimer[k]>>}) \cup {<<k, now + delay>>}
            /\ flushTimer' = [flushTimer EXCEPT ![k] = now + delay]
  BY DEF MarkBucketDirty, RedisFlushAction, ScheduleRedisFlush
<1>4. CASE flushTimer[k] # None /\ timers' = registered /\ UNCHANGED flushTimer
  BY <1>1, <1>4 DEF FlushIsScheduled, TypeOK
<1>5. ASSUME NEW delay \in {EarlyFlushDelay, FlushInterval},
             timers' = (registered \ {<<k, flushTimer[k]>>}) \cup {<<k, now + delay>>},
             flushTimer' = [flushTimer EXCEPT ![k] = now + delay]
      PROVE  /\ flushTimer'[k] # None
             /\ <<k, flushTimer'[k]>> \in timers'
             /\ \A other \in Keys \ {k} :
                  /\ flushTimer'[other] = flushTimer[other]
                  /\ <<other, flushTimer[other]>> \in timers
                       => <<other, flushTimer[other]>> \in timers'
  BY <1>2, <1>5 DEF TypeOK
<1> QED BY <1>1, <1>3, <1>4, <1>5 DEF TypeOK

LEMMA StepScheduled == TypeOK /\ ScheduleInv /\ [Next]_vars => ScheduleInv'
<1> SUFFICES ASSUME TypeOK, ScheduleInv, [Next]_vars PROVE ScheduleInv'
  OBVIOUS
<1> USE DEF ScheduleInv
<1>1. ASSUME NEW type \in EventTypes, NEW k \in Keys, Produce(type, k) PROVE ScheduleInv'
  BY <1>1 DEF Produce, keyedState, FlushIsScheduled
<1>2. ASSUME NEW type \in EventTypes, NEW k \in Keys, DeadLetter(type, k) PROVE ScheduleInv'
  <2>1. timers \subseteq timers'
    BY <1>2, EnsuredType DEF DeadLetter, TypeOK
  <2> QED BY <1>2, <2>1 DEF DeadLetter, keyedState, FlushIsScheduled
<1>3. ASSUME NEW type \in EventTypes, NEW k \in Keys, AcceptPerEvent(type, k)
      PROVE  ScheduleInv'
  <2>1. timers \subseteq timers'
    BY <1>3, EnsuredType DEF AcceptPerEvent, TypeOK
  <2>2. bucket'[k] # None /\ \A other \in Keys \ {k} : bucket'[other] = bucket[other]
    BY <1>3, NoneAssumption, BucketFacts, AppliedIsBucket DEF AcceptPerEvent, TypeOK
  <2> QED BY <1>3, <2>1, <2>2 DEF AcceptPerEvent, FlushIsScheduled
<1>4. ASSUME NEW type \in EventTypes, NEW k \in Keys, AcceptPeriodic(type, k)
      PROVE  ScheduleInv'
  <2> DEFINE registered == EnsureMetricsTimer(k, metricsTimer, timers).timers
  <2>1. registered \in SUBSET (Keys \X Nat) /\ timers \subseteq registered
    BY EnsuredType DEF TypeOK
  <2>2. MarkBucketDirty(k, registered)
    BY <1>4 DEF AcceptPeriodic
  <2> HIDE DEF registered
  <2>3. bucket'[k] # None /\ \A other \in Keys \ {k} : bucket'[other] = bucket[other]
    BY <1>4, NoneAssumption, BucketFacts, AppliedIsBucket DEF AcceptPeriodic, TypeOK
  <2>4. FlushIsScheduled'
    BY <2>1, <2>2, <2>3, MarkedIsScheduled DEF FlushIsScheduled
  <2> QED BY <1>4, <2>4 DEF AcceptPeriodic
<1>5. ASSUME NEW k \in Keys, NEW t \in Nat, OnTimer(k, t) PROVE ScheduleInv'
  <2>1. timers \ {<<k, t>>} \subseteq timers'
    BY <1>5 DEF OnTimer, MetricsTimerFires, EnsureMetricsTimer
  <2>2. CASE flushTimer[k] = t
    <3>1. dirty[k] # 0 /\ FlushBucketToRedis(k)
      BY <1>5, <2>2, NoneAssumption DEF OnTimer, FlushIsScheduled, TypeOK
    <3> QED
      BY <1>5, <2>1, <3>1 DEF OnTimer, FlushBucketToRedis, FlushIsScheduled, TypeOK
  <2>3. CASE flushTimer[k] # t
    BY <1>5, <2>1, <2>3 DEF OnTimer, FlushIsScheduled
  <2> QED BY <2>2, <2>3
<1>6. CASE Tick
  BY <1>6 DEF Tick, keyedState, FlushIsScheduled
<1>7. CASE CompleteCheckpoint
  BY <1>7 DEF CompleteCheckpoint, Snapshot, keyedState, FlushIsScheduled, Scheduled
<1>8. CASE RestoreFromCheckpoint
  BY <1>8 DEF RestoreFromCheckpoint, FlushIsScheduled, Scheduled
<1>9. CASE FreshStart
  BY <1>9 DEF FreshStart, FlushIsScheduled
<1>10. CASE UNCHANGED vars
  BY <1>10 DEF vars, FlushIsScheduled
<1> QED
  BY <1>1, <1>2, <1>3, <1>4, <1>5, <1>6, <1>7, <1>8, <1>9, <1>10
     DEF Next, ProcessElement, FireTimer, TypeOK

(* A bucket is dirty exactly when it has a flush timer registered, through *)
(* accelerations, flushes, checkpoints and restarts; no update is stranded *)
(* and on_timer never raises (run_realtime_ctr.py, 265-276 and 334-380).   *)
THEOREM FlushScheduled == Spec => []FlushIsScheduled
<1>1. TypeOK /\ ScheduleInv /\ [Next]_vars => ScheduleInv'
  BY StepScheduled
<1>2. ScheduleInv => FlushIsScheduled
  BY DEF ScheduleInv
<1> QED BY InitScheduled, TypeCorrect, <1>1, <1>2, PTL DEF Spec

-----------------------------------------------------------------------------
(* The keyed state against its checkpoint and against Redis.               *)

(* The counters of one bucket do not exceed those of another.              *)
NotAhead(a, b) == a.impressions <= b.impressions /\ a.clicks <= b.clicks

(* What a valid event does to the bucket it is loaded from.                *)
LEMMA AppliedGrows ==
    ASSUME NEW type \in EventTypes, type # "invalid", NEW b \in BucketOrNone
    PROVE  /\ NotAhead(ExistingOrNew(b), ApplyEvent(type, b))
           /\ type = "impression" =>
                /\ ApplyEvent(type, b).impressions = ExistingOrNew(b).impressions + 1
                /\ ApplyEvent(type, b).clicks = ExistingOrNew(b).clicks
           /\ type = "click" =>
                /\ ApplyEvent(type, b).impressions = ExistingOrNew(b).impressions
                /\ ApplyEvent(type, b).clicks = ExistingOrNew(b).clicks + 1
  BY NoneAssumption DEF EventTypes, ApplyEvent, ExistingOrNew, InitializeBucket, Bucket,
     BucketOrNone, NotAhead

(* Accepting a record, in either mode, changes only its own bucket.        *)
LEMMA AcceptedBucket ==
    ASSUME TypeOK, NEW type \in EventTypes, NEW k \in Keys,
           AcceptPerEvent(type, k) \/ AcceptPeriodic(type, k)
    PROVE  /\ type # "invalid"
           /\ LoadBucketState(k) \in BucketOrNone
           /\ bucket'[k] = ApplyEvent(type, LoadBucketState(k))
           /\ bucket'[k] \in Bucket
           /\ \A other \in Keys \ {k} : bucket'[other] = bucket[other]
           /\ consumed' = [consumed EXCEPT ![type][k] = @ + 1]
           /\ UNCHANGED <<checkpoint, deadLetters, unflushed, produced, restarts>>
  BY BucketFacts, AppliedIsBucket DEF AcceptPerEvent, AcceptPeriodic, TypeOK, TakeRecord

-----------------------------------------------------------------------------
(* ExactlyOnceSinceCheckpoint                                              *)

SinceCheckpoint(k) ==
    checkpoint.bucket[k] # None =>
        /\ bucket[k] # None
        /\ bucket[k].impressions + checkpoint.consumed["impression"][k]
             = checkpoint.bucket[k].impressions + consumed["impression"][k]
        /\ checkpoint.bucket[k].clicks <= bucket[k].clicks
        /\ bucket[k].clicks + checkpoint.consumed["click"][k]
             <= checkpoint.bucket[k].clicks + consumed["click"][k]

LEMMA CheckpointFields ==
    ASSUME TypeOK, checkpoint # None, NEW k \in Keys
    PROVE  /\ checkpoint.consumed["impression"][k] \in Nat
           /\ checkpoint.consumed["click"][k] \in Nat
           /\ checkpoint.bucket[k] # None => checkpoint.bucket[k].impressions \in Nat
                                             /\ checkpoint.bucket[k].clicks \in Nat
           /\ consumed["impression"][k] \in Nat
           /\ consumed["click"][k] \in Nat
           /\ bucket[k] # None => bucket[k].impressions \in Nat /\ bucket[k].clicks \in Nat
  BY DEF TypeOK, Checkpoint, Offsets, EventTypes, BucketOrNone, Bucket

LEMMA StepExactlyOnce ==
    TypeOK /\ ExactlyOnceSinceCheckpoint /\ [Next]_vars => ExactlyOnceSinceCheckpoint'
<1> SUFFICES ASSUME TypeOK, ExactlyOnceSinceCheckpoint, [Next]_vars, checkpoint' # None,
                    NEW key \in Keys
             PROVE  SinceCheckpoint(key)'
  BY DEF ExactlyOnceSinceCheckpoint, SinceCheckpoint
<1>1. ASSUME UNCHANGED <<checkpoint, bucket, consumed>> PROVE SinceCheckpoint(key)'
  BY <1>1 DEF ExactlyOnceSinceCheckpoint, SinceCheckpoint
<1>2. ASSUME NEW type \in EventTypes, NEW k \in Keys, DeadLetter(type, k)
      PROVE  SinceCheckpoint(key)'
  <2>1. type # "impression" /\ checkpoint' = checkpoint /\ bucket' = bucket
        /\ consumed' = [consumed EXCEPT ![type][k] = @ + 1]
    BY <1>2 DEF DeadLetter, AcceptsEvent, TakeRecord, keyedState, EventTypes
  <2>2. /\ consumed'["impression"][key] = consumed["impression"][key]
        /\ consumed["click"][key] <= consumed'["click"][key]
    BY <2>1 DEF TypeOK, Offsets, EventTypes
  <2>3. consumed'["click"][key] \in Nat
    BY <2>1 DEF TypeOK, Offsets, EventTypes
  <2> QED
    BY <2>1, <2>2, <2>3, CheckpointFields DEF ExactlyOnceSinceCheckpoint, SinceCheckpoint
<1>3. ASSUME NEW type \in EventTypes, NEW k \in Keys,
             AcceptPerEvent(type, k) \/ AcceptPeriodic(type, k)
      PROVE  SinceCheckpoint(key)'
  <2>1. /\ type \in {"impression", "click"} /\ checkpoint' = checkpoint
        /\ bucket'[k] = ApplyEvent(type, LoadBucketState(k))
        /\ \A other \in Keys \ {k} : bucket'[other] = bucket[other]
        /\ consumed' = [consumed EXCEPT ![type][k] = @ + 1]
    BY <1>3, AcceptedBucket DEF EventTypes
  <2>2. CASE key # k
    <3>1. \A t \in {"impression", "click"} : consumed'[t][key] = consumed[t][key]
      BY <2>1, <2>2 DEF TypeOK, Offsets, EventTypes
    <3> QED BY <2>1, <2>2, <3>1 DEF ExactlyOnceSinceCheckpoint, SinceCheckpoint
  <2>3. CASE key = k /\ checkpoint.bucket[k] # None
    <3>1. bucket[k] # None /\ bucket[k] \in Bucket
      BY <2>1, <2>3 DEF ExactlyOnceSinceCheckpoint, TypeOK, BucketOrNone
    <3>2. LoadBucketState(k) = bucket[k] /\ ExistingOrNew(bucket[k]) = bucket[k]
      BY <3>1 DEF LoadBucketState, ExistingOrNew
    <3>3. bucket'[k] # None
      BY <1>3, AcceptedBucket, NoneAssumption
    <3>4. CASE type = "impression"
      <4>1. /\ bucket'[k].impressions = bucket[k].impressions + 1
            /\ bucket'[k].clicks = bucket[k].clicks
        BY <2>1, <3>1, <3>2, <3>4, AppliedGrows DEF EventTypes, BucketOrNone
      <4>2. /\ consumed'["impression"][k] = consumed["impression"][k] + 1
            /\ consumed'["click"][k] = consumed["click"][k]
        BY <2>1, <3>4 DEF TypeOK, Offsets, EventTypes
      <4> QED BY <2>1, <2>3, <3>1, <3>3, <4>1, <4>2, CheckpointFields
              DEF ExactlyOnceSinceCheckpoint, SinceCheckpoint
    <3>5. CASE type = "click"
      <4>1. /\ bucket'[k].impressions = bucket[k].impressions
            /\ bucket'[k].clicks = bucket[k].clicks + 1
        BY <2>1, <3>1, <3>2, <3>5, AppliedGrows DEF EventTypes, BucketOrNone
      <4>2. /\ consumed'["impression"][k] = consumed["impression"][k]
            /\ consumed'["click"][k] = consumed["click"][k] + 1
        BY <2>1, <3>5 DEF TypeOK, Offsets, EventTypes
      <4> QED BY <2>1, <2>3, <3>1, <3>3, <4>1, <4>2, CheckpointFields
              DEF ExactlyOnceSinceCheckpoint, SinceCheckpoint
    <3> QED BY <2>1, <3>4, <3>5
  <2>4. CASE key = k /\ checkpoint.bucket[k] = None
    BY <2>1, <2>4 DEF SinceCheckpoint
  <2> QED BY <2>2, <2>3, <2>4
<1>4. CASE CompleteCheckpoint
  <2>1. /\ checkpoint'.bucket = bucket /\ checkpoint'.consumed = consumed
        /\ bucket' = bucket /\ consumed' = consumed
    BY <1>4 DEF CompleteCheckpoint, Snapshot, keyedState
  <2>2. bucket[key] # None => bucket[key].clicks \in Nat
    BY DEF TypeOK, BucketOrNone, Bucket
  <2>3. consumed["click"][key] \in Nat
    BY DEF TypeOK, Offsets, EventTypes
  <2> QED BY <2>1, <2>2, <2>3 DEF SinceCheckpoint
<1>5. CASE RestoreFromCheckpoint
  <2>1. /\ checkpoint # None /\ checkpoint' = checkpoint
        /\ bucket' = checkpoint.bucket /\ consumed' = checkpoint.consumed
    BY <1>5 DEF RestoreFromCheckpoint
  <2> QED BY <2>1, CheckpointFields DEF SinceCheckpoint
<1>6. CASE FreshStart
  BY <1>6 DEF FreshStart
<1> QED
  <2>1. CASE UNCHANGED <<checkpoint, bucket, consumed>>
    BY <2>1, <1>1
  <2>2. ASSUME NEW type \in EventTypes, NEW k \in Keys, Produce(type, k)
        PROVE  UNCHANGED <<checkpoint, bucket, consumed>>
    BY <2>2 DEF Produce, keyedState
  <2>3. ASSUME NEW k \in Keys, FireTimer(k)
        PROVE  UNCHANGED <<checkpoint, bucket, consumed>>
    BY <2>3 DEF FireTimer, OnTimer
  <2>4. ASSUME Tick \/ UNCHANGED vars PROVE UNCHANGED <<checkpoint, bucket, consumed>>
    BY <2>4 DEF Tick, vars, keyedState
  <2> QED
    BY <1>2, <1>3, <1>4, <1>5, <1>6, <2>1, <2>2, <2>3, <2>4 DEF Next, ProcessElement

(* Flink's guarantee, as this operator uses it: through any number of      *)
(* failures, a bucket has gained since the last checkpoint exactly the     *)
(* impressions handled since (run_realtime_ctr.py, 209-263, 302-332).      *)
THEOREM ExactlyOnce == Spec => []ExactlyOnceSinceCheckpoint
<1>1. Init => ExactlyOnceSinceCheckpoint
  BY DEF Init, ExactlyOnceSinceCheckpoint
<1> QED BY TypeCorrect, <1>1, StepExactlyOnce, PTL DEF Spec

-----------------------------------------------------------------------------
(* CleanBucketIsInRedis and RedisNeverRegresses, as long as no keyed state *)
(* is restored: only a restore can put a bucket behind its Redis copy.     *)

NeverRestored == "restore" \notin RestartKinds

RedisInv ==
    \A k \in Keys : bucket[k] # None =>
        /\ dirty[k] = 0 => redis[k] = bucket[k]
        /\ redis[k] # None => NotAhead(redis[k], bucket[k])

LEMMA InitRedis == Init => RedisInv
  BY DEF Init, RedisInv

(* Loading and updating a bucket never goes behind Redis.                  *)
LEMMA UpdatedNotBehind ==
    ASSUME TypeOK, RedisInv, NEW type \in EventTypes, type # "invalid", NEW k \in Keys,
           redis[k] # None
    PROVE  NotAhead(redis[k], ApplyEvent(type, LoadBucketState(k)))
<1>1. redis[k] \in Bucket /\ bucket[k] \in BucketOrNone /\ redis[k] \in BucketOrNone
  BY DEF TypeOK, BucketOrNone
<1>2. LoadBucketState(k) \in BucketOrNone /\ LoadBucketState(k) # None
      /\ NotAhead(redis[k], LoadBucketState(k))
  BY <1>1 DEF RedisInv, LoadBucketState, NotAhead, Bucket
<1>3. ExistingOrNew(LoadBucketState(k)) = LoadBucketState(k)
  BY <1>2 DEF ExistingOrNew
<1>4. NotAhead(LoadBucketState(k), ApplyEvent(type, LoadBucketState(k)))
  BY <1>2, <1>3, AppliedGrows
<1>5. LoadBucketState(k) \in Bucket
  BY <1>2 DEF BucketOrNone
<1>6. ApplyEvent(type, LoadBucketState(k)).impressions \in Nat
      /\ ApplyEvent(type, LoadBucketState(k)).clicks \in Nat
  BY <1>3, <1>5 DEF ApplyEvent, Bucket
<1> QED BY <1>1, <1>2, <1>4, <1>5, <1>6 DEF NotAhead, Bucket

(* A bucket is not behind itself.                                          *)
LEMMA NotAheadReflexive == ASSUME NEW b \in Bucket PROVE NotAhead(b, b)
  BY DEF NotAhead, Bucket

LEMMA StepRedis ==
    ASSUME NeverRestored, TypeOK, RedisInv, [Next]_vars
    PROVE  /\ RedisInv'
           /\ \A k \in Keys : redis[k] # None => /\ redis'[k] # None
                                                 /\ NotAhead(redis[k], redis'[k])
<1> DEFINE Grows == \A k \in Keys : redis[k] # None => /\ redis'[k] # None
                                                       /\ NotAhead(redis[k], redis'[k])
<1>a. UNCHANGED redis => Grows
  BY NotAheadReflexive DEF TypeOK, BucketOrNone
<1>1. CASE UNCHANGED <<bucket, dirty, redis>>
  BY <1>1, <1>a DEF RedisInv
<1>2. ASSUME NEW type \in EventTypes, NEW k \in Keys, AcceptPerEvent(type, k)
      PROVE  RedisInv' /\ Grows
  <2>1. /\ dirty' = dirty
        /\ bucket' = [bucket EXCEPT ![k] = ApplyEvent(type, LoadBucketState(k))]
        /\ redis' = [redis EXCEPT ![k] = ApplyEvent(type, LoadBucketState(k))]
        /\ type # "invalid"
    BY <1>2 DEF AcceptPerEvent
  <2>2. ApplyEvent(type, LoadBucketState(k)) \in Bucket
    BY <1>2, <2>1, AcceptedBucket DEF TypeOK
  <2>3. redis'[k] = ApplyEvent(type, LoadBucketState(k))
        /\ bucket'[k] = redis'[k] /\ redis'[k] # None
    BY <2>1, <2>2, NoneAssumption DEF TypeOK
  <2>4. RedisInv'
    BY <2>1, <2>2, <2>3, NotAheadReflexive DEF RedisInv, TypeOK
  <2>5. Grows
    BY <2>1, <2>3, UpdatedNotBehind, NotAheadReflexive DEF TypeOK, BucketOrNone
  <2> QED BY <2>4, <2>5
<1>3. ASSUME NEW type \in EventTypes, NEW k \in Keys, AcceptPeriodic(type, k)
      PROVE  RedisInv' /\ Grows
  <2>1. /\ redis' = redis
        /\ bucket' = [bucket EXCEPT ![k] = ApplyEvent(type, LoadBucketState(k))]
        /\ dirty' = [dirty EXCEPT ![k] = @ + 1]
        /\ type # "invalid"
    BY <1>3 DEF AcceptPeriodic, MarkBucketDirty
  <2>2. dirty'[k] # 0
    BY <2>1 DEF TypeOK
  <2>3. redis[k] # None => NotAhead(redis[k], bucket'[k])
    BY <2>1, UpdatedNotBehind DEF TypeOK
  <2>4. RedisInv'
    BY <2>1, <2>2, <2>3 DEF RedisInv, TypeOK
  <2> QED BY <1>a, <2>1, <2>4
<1>4. ASSUME NEW k \in Keys, NEW t \in Nat, OnTimer(k, t) PROVE RedisInv' /\ Grows
  <2>1. CASE UNCHANGED <<redis, dirty>>
    BY <1>4, <1>1, <2>1 DEF OnTimer
  <2>2. CASE /\ bucket[k] # None /\ bucket' = bucket
             /\ redis' = [redis EXCEPT ![k] = bucket[k]]
             /\ dirty' = [dirty EXCEPT ![k] = 0]
    <3>1. bucket[k] \in Bucket
      BY <2>2 DEF TypeOK, BucketOrNone
    <3> QED BY <2>2, <3>1, NotAheadReflexive DEF RedisInv, TypeOK, BucketOrNone
  <2> QED BY <1>4, <2>1, <2>2 DEF OnTimer, FlushBucketToRedis
<1>5. CASE FreshStart
  BY <1>5, <1>a DEF FreshStart, RedisInv
<1>6. ~RestoreFromCheckpoint
  BY DEF NeverRestored, RestoreFromCheckpoint, NewOperator
<1>7. ASSUME NEW type \in EventTypes, NEW k \in Keys, Produce(type, k) \/ DeadLetter(type, k)
      PROVE  UNCHANGED <<bucket, dirty, redis>>
  BY <1>7 DEF Produce, DeadLetter, keyedState
<1>8. ASSUME Tick \/ CompleteCheckpoint \/ UNCHANGED vars
      PROVE  UNCHANGED <<bucket, dirty, redis>>
  BY <1>8 DEF Tick, CompleteCheckpoint, vars, keyedState
<1> QED
  BY <1>1, <1>2, <1>3, <1>4, <1>5, <1>6, <1>7, <1>8
     DEF Next, ProcessElement, FireTimer, TypeOK

LEMMA RedisInvariant == ASSUME NeverRestored PROVE Spec => []RedisInv
<1>1. TypeOK /\ RedisInv /\ [Next]_vars => RedisInv'
  BY StepRedis
<1> QED BY InitRedis, TypeCorrect, <1>1, PTL DEF Spec

(* Without restores, a bucket that is not dirty is in Redis as it is in    *)
(* keyed state (run_realtime_ctr.py, 245-263 and 382-403).                 *)
THEOREM CleanInRedis == ASSUME NeverRestored PROVE Spec => []CleanBucketIsInRedis
<1>1. RedisInv => CleanBucketIsInRedis
  BY DEF RedisInv, CleanBucketIsInRedis
<1> QED BY RedisInvariant, <1>1, PTL

(* Without restores, the counters in Redis never go back, across fresh     *)
(* starts too (run_realtime_ctr.py, 302-332 and 382-403).                  *)
THEOREM RedisMonotonic == ASSUME NeverRestored PROVE Spec => RedisNeverRegresses
<1> DEFINE Forward == \A k \in Keys :
        redis[k] # None => /\ redis'[k] # None
                           /\ redis[k].impressions <= redis'[k].impressions
                           /\ redis[k].clicks <= redis'[k].clicks
<1>1. TypeOK /\ RedisInv /\ [Next]_vars => [Forward]_vars
  BY StepRedis DEF NotAhead
<1>2. Spec => [][Forward]_vars
  BY RedisInvariant, TypeCorrect, <1>1, PTL DEF Spec
<1> QED BY <1>2 DEF RedisNeverRegresses

-----------------------------------------------------------------------------
(* Updates cannot starve the flush of a dirty bucket: only reaching the    *)
(* threshold moves its deadline later, and only if the deadline had passed *)
(* already (services/realtime_ctr.py, 59-71; run_realtime_ctr.py, 334-380).*)
THEOREM DeadlineKept == ASSUME NeverRestored PROVE Spec => DeadlineSlipsAtMostOnce
<1> DEFINE Kept == \A k \in Keys :
        dirty[k] > 0 /\ dirty'[k] > 0 =>
            \/ flushTimer'[k] <= flushTimer[k]
            \/ dirty[k] < MaxUpdates /\ dirty'[k] = MaxUpdates /\ flushTimer[k] <= now
<1>1. TypeOK /\ FlushIsScheduled /\ [Next]_vars => [Kept]_vars
  <2> SUFFICES ASSUME TypeOK, FlushIsScheduled, [Next]_vars,
                      NEW key \in Keys, dirty[key] > 0, dirty'[key] > 0
               PROVE  \/ flushTimer'[key] <= flushTimer[key]
                      \/ /\ dirty[key] < MaxUpdates /\ dirty'[key] = MaxUpdates
                         /\ flushTimer[key] <= now
    OBVIOUS
  <2>1. flushTimer[key] \in Nat
    BY DEF TypeOK, TimeOrNone, FlushIsScheduled
  <2>2. ASSUME flushTimer' = flushTimer \/ flushTimer'[key] = flushTimer[key]
        PROVE  flushTimer'[key] <= flushTimer[key]
    BY <2>1, <2>2
  <2>3. ASSUME NEW type \in EventTypes, NEW k \in Keys, AcceptPeriodic(type, k)
        PROVE  \/ flushTimer'[key] <= flushTimer[key]
               \/ /\ dirty[key] < MaxUpdates /\ dirty'[key] = MaxUpdates
                  /\ flushTimer[key] <= now
    <3>1. CASE key # k
      <4>1. \A registered : MarkBucketDirty(k, registered)
                              => flushTimer'[key] = flushTimer[key]
        BY <3>1 DEF MarkBucketDirty, ScheduleRedisFlush, TypeOK
      <4> QED BY <2>2, <2>3, <4>1 DEF AcceptPeriodic
    <3>2. CASE key = k
      <4>1. PICK registered : MarkBucketDirty(key, registered)
        BY <2>3, <3>2 DEF AcceptPeriodic
      <4>2. dirty' = [dirty EXCEPT ![key] = @ + 1]
            /\ \/ flushTimer' = flushTimer
               \/ /\ dirty[key] + 1 = MaxUpdates
                  /\ flushTimer' = [flushTimer EXCEPT ![key] = now + EarlyFlushDelay]
        BY <2>1, <4>1, NoneAssumption
           DEF MarkBucketDirty, RedisFlushAction, ScheduleRedisFlush
      <4>3. dirty[key] \in Nat /\ now \in Nat /\ dirty'[key] = dirty[key] + 1
        BY <4>2 DEF TypeOK
      <4>4. CASE flushTimer' = [flushTimer EXCEPT ![key] = now + EarlyFlushDelay]
                 /\ dirty[key] + 1 = MaxUpdates
        <5>1. flushTimer'[key] = now + 1
          BY <4>4 DEF TypeOK, EarlyFlushDelay
        <5> QED BY <2>1, <4>3, <4>4, <5>1, ConfigAssumption
      <4> QED BY <2>2, <4>2, <4>4
    <3> QED BY <3>1, <3>2
  <2>4. ASSUME NEW k \in Keys, NEW t \in Nat, OnTimer(k, t)
        PROVE  flushTimer'[key] = flushTimer[key]
    <3>1. CASE dirty' = [dirty EXCEPT ![k] = 0]
               /\ flushTimer' = [flushTimer EXCEPT ![k] = None]
      <4>1. key # k
        BY <3>1 DEF TypeOK
      <4> QED BY <3>1, <4>1 DEF TypeOK
    <3> QED BY <2>4, <3>1 DEF OnTimer, FlushBucketToRedis
  <2>5. ~FreshStart
    BY DEF FreshStart
  <2>6. ~RestoreFromCheckpoint
    BY DEF NeverRestored, RestoreFromCheckpoint, NewOperator
  <2>7. ASSUME NEW type \in EventTypes, NEW k \in Keys,
               Produce(type, k) \/ DeadLetter(type, k) \/ AcceptPerEvent(type, k)
        PROVE  flushTimer' = flushTimer
    BY <2>7 DEF Produce, DeadLetter, AcceptPerEvent, keyedState
  <2>8. ASSUME Tick \/ CompleteCheckpoint \/ UNCHANGED vars
        PROVE  flushTimer' = flushTimer
    BY <2>8 DEF Tick, CompleteCheckpoint, vars, keyedState
  <2> QED
    BY <2>2, <2>3, <2>4, <2>5, <2>6, <2>7, <2>8
       DEF Next, ProcessElement, FireTimer, TypeOK
<1>2. Spec => [][Kept]_vars
  BY TypeCorrect, FlushScheduled, <1>1, PTL DEF Spec
<1> QED BY <1>2 DEF DeadlineSlipsAtMostOnce

-----------------------------------------------------------------------------
(* FlushAccounting, as long as no keyed state is restored: a restore       *)
(* brings dirty counts back to counters that start at zero.                *)

FiniteKeys == IsFiniteSet(Keys)

FlushInv ==
    /\ FlushAccounting
    /\ mode = "per_event" => \A k \in Keys : dirty[k] = 0

(* One key's dirty count changes the sum of all by as much.                *)
LEMMA DirtySum ==
    ASSUME FiniteKeys, TypeOK, TypeOK', NEW k \in Keys,
           \A other \in Keys \ {k} : dirty'[other] = dirty[other]
    PROVE  /\ SumFunction(dirty) \in Int
           /\ SumFunction(dirty') = SumFunction(dirty) + (dirty'[k] - dirty[k])
<1>1. DOMAIN dirty = Keys /\ DOMAIN dirty' = Keys
      /\ \A other \in Keys : dirty[other] \in Int /\ dirty'[other] \in Int
  BY DEF TypeOK
<1>2. SumFunctionOnSet(dirty, Keys) \in Int
  BY <1>1, SumInt DEF FiniteKeys
<1>3. SumFunctionOnSet(dirty', Keys)
        = SumFunctionOnSet(dirty, Keys) + (dirty'[k] - dirty[k])
  BY <1>1, SumChanged DEF FiniteKeys
<1> QED BY <1>1, <1>2, <1>3 DEF SumFunction

LEMMA StepFlush ==
    ASSUME FiniteKeys, NeverRestored, TypeOK, TypeOK', FlushInv, [Next]_vars
    PROVE  FlushInv'
<1>a. /\ metrics.updatesFlushed + SumFunction(dirty) = metrics.impressions + metrics.clicks
      /\ metrics.redisFlushes + metrics.updatesCoalesced = metrics.updatesFlushed
      /\ mode = "per_event" => metrics.updatesCoalesced = 0
      /\ mode = "per_event" => \A k \in Keys : dirty[k] = 0
  BY DEF FlushInv, FlushAccounting, ValidEvents
<1>b. /\ metrics.updatesFlushed \in Nat /\ metrics.updatesCoalesced \in Nat
      /\ metrics.redisFlushes \in Nat /\ metrics.impressions \in Nat
      /\ metrics.clicks \in Nat
  BY DEF TypeOK, Metrics
<1>1. CASE UNCHANGED <<mode, dirty, metrics>>
  BY <1>1 DEF FlushInv, FlushAccounting, ValidEvents
<1>2. ASSUME NEW type \in EventTypes, NEW k \in Keys, DeadLetter(type, k)
      PROVE  FlushInv'
  <2>1. /\ UNCHANGED <<mode, dirty>>
        /\ metrics' = [metrics EXCEPT !.processed = @ + 1, !.deadLetters = @ + 1]
    BY <1>2 DEF DeadLetter, CountAndLog, keyedState
  <2>2. /\ metrics'.updatesFlushed = metrics.updatesFlushed
        /\ metrics'.redisFlushes = metrics.redisFlushes
        /\ metrics'.updatesCoalesced = metrics.updatesCoalesced
        /\ metrics'.impressions = metrics.impressions
        /\ metrics'.clicks = metrics.clicks
    BY <2>1 DEF TypeOK, Metrics
  <2> QED BY <1>a, <2>1, <2>2 DEF FlushInv, FlushAccounting, ValidEvents
<1>3. ASSUME NEW type \in EventTypes, NEW k \in Keys, AcceptPerEvent(type, k)
      PROVE  FlushInv'
  <2>1. /\ UNCHANGED <<mode, dirty>> /\ type # "invalid"
        /\ metrics' = [Counted(type) EXCEPT !.redisFlushes = @ + 1,
                                            !.updatesFlushed = @ + 1]
    BY <1>3 DEF AcceptPerEvent, CountAndLog
  <2>2. /\ metrics'.updatesFlushed = metrics.updatesFlushed + 1
        /\ metrics'.redisFlushes = metrics.redisFlushes + 1
        /\ metrics'.updatesCoalesced = metrics.updatesCoalesced
        /\ metrics'.impressions + metrics'.clicks
             = metrics.impressions + metrics.clicks + 1
    BY <1>b, <2>1 DEF Counted, TypeOK, Metrics
  <2>3. SumFunction(dirty) \in Int
    BY <2>1, DirtySum
  <2> QED BY <1>a, <1>b, <2>1, <2>2, <2>3 DEF FlushInv, FlushAccounting, ValidEvents
<1>4. ASSUME NEW type \in EventTypes, NEW k \in Keys, AcceptPeriodic(type, k)
      PROVE  FlushInv'
  <2>1. /\ mode = "periodic" /\ mode' = mode
        /\ dirty' = [dirty EXCEPT ![k] = @ + 1]
        /\ metrics' = Counted(type)
    BY <1>4 DEF AcceptPeriodic, MarkBucketDirty, CountAndLog
  <2>2. /\ metrics'.updatesFlushed = metrics.updatesFlushed
        /\ metrics'.redisFlushes = metrics.redisFlushes
        /\ metrics'.updatesCoalesced = metrics.updatesCoalesced
        /\ metrics'.impressions + metrics'.clicks
             = metrics.impressions + metrics.clicks + 1
    BY <1>b, <2>1 DEF Counted, TypeOK, Metrics
  <2>3. /\ SumFunction(dirty) \in Int
        /\ SumFunction(dirty') = SumFunction(dirty) + 1
    <3>1. /\ dirty'[k] = dirty[k] + 1 /\ dirty[k] \in Nat
          /\ \A other \in Keys \ {k} : dirty'[other] = dirty[other]
      BY <2>1 DEF TypeOK
    <3> QED BY <3>1, DirtySum
  <2> QED BY <1>a, <1>b, <2>1, <2>2, <2>3 DEF FlushInv, FlushAccounting, ValidEvents
<1>5. ASSUME NEW k \in Keys, FireTimer(k) PROVE FlushInv'
  <2>1. mode' = mode
    BY <1>5 DEF FireTimer, OnTimer
  <2>2. CASE UNCHANGED <<dirty, metrics>>
    BY <1>1, <2>1, <2>2
  <2>3. CASE /\ dirty[k] # 0
             /\ dirty' = [dirty EXCEPT ![k] = 0]
             /\ metrics' = [metrics EXCEPT
                   !.redisFlushes = @ + 1, !.updatesFlushed = @ + dirty[k],
                   !.updatesCoalesced = @ + (dirty[k] - 1)]
    <3>1. /\ metrics'.updatesFlushed = metrics.updatesFlushed + dirty[k]
          /\ metrics'.redisFlushes = metrics.redisFlushes + 1
          /\ metrics'.updatesCoalesced = metrics.updatesCoalesced + (dirty[k] - 1)
          /\ metrics'.impressions = metrics.impressions
          /\ metrics'.clicks = metrics.clicks
      BY <2>3 DEF TypeOK, Metrics
    <3>2. /\ dirty'[k] = 0 /\ dirty[k] \in Nat
          /\ \A other \in Keys \ {k} : dirty'[other] = dirty[other]
      BY <2>3 DEF TypeOK
    <3>3. /\ SumFunction(dirty) \in Int
          /\ SumFunction(dirty') = SumFunction(dirty) - dirty[k]
      BY <3>2, DirtySum
    <3>4. mode # "per_event"
      BY <1>a, <2>3
    <3>5. /\ metrics'.updatesFlushed + SumFunction(dirty')
               = metrics'.impressions + metrics'.clicks
          /\ metrics'.redisFlushes + metrics'.updatesCoalesced = metrics'.updatesFlushed
      BY <1>a, <1>b, <3>1, <3>2, <3>3
    <3> QED BY <2>1, <3>4, <3>5 DEF FlushInv, FlushAccounting, ValidEvents
  <2> QED BY <1>5, <2>2, <2>3 DEF FireTimer, OnTimer, FlushBucketToRedis
<1>6. CASE FreshStart
  <2>1. /\ dirty' = [k \in Keys |-> 0] /\ metrics' = ZeroMetrics
    BY <1>6 DEF FreshStart, NewOperator
  <2>2. SumFunction(dirty') = 0
    BY <2>1, SumOfZeros DEF FiniteKeys
  <2> QED BY <2>1, <2>2 DEF FlushInv, FlushAccounting, ValidEvents, ZeroMetrics
<1>7. ~RestoreFromCheckpoint
  BY DEF NeverRestored, RestoreFromCheckpoint, NewOperator
<1>8. ASSUME NEW type \in EventTypes, NEW k \in Keys, Produce(type, k)
      PROVE  UNCHANGED <<mode, dirty, metrics>>
  BY <1>8 DEF Produce, keyedState
<1>9. ASSUME Tick \/ CompleteCheckpoint \/ UNCHANGED vars
      PROVE  UNCHANGED <<mode, dirty, metrics>>
  BY <1>9 DEF Tick, CompleteCheckpoint, vars, keyedState
<1> QED
  BY <1>1, <1>2, <1>3, <1>4, <1>5, <1>6, <1>7, <1>8, <1>9 DEF Next, ProcessElement

(* The flush counters account for every valid event, flushed or still      *)
(* dirty, in both modes and however often the job is started afresh        *)
(* (run_realtime_ctr.py, 250-262 and 382-403).                             *)
THEOREM FlushesAccounted ==
    ASSUME FiniteKeys, NeverRestored PROVE Spec => []FlushAccounting
<1>1. Init => FlushInv
  <2> SUFFICES ASSUME Init PROVE FlushInv
    OBVIOUS
  <2>1. dirty = [k \in Keys |-> 0] /\ metrics = ZeroMetrics
    BY DEF Init
  <2>2. SumFunction(dirty) = 0
    BY <2>1, SumOfZeros DEF FiniteKeys
  <2> QED BY <2>1, <2>2 DEF FlushInv, FlushAccounting, ValidEvents, ZeroMetrics
<1>2. TypeOK /\ TypeOK' /\ FlushInv /\ [Next]_vars => FlushInv'
  BY StepFlush
<1>3. FlushInv => FlushAccounting
  BY DEF FlushInv
<1> QED BY <1>1, <1>2, <1>3, TypeCorrect, PTL DEF Spec

-----------------------------------------------------------------------------
(* Without restarts, the realtime job implements the store of CtrStore:    *)
(* every step of the job is a step of the store, or changes nothing a      *)
(* reader of the store could see.                                          *)

NoRestarts == MaxRestarts = 0

(* A loaded bucket counts something, and Redis changes only under a key    *)
(* that the operator has loaded.                                           *)
LoadedInv ==
    \A k \in Keys : IF bucket[k] = None THEN redis[k] = Seed[k]
                    ELSE bucket[k].impressions > 0

CountersOf == [k \in Keys |-> CurrentCounters(k)]

LEMMA NotRestarted ==
    ASSUME NoRestarts, TypeOK PROVE ~RestoreFromCheckpoint /\ ~FreshStart
  BY DEF NoRestarts, TypeOK, RestoreFromCheckpoint, FreshStart, NewOperator

(* A bucket an event was applied to has an impression.                     *)
LEMMA AcceptedHasImpression ==
    ASSUME TypeOK, NEW type \in EventTypes, NEW k \in Keys,
           AcceptPerEvent(type, k) \/ AcceptPeriodic(type, k)
    PROVE  bucket'[k] # None /\ bucket'[k].impressions > 0
<1>1. /\ type \in {"impression", "click"} /\ bucket'[k] \in Bucket
      /\ bucket'[k] = ApplyEvent(type, LoadBucketState(k))
      /\ LoadBucketState(k) \in BucketOrNone
  BY AcceptedBucket DEF EventTypes
<1>2. ExistingOrNew(LoadBucketState(k)) \in Bucket
  BY <1>1, BucketFacts
<1>a. bucket'[k] # None
  BY <1>1, NoneAssumption
<1> DEFINE loaded == ExistingOrNew(LoadBucketState(k))
<1>3. CASE type = "impression"
  <2>1. bucket'[k].impressions = loaded.impressions + 1
    BY <1>1, <1>3, AppliedGrows DEF EventTypes
  <2>2. loaded.impressions \in Nat
    BY <1>2 DEF Bucket
  <2> QED BY <1>a, <2>1, <2>2
<1>4. CASE type = "click"
  <2>1. bucket'[k].clicks = loaded.clicks + 1
    BY <1>1, <1>4, AppliedGrows DEF EventTypes
  <2>2. loaded.clicks \in Nat /\ bucket'[k].clicks <= bucket'[k].impressions
        /\ bucket'[k].impressions \in Nat
    BY <1>1, <1>2 DEF Bucket
  <2> HIDE DEF loaded
  <2> QED BY <1>a, <2>1, <2>2
<1> QED BY <1>1, <1>3, <1>4

LEMMA InitLoaded == Init => LoadedInv
  BY DEF Init, LoadedInv

LEMMA StepLoaded == NoRestarts /\ TypeOK /\ LoadedInv /\ [Next]_vars => LoadedInv'
<1> SUFFICES ASSUME NoRestarts, TypeOK, LoadedInv, [Next]_vars PROVE LoadedInv'
  OBVIOUS
<1>1. CASE UNCHANGED <<bucket, redis>>
  BY <1>1 DEF LoadedInv
<1>2. ASSUME NEW type \in EventTypes, NEW k \in Keys,
             AcceptPerEvent(type, k) \/ AcceptPeriodic(type, k)
      PROVE  LoadedInv'
  <2>1. \A other \in Keys \ {k} : bucket'[other] = bucket[other]
                                  /\ redis'[other] = redis[other]
    BY <1>2 DEF AcceptPerEvent, AcceptPeriodic, TypeOK
  <2> QED BY <1>2, <2>1, AcceptedHasImpression DEF LoadedInv
<1>3. ASSUME NEW k \in Keys, NEW t \in Nat, OnTimer(k, t) PROVE LoadedInv'
  <2>1. CASE redis' = redis
    BY <1>1, <1>3, <2>1 DEF OnTimer
  <2>2. CASE bucket[k] # None /\ redis' = [redis EXCEPT ![k] = bucket[k]]
    BY <1>3, <2>2 DEF OnTimer, LoadedInv, TypeOK
  <2> QED BY <1>3, <2>1, <2>2 DEF OnTimer, FlushBucketToRedis
<1>4. ASSUME NEW type \in EventTypes, NEW k \in Keys, Produce(type, k) \/ DeadLetter(type, k)
      PROVE  UNCHANGED <<bucket, redis>>
  BY <1>4 DEF Produce, DeadLetter, keyedState
<1>5. ASSUME Tick \/ CompleteCheckpoint \/ UNCHANGED vars PROVE UNCHANGED <<bucket, redis>>
  BY <1>5 DEF Tick, CompleteCheckpoint, vars, keyedState
<1> QED
  BY <1>1, <1>2, <1>3, <1>4, <1>5, NotRestarted DEF Next, ProcessElement, FireTimer, TypeOK

LEMMA LoadedInvariant == ASSUME NoRestarts PROVE Spec => []LoadedInv
<1>1. TypeOK /\ LoadedInv /\ [Next]_vars => LoadedInv'
  BY StepLoaded
<1> QED BY InitLoaded, TypeCorrect, <1>1, PTL DEF Spec

-----------------------------------------------------------------------------
(* The refinement                                                          *)

LEMMA InitStore == Init => Store!Init
  BY DEF Init, Store!Init, Store!Empty, CurrentCounters, ExistingOrNew, InitializeBucket

(* An accepted event is a Count step of the store's counters.              *)
LEMMA AcceptedCounts ==
    ASSUME TypeOK, NEW type \in EventTypes, NEW k \in Keys,
           AcceptPerEvent(type, k) \/ AcceptPeriodic(type, k)
    PROVE  /\ Store!Count(k)
           /\ CurrentCounters(k)' = bucket'[k]
<1>1. /\ type \in {"impression", "click"} /\ bucket'[k] \in Bucket
      /\ bucket'[k] = ApplyEvent(type, LoadBucketState(k))
      /\ LoadBucketState(k) \in BucketOrNone
      /\ \A other \in Keys \ {k} : bucket'[other] = bucket[other]
  BY AcceptedBucket DEF EventTypes
<1>2. \A other \in Keys \ {k} : redis'[other] = redis[other]
  BY DEF AcceptPerEvent, AcceptPeriodic, TypeOK
<1>3. CurrentCounters(k) = ExistingOrNew(LoadBucketState(k)) /\ CurrentCounters(k) \in Bucket
  BY <1>1, BucketFacts DEF CurrentCounters, LoadBucketState
<1>4. CurrentCounters(k)' = bucket'[k]
  BY <1>1, NoneAssumption DEF CurrentCounters, ExistingOrNew
<1>5. \A other \in Keys \ {k} : CurrentCounters(other)' = CurrentCounters(other)
  BY <1>1, <1>2 DEF CurrentCounters, ExistingOrNew
<1>6. CountersOf' = [CountersOf EXCEPT ![k] = bucket'[k]]
  BY <1>4, <1>5 DEF CountersOf
<1>7. CASE type = "impression"
  <2>1. bucket'[k] = [CountersOf[k] EXCEPT !.impressions = @ + 1]
    BY <1>1, <1>3, <1>7 DEF ApplyEvent, CountersOf
  <2>2. CountersOf' = [CountersOf EXCEPT ![k].impressions = @ + 1]
    BY <1>6, <2>1
  <2> QED BY <1>4, <2>2 DEF CountersOf, Store!Count
<1>8. CASE type = "click"
  <2>1. bucket'[k] = [CountersOf[k] EXCEPT !.clicks = @ + 1]
    BY <1>1, <1>3, <1>8 DEF ApplyEvent, CountersOf
  <2>2. CountersOf' = [CountersOf EXCEPT ![k].clicks = @ + 1]
    BY <1>6, <2>1
  <2>3. CountersOf[k].clicks < CountersOf[k].impressions
    BY <1>1, <1>3, <2>1 DEF CountersOf, Bucket
  <2> QED BY <1>4, <2>2, <2>3 DEF CountersOf, Store!Count
<1> QED BY <1>1, <1>7, <1>8

LEMMA StepStore ==
    NoRestarts /\ TypeOK /\ LoadedInv /\ [Next]_vars => [Store!Next]_(Store!storeVars)
<1> SUFFICES ASSUME NoRestarts, TypeOK, LoadedInv, [Next]_vars
             PROVE  Store!Next \/ UNCHANGED Store!storeVars
  OBVIOUS
<1>1. ASSUME UNCHANGED <<bucket, redis>> PROVE UNCHANGED Store!storeVars
  BY <1>1 DEF Store!storeVars, CurrentCounters, ExistingOrNew
<1>2. ASSUME NEW type \in EventTypes, NEW k \in Keys, AcceptPerEvent(type, k)
      PROVE  Store!CountAndPublish(k)
  <2>1. redis' = [redis EXCEPT ![k] = bucket'[k]]
    BY <1>2 DEF AcceptPerEvent, TypeOK
  <2> QED BY <1>2, <2>1, AcceptedCounts DEF Store!CountAndPublish
<1>3. ASSUME NEW type \in EventTypes, NEW k \in Keys, AcceptPeriodic(type, k)
      PROVE  Store!CountOnly(k)
  BY <1>3, AcceptedCounts DEF AcceptPeriodic, Store!CountOnly
<1>4. ASSUME NEW k \in Keys, NEW t \in Nat, OnTimer(k, t)
      PROVE  Store!Publish(k) \/ UNCHANGED <<bucket, redis>>
  <2>1. CASE redis' = redis
    BY <1>4, <2>1 DEF OnTimer
  <2>2. CASE bucket[k] # None /\ redis' = [redis EXCEPT ![k] = bucket[k]]
    <3>1. bucket' = bucket /\ CurrentCounters(k) = bucket[k]
      BY <1>4, <2>2 DEF OnTimer, CurrentCounters, ExistingOrNew
    <3>2. CountersOf' = CountersOf
      BY <2>2, <3>1 DEF CountersOf, CurrentCounters, ExistingOrNew, TypeOK
    <3>3. bucket[k] # Store!Empty
      BY <2>2 DEF LoadedInv, Store!Empty
    <3>4. CASE redis[k] = bucket[k]
      BY <2>2, <3>1, <3>4 DEF TypeOK
    <3>5. CASE redis[k] # bucket[k]
      <4>1. CurrentCounters(k) # Store!Seen(k)
        BY <3>1, <3>3, <3>5 DEF Store!Seen
      <4> QED BY <2>2, <3>1, <3>2, <4>1 DEF Store!Publish, CountersOf
    <3> QED BY <3>4, <3>5
  <2> QED BY <1>4, <2>1, <2>2 DEF OnTimer, FlushBucketToRedis
<1>5. ASSUME NEW type \in EventTypes, NEW k \in Keys, Produce(type, k) \/ DeadLetter(type, k)
      PROVE  UNCHANGED <<bucket, redis>>
  BY <1>5 DEF Produce, DeadLetter, keyedState
<1>6. ASSUME Tick \/ CompleteCheckpoint \/ UNCHANGED vars PROVE UNCHANGED <<bucket, redis>>
  BY <1>6 DEF Tick, CompleteCheckpoint, vars, keyedState
<1> QED
  BY <1>1, <1>2, <1>3, <1>4, <1>5, <1>6, NotRestarted
     DEF Next, ProcessElement, FireTimer, TypeOK, Store!Next

(* Readers of Redis see a store of counters: each bucket is published as a *)
(* whole, never with an update that was not counted, and never undone      *)
(* (services/realtime_ctr.py, 93-118; run_realtime_ctr.py, 245-263,        *)
(* 382-403).                                                               *)
THEOREM ImplementsStore == ASSUME NoRestarts PROVE Spec => Store!Spec
<1>1. TypeOK /\ LoadedInv /\ [Next]_vars => [Store!Next]_(Store!storeVars)
  BY StepStore
<1> QED BY InitStore, TypeCorrect, LoadedInvariant, <1>1, PTL DEF Spec, Store!Spec

-----------------------------------------------------------------------------
(* No record is lost (NoRecordLost), for every configuration that, if the  *)
(* operator may start afresh, reads from the earliest offsets when it      *)
(* does; and, without restarts, each is counted once.                      *)

NothingSkipped == StartingOffsets = "earliest" \/ "fresh" \notin RestartKinds

Start(k) == ExistingOrNew(Seed[k])

(* Every record of k before the offsets is in the counters b, or, at least *)
(* once, among the dead letters; nothing is if there are no counters yet.  *)
Accounted(k, b, offsets, dead) ==
    IF b = None
    THEN /\ offsets["impression"][k] = 0
         /\ offsets["click"][k] + offsets["invalid"][k] <= dead
    ELSE /\ NotAhead(Start(k), b)
         /\ Start(k).impressions + offsets["impression"][k] <= b.impressions
         /\ Start(k).clicks + offsets["click"][k] + offsets["invalid"][k]
              <= b.clicks + dead

(* The dead letters of a checkpoint are all in the topic.                  *)
LossInv ==
    \A k \in Keys :
        /\ NotAhead(Start(k), ExistingOrNew(redis[k]))
        /\ Accounted(k, bucket[k], consumed, deadLetters[k] + unflushed[k])
        /\ checkpoint # None =>
             Accounted(k, checkpoint.bucket[k], checkpoint.consumed, deadLetters[k])

LEMMA StartIsBucket == ASSUME NEW k \in Keys PROVE Start(k) \in Bucket
  BY ConfigAssumption, NoneAssumption
     DEF Start, ExistingOrNew, InitializeBucket, Bucket, BucketOrNone

LEMMA InitLoss == Init => LossInv
<1> SUFFICES ASSUME Init, NEW k \in Keys
             PROVE  /\ NotAhead(Start(k), ExistingOrNew(redis[k]))
                    /\ Accounted(k, bucket[k], consumed, deadLetters[k] + unflushed[k])
                    /\ checkpoint = None
  BY DEF LossInv
<1>1. NotAhead(Start(k), ExistingOrNew(redis[k]))
  BY StartIsBucket, NotAheadReflexive DEF Init, Start
<1>2. consumed["impression"][k] = 0 /\ consumed["click"][k] = 0 /\ consumed["invalid"][k] = 0
  BY DEF Init, NoRecords, EventTypes
<1> QED BY <1>1, <1>2 DEF Init, Accounted

(* NoRecordLost from the invariant.                                        *)
LEMMA LossImplies == TypeOK /\ LossInv => NoRecordLost
<1> SUFFICES ASSUME TypeOK, LossInv, NEW k \in Keys
             PROVE  /\ Start(k).impressions + consumed["impression"][k]
                         <= CurrentCounters(k).impressions
                    /\ Start(k).clicks + consumed["click"][k] + consumed["invalid"][k]
                         <= CurrentCounters(k).clicks + deadLetters[k] + unflushed[k]
  BY DEF NoRecordLost, Start
<1>1. /\ NotAhead(Start(k), ExistingOrNew(redis[k]))
      /\ Accounted(k, bucket[k], consumed, deadLetters[k] + unflushed[k])
  BY DEF LossInv
<1>2. /\ consumed["impression"][k] \in Nat /\ consumed["click"][k] \in Nat
      /\ consumed["invalid"][k] \in Nat /\ deadLetters[k] \in Nat /\ unflushed[k] \in Nat
      /\ Start(k).impressions \in Nat /\ Start(k).clicks \in Nat
  BY StartIsBucket DEF TypeOK, Offsets, EventTypes, Bucket
<1>3. CASE bucket[k] = None
  <2>1. CurrentCounters(k) = ExistingOrNew(redis[k])
    BY <1>3 DEF CurrentCounters
  <2>2. ExistingOrNew(redis[k]) \in Bucket
    BY BucketFacts DEF TypeOK
  <2> QED BY <1>1, <1>2, <1>3, <2>1, <2>2 DEF Accounted, NotAhead, Bucket
<1>4. CASE bucket[k] # None
  <2>1. CurrentCounters(k) = bucket[k] /\ bucket[k].clicks \in Nat
    BY <1>4 DEF CurrentCounters, ExistingOrNew, TypeOK, BucketOrNone, Bucket
  <2> QED BY <1>1, <1>2, <1>4, <2>1 DEF Accounted
<1> QED BY <1>3, <1>4

(* More dead letters account for no less.                                  *)
LEMMA AccountedGrows ==
    ASSUME NEW k \in Keys, NEW b \in BucketOrNone, NEW offsets \in Offsets,
           NEW dead \in Nat, NEW more \in Nat, dead <= more, Accounted(k, b, offsets, dead)
    PROVE  Accounted(k, b, offsets, more)
<1>1. /\ offsets["click"][k] \in Nat /\ offsets["invalid"][k] \in Nat
      /\ Start(k).clicks \in Nat /\ (b # None => b.clicks \in Nat)
  BY StartIsBucket DEF Offsets, EventTypes, Bucket, BucketOrNone
<1> QED BY <1>1 DEF Accounted

LEMMA OffsetFacts ==
    ASSUME NEW offsets \in Offsets, NEW type \in EventTypes, NEW k \in Keys
    PROVE  LET taken == [offsets EXCEPT ![type][k] = @ + 1]
           IN  /\ offsets[type][k] \in Nat
               /\ \A t \in EventTypes : taken[t][k] = IF t = type THEN offsets[t][k] + 1
                                                      ELSE offsets[t][k]
               /\ \A t \in EventTypes, other \in Keys \ {k} :
                    taken[t][other] = offsets[t][other]
  BY DEF Offsets

(* A record of k says nothing of the other keys.                           *)
LEMMA OthersAccounted ==
    ASSUME TypeOK, NEW type \in EventTypes, NEW k \in Keys,
           consumed' = [consumed EXCEPT ![type][k] = @ + 1],
           NEW other \in Keys \ {k}, NEW b, NEW dead
    PROVE  Accounted(other, b, consumed, dead) => Accounted(other, b, consumed', dead)
<1>1. \A t \in EventTypes : consumed'[t][other] = consumed[t][other]
  BY OffsetFacts DEF TypeOK
<1> QED BY <1>1 DEF Accounted, EventTypes

LEMMA DeadLetterLoss ==
    ASSUME TypeOK, LossInv, NEW type \in EventTypes, NEW k \in Keys, DeadLetter(type, k)
    PROVE  LossInv'
<1>1. /\ type \in {"click", "invalid"}
      /\ consumed' = [consumed EXCEPT ![type][k] = @ + 1]
      /\ unflushed' = [unflushed EXCEPT ![k] = @ + 1]
      /\ UNCHANGED <<bucket, redis, deadLetters, checkpoint>>
  BY DEF DeadLetter, AcceptsEvent, TakeRecord, keyedState, EventTypes
<1>2. /\ consumed'["impression"][k] = consumed["impression"][k]
      /\ consumed'["click"][k] + consumed'["invalid"][k]
           = consumed["click"][k] + consumed["invalid"][k] + 1
      /\ consumed["click"][k] \in Nat /\ consumed["invalid"][k] \in Nat
      /\ consumed'["click"][k] \in Nat /\ consumed'["invalid"][k] \in Nat
  BY <1>1, OffsetFacts DEF TypeOK, Offsets, EventTypes
<1>3. /\ unflushed'[k] = unflushed[k] + 1
      /\ \A other \in Keys \ {k} : unflushed'[other] = unflushed[other]
      /\ deadLetters[k] \in Nat /\ unflushed[k] \in Nat
      /\ Start(k).clicks \in Nat /\ (bucket[k] # None => bucket[k].clicks \in Nat)
  BY <1>1, StartIsBucket DEF TypeOK, Bucket, BucketOrNone
<1>4. Accounted(k, bucket[k], consumed', deadLetters[k] + unflushed'[k])
  BY <1>2, <1>3 DEF LossInv, Accounted
<1>5. \A other \in Keys \ {k} :
        Accounted(other, bucket[other], consumed', deadLetters[other] + unflushed'[other])
  BY <1>1, <1>3, OthersAccounted DEF LossInv
<1> QED BY <1>1, <1>4, <1>5 DEF LossInv

(* The bucket an accepted event is applied to accounts for all before it.  *)
LEMMA AcceptLoss ==
    ASSUME TypeOK, LossInv, NEW type \in EventTypes, NEW k \in Keys,
           AcceptPerEvent(type, k) \/ AcceptPeriodic(type, k)
    PROVE  /\ NotAhead(Start(k), bucket'[k])
           /\ \A key \in Keys : Accounted(key, bucket'[key], consumed',
                                          deadLetters[key] + unflushed[key])
<1> DEFINE loaded == ExistingOrNew(LoadBucketState(k))
           dead == deadLetters[k] + unflushed[k]
<1>1. /\ type \in {"impression", "click"}
      /\ bucket'[k] = ApplyEvent(type, LoadBucketState(k)) /\ bucket'[k] \in Bucket
      /\ \A other \in Keys \ {k} : bucket'[other] = bucket[other]
      /\ consumed' = [consumed EXCEPT ![type][k] = @ + 1]
      /\ LoadBucketState(k) \in BucketOrNone
  BY AcceptedBucket DEF EventTypes
<1>2. loaded \in Bucket
  BY <1>1, BucketFacts
<1>3. /\ consumed["impression"][k] \in Nat /\ consumed["click"][k] \in Nat
      /\ consumed["invalid"][k] \in Nat /\ dead \in Nat
      /\ Start(k).impressions \in Nat /\ Start(k).clicks \in Nat
  BY StartIsBucket DEF TypeOK, Offsets, EventTypes, Bucket
<1>4. /\ NotAhead(Start(k), loaded)
      /\ Start(k).impressions + consumed["impression"][k] <= loaded.impressions
      /\ Start(k).clicks + consumed["click"][k] + consumed["invalid"][k]
           <= loaded.clicks + dead
  <2>1. CASE bucket[k] = None
    <3>1. loaded = ExistingOrNew(redis[k])
      BY <2>1 DEF LoadBucketState
    <3> HIDE DEF loaded
    <3> QED BY <1>2, <1>3, <2>1, <3>1 DEF LossInv, Accounted, NotAhead, Bucket
  <2>2. CASE bucket[k] # None
    <3>1. loaded = bucket[k]
      BY <2>2 DEF LoadBucketState, ExistingOrNew
    <3> HIDE DEF loaded
    <3> QED BY <2>2, <3>1 DEF LossInv, Accounted
  <2> QED BY <2>1, <2>2
<1>5. /\ NotAhead(loaded, bucket'[k]) /\ bucket'[k] # None
      /\ type = "impression" => bucket'[k].impressions = loaded.impressions + 1
                                /\ bucket'[k].clicks = loaded.clicks
      /\ type = "click" => bucket'[k].impressions = loaded.impressions
                           /\ bucket'[k].clicks = loaded.clicks + 1
  BY <1>1, AppliedGrows, NoneAssumption
<1>6. \A t \in EventTypes : consumed'[t][k] = IF t = type THEN consumed[t][k] + 1
                                              ELSE consumed[t][k]
  BY <1>1, OffsetFacts DEF TypeOK
<1> HIDE DEF loaded, dead
<1>7. NotAhead(Start(k), bucket'[k])
  BY <1>1, <1>2, <1>3, <1>4, <1>5 DEF NotAhead, Bucket
<1>8. Accounted(k, bucket'[k], consumed', dead)
  <2>1. CASE type = "impression"
    <3>1. /\ consumed'["impression"][k] = consumed["impression"][k] + 1
          /\ consumed'["click"][k] = consumed["click"][k]
          /\ consumed'["invalid"][k] = consumed["invalid"][k]
      BY <1>6, <2>1 DEF EventTypes
    <3> QED BY <1>2, <1>3, <1>4, <1>5, <1>7, <2>1, <3>1 DEF Accounted, Bucket
  <2>2. CASE type = "click"
    <3>1. /\ consumed'["impression"][k] = consumed["impression"][k]
          /\ consumed'["click"][k] = consumed["click"][k] + 1
          /\ consumed'["invalid"][k] = consumed["invalid"][k]
      BY <1>6, <2>2 DEF EventTypes
    <3> QED BY <1>2, <1>3, <1>4, <1>5, <1>7, <2>2, <3>1 DEF Accounted, Bucket
  <2> QED BY <1>1, <2>1, <2>2
<1>9. \A other \in Keys \ {k} :
        Accounted(other, bucket'[other], consumed', deadLetters[other] + unflushed[other])
  BY <1>1, OthersAccounted DEF LossInv
<1> QED BY <1>7, <1>8, <1>9 DEF dead

(* A restart with part of the unflushed dead letters sent.                 *)
LEMMA RestartLoss ==
    ASSUME TypeOK, NEW kind, NewOperator(kind), NEW k \in Keys
    PROVE  /\ deadLetters[k] \in Nat /\ deadLetters'[k] \in Nat /\ unflushed'[k] = 0
           /\ deadLetters[k] <= deadLetters'[k]
<1>1. PICK sent \in [Keys -> UNION {0 .. unflushed[key] : key \in Keys}] :
        deadLetters' = [key \in Keys |-> deadLetters[key] + sent[key]]
  BY DEF NewOperator
<1>2. sent[k] \in Nat
  BY DEF TypeOK
<1> QED BY <1>1, <1>2 DEF NewOperator, TypeOK

LEMMA StepLoss == NothingSkipped /\ TypeOK /\ LossInv /\ [Next]_vars => LossInv'
<1> SUFFICES ASSUME NothingSkipped, TypeOK, LossInv, [Next]_vars PROVE LossInv'
  OBVIOUS
<1>1. CASE UNCHANGED <<bucket, redis, consumed, deadLetters, unflushed, checkpoint>>
  BY <1>1 DEF LossInv
<1>2. ASSUME NEW type \in EventTypes, NEW k \in Keys, DeadLetter(type, k) PROVE LossInv'
  BY <1>2, DeadLetterLoss
<1>3. ASSUME NEW type \in EventTypes, NEW k \in Keys, AcceptPerEvent(type, k)
      PROVE  LossInv'
  <2>1. /\ redis' = [redis EXCEPT ![k] = ApplyEvent(type, LoadBucketState(k))]
        /\ UNCHANGED <<deadLetters, unflushed, checkpoint>>
    BY <1>3 DEF AcceptPerEvent
  <2>2. redis'[k] = bucket'[k] /\ bucket'[k] \in Bucket
    BY <1>3, <2>1, AcceptedBucket DEF TypeOK
  <2>3. NotAhead(Start(k), ExistingOrNew(redis'[k]))
    BY <1>3, <2>2, AcceptLoss, NoneAssumption DEF ExistingOrNew
  <2>4. \A other \in Keys \ {k} : redis'[other] = redis[other]
    BY <2>1 DEF TypeOK
  <2> QED BY <1>3, <2>1, <2>3, <2>4, AcceptLoss DEF LossInv
<1>4. ASSUME NEW type \in EventTypes, NEW k \in Keys, AcceptPeriodic(type, k)
      PROVE  LossInv'
  <2>1. UNCHANGED <<redis, deadLetters, unflushed, checkpoint>>
    BY <1>4 DEF AcceptPeriodic
  <2> QED BY <1>4, <2>1, AcceptLoss DEF LossInv
<1>5. ASSUME NEW k \in Keys, NEW t \in Nat, OnTimer(k, t) PROVE LossInv'
  <2>1. UNCHANGED <<bucket, consumed, deadLetters, unflushed, checkpoint>>
    BY <1>5 DEF OnTimer
  <2>2. CASE redis' = redis
    BY <1>1, <2>1, <2>2
  <2>3. CASE bucket[k] # None /\ redis' = [redis EXCEPT ![k] = bucket[k]]
    <3>1. NotAhead(Start(k), ExistingOrNew(bucket[k]))
      BY <2>3 DEF LossInv, Accounted, ExistingOrNew
    <3>2. \A key \in Keys : NotAhead(Start(key), ExistingOrNew(redis'[key]))
      BY <2>3, <3>1 DEF LossInv, TypeOK
    <3> QED BY <2>1, <3>2 DEF LossInv
  <2> QED BY <1>5, <2>2, <2>3 DEF OnTimer, FlushBucketToRedis
<1>6. CASE CompleteCheckpoint
  <2>1. /\ checkpoint'.bucket = bucket /\ checkpoint'.consumed = consumed
        /\ UNCHANGED <<bucket, consumed, redis>>
        /\ \A k \in Keys : deadLetters'[k] = deadLetters[k] + unflushed[k]
                           /\ unflushed'[k] = 0
    BY <1>6 DEF CompleteCheckpoint, Snapshot, FlushSink, keyedState
  <2>2. \A k \in Keys : deadLetters'[k] \in Nat /\ deadLetters'[k] + unflushed'[k] = deadLetters'[k]
    BY <2>1 DEF TypeOK
  <2> QED BY <2>1, <2>2 DEF LossInv
<1>7. CASE RestoreFromCheckpoint
  <2>1. /\ checkpoint # None /\ UNCHANGED <<redis, checkpoint>>
        /\ bucket' = checkpoint.bucket /\ consumed' = checkpoint.consumed
        /\ NewOperator("restore")
    BY <1>7 DEF RestoreFromCheckpoint
  <2>2. /\ checkpoint.bucket \in [Keys -> BucketOrNone] /\ checkpoint.consumed \in Offsets
    BY <2>1 DEF TypeOK, Checkpoint
  <2>3. ASSUME NEW k \in Keys
        PROVE  Accounted(k, checkpoint.bucket[k], checkpoint.consumed, deadLetters'[k])
    BY <2>1, <2>2, RestartLoss, AccountedGrows DEF LossInv
  <2>4. \A k \in Keys : deadLetters'[k] + unflushed'[k] = deadLetters'[k]
    BY <2>1, RestartLoss
  <2> QED BY <2>1, <2>3, <2>4 DEF LossInv
<1>8. CASE FreshStart
  <2>1. StartingOffsets = "earliest"
    BY <1>8 DEF FreshStart, NewOperator, NothingSkipped
  <2>2. /\ bucket' = [k \in Keys |-> None] /\ consumed' = NoRecords
        /\ checkpoint' = None /\ redis' = redis /\ NewOperator("fresh")
    BY <1>8, <2>1 DEF FreshStart
  <2>3. ASSUME NEW k \in Keys
        PROVE  Accounted(k, bucket'[k], consumed', deadLetters'[k] + unflushed'[k])
    <3>1. deadLetters'[k] + unflushed'[k] \in Nat
      BY <2>2, RestartLoss
    <3>2. \A t \in EventTypes : consumed'[t][k] = 0
      BY <2>2 DEF NoRecords
    <3> QED BY <2>2, <3>1, <3>2 DEF Accounted, EventTypes
  <2> QED BY <2>2, <2>3 DEF LossInv
<1> QED
  <2>1. ASSUME NEW type \in EventTypes, NEW k \in Keys, Produce(type, k) PROVE LossInv'
    BY <1>1, <2>1 DEF Produce, keyedState
  <2>2. ASSUME Tick \/ UNCHANGED vars PROVE LossInv'
    BY <1>1, <2>2 DEF Tick, vars, keyedState
  <2> QED
    BY <1>2, <1>3, <1>4, <1>5, <1>6, <1>7, <1>8, <2>1, <2>2
       DEF Next, ProcessElement, FireTimer, TypeOK

(* Whatever fails and however often, every record before the source's      *)
(* position is in its bucket or is, at least once, a dead letter           *)
(* (run_realtime_ctr.py, 209-263, 302-332, 464-492).                       *)
THEOREM RecordsKept == ASSUME NothingSkipped PROVE Spec => []NoRecordLost
<1>1. TypeOK /\ LossInv /\ [Next]_vars => LossInv'
  BY StepLoss
<1>2. TypeOK /\ LossInv => NoRecordLost
  BY LossImplies
<1> QED BY InitLoss, TypeCorrect, <1>1, <1>2, PTL DEF Spec

-----------------------------------------------------------------------------
(* EveryRecordCountedOnce                                                  *)

CountedOnce(k) ==
    /\ CurrentCounters(k).impressions = Start(k).impressions + consumed["impression"][k]
    /\ CurrentCounters(k).clicks + deadLetters[k] + unflushed[k]
         = Start(k).clicks + consumed["click"][k] + consumed["invalid"][k]

LEMMA CountedFacts ==
    ASSUME TypeOK, NEW k \in Keys
    PROVE  /\ consumed["impression"][k] \in Nat /\ consumed["click"][k] \in Nat
           /\ consumed["invalid"][k] \in Nat
           /\ deadLetters[k] \in Nat /\ unflushed[k] \in Nat
           /\ Start(k) \in Bucket /\ CurrentCounters(k) \in Bucket
           /\ Start(k).impressions \in Nat /\ Start(k).clicks \in Nat
           /\ CurrentCounters(k).impressions \in Nat /\ CurrentCounters(k).clicks \in Nat
<1>1. Start(k) \in Bucket /\ CurrentCounters(k) \in Bucket
  BY StartIsBucket, BucketFacts DEF CurrentCounters, TypeOK
<1> QED BY <1>1 DEF TypeOK, Offsets, EventTypes, Bucket

LEMMA StepCountedOnce ==
    NoRestarts /\ TypeOK /\ LoadedInv /\ EveryRecordCountedOnce /\ [Next]_vars
      => EveryRecordCountedOnce'
<1> SUFFICES ASSUME NoRestarts, TypeOK, LoadedInv, EveryRecordCountedOnce, [Next]_vars,
                    NEW key \in Keys
             PROVE  CountedOnce(key)'
  BY DEF EveryRecordCountedOnce, CountedOnce, Start
<1>a. CountedOnce(key)
  BY DEF EveryRecordCountedOnce, CountedOnce, Start
<1>1. ASSUME UNCHANGED <<bucket, redis, consumed, deadLetters, unflushed>>
      PROVE  CountedOnce(key)'
  BY <1>a, <1>1 DEF CountedOnce, CurrentCounters, ExistingOrNew
<1>2. ASSUME NEW type \in EventTypes, NEW k \in Keys, DeadLetter(type, k)
      PROVE  CountedOnce(key)'
  <2>1. /\ type \in {"click", "invalid"}
        /\ consumed' = [consumed EXCEPT ![type][k] = @ + 1]
        /\ unflushed' = [unflushed EXCEPT ![k] = @ + 1]
        /\ UNCHANGED <<bucket, redis, deadLetters>>
    BY <1>2 DEF DeadLetter, AcceptsEvent, TakeRecord, keyedState, EventTypes
  <2>2. CurrentCounters(key)' = CurrentCounters(key)
    BY <2>1 DEF CurrentCounters, ExistingOrNew
  <2>3. CASE key = k
    <3>1. /\ consumed'["impression"][k] = consumed["impression"][k]
          /\ consumed'["click"][k] + consumed'["invalid"][k]
               = consumed["click"][k] + consumed["invalid"][k] + 1
          /\ consumed'["click"][k] \in Nat /\ consumed'["invalid"][k] \in Nat
          /\ unflushed'[k] = unflushed[k] + 1
      BY <2>1, OffsetFacts DEF TypeOK, Offsets, EventTypes
    <3> QED BY <1>a, <2>1, <2>2, <2>3, <3>1, CountedFacts DEF CountedOnce
  <2>4. CASE key # k
    <3>1. unflushed'[key] = unflushed[key]
          /\ \A t \in EventTypes : consumed'[t][key] = consumed[t][key]
      BY <2>1, <2>4, OffsetFacts DEF TypeOK
    <3> QED BY <1>a, <2>1, <2>2, <3>1 DEF CountedOnce, EventTypes
  <2> QED BY <2>3, <2>4
<1>3. ASSUME NEW type \in EventTypes, NEW k \in Keys,
             AcceptPerEvent(type, k) \/ AcceptPeriodic(type, k)
      PROVE  CountedOnce(key)'
  <2>1. /\ type \in {"impression", "click"} /\ bucket'[k] \in Bucket
        /\ bucket'[k] = ApplyEvent(type, LoadBucketState(k))
        /\ LoadBucketState(k) \in BucketOrNone
        /\ consumed' = [consumed EXCEPT ![type][k] = @ + 1]
        /\ UNCHANGED <<deadLetters, unflushed>>
    BY <1>3, AcceptedBucket DEF EventTypes
  <2>2. \A other \in Keys \ {k} : bucket'[other] = bucket[other]
                                  /\ redis'[other] = redis[other]
    BY <1>3 DEF AcceptPerEvent, AcceptPeriodic, TypeOK
  <2>3. CASE key = k
    <3>1. CurrentCounters(k)' = bucket'[k]
          /\ CurrentCounters(k) = ExistingOrNew(LoadBucketState(k))
      BY <2>1, NoneAssumption DEF CurrentCounters, ExistingOrNew, LoadBucketState
    <3>2. \A t \in EventTypes : consumed'[t][k] = IF t = type THEN consumed[t][k] + 1
                                                  ELSE consumed[t][k]
      BY <2>1, OffsetFacts DEF TypeOK
    <3>3. CASE type = "impression"
      <4>1. /\ consumed'["impression"][k] = consumed["impression"][k] + 1
            /\ consumed'["click"][k] = consumed["click"][k]
            /\ consumed'["invalid"][k] = consumed["invalid"][k]
            /\ bucket'[k].impressions = CurrentCounters(k).impressions + 1
            /\ bucket'[k].clicks = CurrentCounters(k).clicks
        BY <2>1, <3>1, <3>2, <3>3, AppliedGrows DEF EventTypes
      <4> QED BY <1>a, <2>1, <2>3, <3>1, <4>1, CountedFacts DEF CountedOnce
    <3>4. CASE type = "click"
      <4>1. /\ consumed'["impression"][k] = consumed["impression"][k]
            /\ consumed'["click"][k] = consumed["click"][k] + 1
            /\ consumed'["invalid"][k] = consumed["invalid"][k]
            /\ bucket'[k].impressions = CurrentCounters(k).impressions
            /\ bucket'[k].clicks = CurrentCounters(k).clicks + 1
        BY <2>1, <3>1, <3>2, <3>4, AppliedGrows DEF EventTypes
      <4> QED BY <1>a, <2>1, <2>3, <3>1, <4>1, CountedFacts DEF CountedOnce
    <3> QED BY <2>1, <3>3, <3>4
  <2>4. CASE key # k
    <3>1. CurrentCounters(key)' = CurrentCounters(key)
      BY <2>2, <2>4 DEF CurrentCounters, ExistingOrNew
    <3>2. \A t \in EventTypes : consumed'[t][key] = consumed[t][key]
      BY <2>1, <2>4, OffsetFacts DEF TypeOK
    <3> QED BY <1>a, <2>1, <3>1, <3>2 DEF CountedOnce, EventTypes
  <2> QED BY <2>3, <2>4
<1>4. ASSUME NEW k \in Keys, NEW t \in Nat, OnTimer(k, t) PROVE CountedOnce(key)'
  <2>1. UNCHANGED <<bucket, consumed, deadLetters, unflushed>>
    BY <1>4 DEF OnTimer
  <2>2. CurrentCounters(key)' = CurrentCounters(key)
    BY <1>4 DEF OnTimer, FlushBucketToRedis, CurrentCounters, ExistingOrNew, TypeOK
  <2> QED BY <1>a, <2>1, <2>2 DEF CountedOnce
<1>5. CASE CompleteCheckpoint
  <2>1. /\ UNCHANGED <<bucket, consumed, redis>>
        /\ deadLetters'[key] = deadLetters[key] + unflushed[key] /\ unflushed'[key] = 0
    BY <1>5 DEF CompleteCheckpoint, FlushSink, keyedState
  <2>2. CurrentCounters(key)' = CurrentCounters(key)
    BY <2>1 DEF CurrentCounters, ExistingOrNew
  <2> QED BY <1>a, <2>1, <2>2, CountedFacts DEF CountedOnce
<1> QED
  <2>1. ASSUME NEW type \in EventTypes, NEW k \in Keys, Produce(type, k)
        PROVE  UNCHANGED <<bucket, redis, consumed, deadLetters, unflushed>>
    BY <2>1 DEF Produce, keyedState
  <2>2. ASSUME Tick \/ UNCHANGED vars
        PROVE  UNCHANGED <<bucket, redis, consumed, deadLetters, unflushed>>
    BY <2>2 DEF Tick, vars, keyedState
  <2> QED
    BY <1>1, <1>2, <1>3, <1>4, <1>5, <2>1, <2>2, NotRestarted
       DEF Next, ProcessElement, FireTimer, TypeOK

(* Without restarts every record handled is counted once: an impression in *)
(* its bucket, a click in its bucket or as a dead letter, an invalid       *)
(* record as a dead letter (services/realtime_ctr.py, 93-118;              *)
(* run_realtime_ctr.py, 209-263, 302-332).                                 *)
THEOREM CountedOnceEach == ASSUME NoRestarts PROVE Spec => []EveryRecordCountedOnce
<1>1. Init => EveryRecordCountedOnce
  <2> SUFFICES ASSUME Init, NEW k \in Keys PROVE CountedOnce(k)
    BY DEF EveryRecordCountedOnce, CountedOnce, Start
  <2>1. CurrentCounters(k) = Start(k)
    BY DEF Init, CurrentCounters, Start
  <2>2. consumed["impression"][k] = 0 /\ consumed["click"][k] = 0 /\ consumed["invalid"][k] = 0
        /\ deadLetters[k] = 0 /\ unflushed[k] = 0
    BY DEF Init, NoRecords, EventTypes
  <2>3. Start(k).impressions \in Nat /\ Start(k).clicks \in Nat
    BY StartIsBucket DEF Bucket
  <2> QED BY <2>1, <2>2, <2>3 DEF CountedOnce
<1>2. TypeOK /\ LoadedInv /\ EveryRecordCountedOnce /\ [Next]_vars
        => EveryRecordCountedOnce'
  BY StepCountedOnce
<1> QED BY TypeCorrect, LoadedInvariant, <1>1, <1>2, PTL DEF Spec

-----------------------------------------------------------------------------
(* RedisAgreesWhenDrained, whatever fails.  A clean bucket that differs     *)
(* from its copy in Redis, now or as a restore would find it, has records  *)
(* to handle that will mark it dirty: an impression does, and a click does *)
(* when Redis, with as many impressions, has room for it.                  *)

Replays(k, b, updates, offsets) ==
    b # None /\ updates = 0 /\ redis[k] # b =>
        \/ offsets["impression"][k] < produced["impression"][k]
        \/ /\ offsets["click"][k] < produced["click"][k]
           /\ redis[k] # None
           /\ redis[k].impressions = b.impressions
           /\ b.clicks < redis[k].clicks

WithinTopics(k) ==
    \A t \in EventTypes :
        /\ consumed[t][k] <= produced[t][k]
        /\ checkpoint # None => checkpoint.consumed[t][k] <= consumed[t][k]

BucketReplays(k) == Replays(k, bucket[k], dirty[k], consumed)
RestoredReplays(k) ==
    checkpoint # None =>
        Replays(k, checkpoint.bucket[k], checkpoint.dirty[k], checkpoint.consumed)

WithinInv == \A k \in Keys : WithinTopics(k)
ReplayInv == \A k \in Keys : BucketReplays(k) /\ RestoredReplays(k)

LEMMA CheckpointType ==
    ASSUME TypeOK, checkpoint # None
    PROVE  /\ checkpoint.consumed \in Offsets
           /\ checkpoint.bucket \in [Keys -> BucketOrNone]
           /\ checkpoint.dirty \in [Keys -> Nat]
  BY DEF TypeOK, Checkpoint

LEMMA StepWithin == TypeOK /\ WithinInv /\ [Next]_vars => WithinInv'
<1> SUFFICES ASSUME TypeOK, WithinInv, [Next]_vars, NEW key \in Keys, NEW t \in EventTypes
             PROVE  /\ consumed'[t][key] <= produced'[t][key]
                    /\ checkpoint' # None =>
                          checkpoint'.consumed[t][key] <= consumed'[t][key]
  BY DEF WithinInv, WithinTopics
<1>a. /\ consumed[t][key] \in Nat /\ produced[t][key] \in Nat
      /\ consumed[t][key] <= produced[t][key]
  BY DEF TypeOK, Offsets, WithinInv, WithinTopics
<1>b. checkpoint # None => /\ checkpoint.consumed[t][key] \in Nat
                           /\ checkpoint.consumed[t][key] <= consumed[t][key]
  BY CheckpointType DEF Offsets, WithinInv, WithinTopics
<1>1. CASE UNCHANGED <<consumed, produced, checkpoint>>
  BY <1>1, <1>a, <1>b
<1>2. ASSUME NEW type \in EventTypes, NEW k \in Keys, TakeRecord(type, k),
             UNCHANGED <<produced, checkpoint>>
      PROVE  /\ consumed'[t][key] <= produced'[t][key]
             /\ checkpoint' # None => checkpoint'.consumed[t][key] <= consumed'[t][key]
  <2>1. consumed[type][k] < produced[type][k]
        /\ consumed'[t][key] = IF t = type /\ key = k THEN consumed[t][key] + 1
                               ELSE consumed[t][key]
    BY <1>2 DEF TakeRecord, TypeOK, Offsets
  <2> QED BY <1>2, <1>a, <1>b, <2>1
<1>3. ASSUME NEW type \in EventTypes, NEW k \in Keys, Produce(type, k)
      PROVE  /\ consumed'[t][key] <= produced'[t][key]
             /\ checkpoint' # None => checkpoint'.consumed[t][key] <= consumed'[t][key]
  <2>1. UNCHANGED <<consumed, checkpoint>>
        /\ produced' = [produced EXCEPT ![type][k] = @ + 1]
    BY <1>3 DEF Produce
  <2>2. produced'[t][key] \in {produced[t][key], produced[t][key] + 1}
    BY <2>1 DEF TypeOK, Offsets
  <2> QED BY <1>a, <1>b, <2>1, <2>2
<1>4. CASE CompleteCheckpoint
  <2>1. UNCHANGED <<consumed, produced>> /\ checkpoint'.consumed = consumed
    BY <1>4 DEF CompleteCheckpoint, Snapshot
  <2> QED BY <1>a, <2>1
<1>5. CASE RestoreFromCheckpoint
  <2>1. UNCHANGED <<checkpoint, produced>> /\ consumed' = checkpoint.consumed
        /\ checkpoint # None
    BY <1>5 DEF RestoreFromCheckpoint
  <2> QED BY <1>a, <1>b, <2>1
<1>6. CASE FreshStart
  <2>1. UNCHANGED produced /\ checkpoint' = None
        /\ (consumed' = NoRecords \/ consumed' = produced)
    BY <1>6 DEF FreshStart
  <2>2. consumed'[t][key] = 0 \/ consumed'[t][key] = produced[t][key]
    BY <2>1 DEF NoRecords
  <2> QED BY <1>a, <2>1, <2>2
<1>7. ASSUME NEW type \in EventTypes, NEW k \in Keys, ProcessElement(type, k)
      PROVE  TakeRecord(type, k) /\ UNCHANGED <<produced, checkpoint>>
  BY <1>7 DEF ProcessElement, DeadLetter, AcceptPerEvent, AcceptPeriodic
<1>8. ASSUME NEW k \in Keys, FireTimer(k)
      PROVE  UNCHANGED <<consumed, produced, checkpoint>>
  BY <1>8 DEF FireTimer, OnTimer
<1>9. ASSUME Tick \/ UNCHANGED vars PROVE UNCHANGED <<consumed, produced, checkpoint>>
  BY <1>9 DEF Tick, vars
<1> QED
  BY <1>1, <1>2, <1>3, <1>4, <1>5, <1>6, <1>7, <1>8, <1>9 DEF Next

(* When a bucket is written to Redis, one that a restore would take back   *)
(* either is the same or has since then gained records it would replay.    *)
LEMMA WrittenReplays ==
    ASSUME TypeOK', WithinInv', ExactlyOnceSinceCheckpoint', NEW k \in Keys,
           redis'[k] = bucket'[k]
    PROVE  RestoredReplays(k)'
<1> SUFFICES ASSUME checkpoint' # None, checkpoint'.bucket[k] # None,
                    redis'[k] # checkpoint'.bucket[k]
             PROVE  \/ checkpoint'.consumed["impression"][k] < produced'["impression"][k]
                    \/ /\ checkpoint'.consumed["click"][k] < produced'["click"][k]
                       /\ redis'[k] # None
                       /\ redis'[k].impressions = checkpoint'.bucket[k].impressions
                       /\ checkpoint'.bucket[k].clicks < redis'[k].clicks
  BY DEF RestoredReplays, Replays
<1>1. /\ checkpoint'.bucket[k] \in Bucket
      /\ \A t \in EventTypes : /\ checkpoint'.consumed[t][k] \in Nat
                               /\ consumed'[t][k] \in Nat
                               /\ produced'[t][k] \in Nat
  BY DEF TypeOK, Checkpoint, Offsets, BucketOrNone
<1>2. /\ redis'[k] # None
      /\ bucket'[k].impressions + checkpoint'.consumed["impression"][k]
           = checkpoint'.bucket[k].impressions + consumed'["impression"][k]
      /\ checkpoint'.bucket[k].clicks <= bucket'[k].clicks
      /\ bucket'[k].clicks + checkpoint'.consumed["click"][k]
           <= checkpoint'.bucket[k].clicks + consumed'["click"][k]
  BY DEF ExactlyOnceSinceCheckpoint
<1>3. bucket'[k] \in Bucket
  BY <1>2 DEF TypeOK, BucketOrNone
<1>4. \A t \in EventTypes : /\ checkpoint'.consumed[t][k] <= consumed'[t][k]
                            /\ consumed'[t][k] <= produced'[t][k]
  BY DEF WithinInv, WithinTopics
<1>5. CASE bucket'[k].impressions = checkpoint'.bucket[k].impressions
  <2>1. bucket'[k].clicks # checkpoint'.bucket[k].clicks
    BY <1>1, <1>3, <1>5 DEF Bucket
  <2>2. /\ bucket'[k].clicks \in Nat /\ checkpoint'.bucket[k].clicks \in Nat
    BY <1>1, <1>3 DEF Bucket
  <2>3. checkpoint'.bucket[k].clicks < bucket'[k].clicks
    BY <1>2, <2>1, <2>2
  <2> QED BY <1>1, <1>2, <1>4, <1>5, <2>2, <2>3 DEF EventTypes
<1>6. CASE bucket'[k].impressions # checkpoint'.bucket[k].impressions
  <2>1. bucket'[k].impressions \in Nat /\ checkpoint'.bucket[k].impressions \in Nat
    BY <1>1, <1>3 DEF Bucket
  <2> QED BY <1>1, <1>2, <1>4, <1>6, <2>1 DEF EventTypes
<1> QED BY <1>5, <1>6

LEMMA StepReplay ==
    ASSUME TypeOK, TypeOK', WithinInv, WithinInv', ExactlyOnceSinceCheckpoint',
           ReplayInv, [Next]_vars
    PROVE  ReplayInv'
<1> SUFFICES ASSUME NEW key \in Keys
             PROVE  BucketReplays(key)' /\ RestoredReplays(key)'
  BY DEF ReplayInv
<1>a. BucketReplays(key) /\ RestoredReplays(key)
  BY DEF ReplayInv
<1>b. \A t \in EventTypes : /\ consumed[t][key] \in Nat /\ produced[t][key] \in Nat
                            /\ consumed'[t][key] \in Nat /\ produced'[t][key] \in Nat
                            /\ checkpoint # None => checkpoint.consumed[t][key] \in Nat
  BY CheckpointType DEF TypeOK, Offsets
<1>1. CASE UNCHANGED <<bucket, dirty, redis, consumed, produced, checkpoint>>
  BY <1>1, <1>a DEF BucketReplays, RestoredReplays, Replays
<1>2. ASSUME NEW type \in EventTypes, NEW k \in Keys, Produce(type, k)
      PROVE  BucketReplays(key)' /\ RestoredReplays(key)'
  <2>1. UNCHANGED <<bucket, dirty, redis, consumed, checkpoint>>
        /\ produced' = [produced EXCEPT ![type][k] = @ + 1]
    BY <1>2 DEF Produce, keyedState
  <2>2. \A t \in EventTypes : produced[t][key] <= produced'[t][key]
    BY <1>b, <2>1 DEF TypeOK, Offsets
  <2> QED
    BY <1>a, <1>b, <2>1, <2>2
       DEF BucketReplays, RestoredReplays, Replays, EventTypes
<1>3. ASSUME NEW type \in EventTypes, NEW k \in Keys, DeadLetter(type, k)
      PROVE  BucketReplays(key)' /\ RestoredReplays(key)'
  <2>1. /\ type # "impression"
        /\ type = "click" => ~AcceptsEvent(type, LoadBucketState(k))
        /\ consumed' = [consumed EXCEPT ![type][k] = @ + 1]
        /\ UNCHANGED <<bucket, dirty, redis, produced, checkpoint>>
    BY <1>3 DEF DeadLetter, AcceptsEvent, TakeRecord, keyedState
  <2>2. RestoredReplays(key)'
    BY <1>a, <2>1 DEF RestoredReplays, Replays
  <2>3. consumed'["impression"][key] = consumed["impression"][key]
    BY <2>1 DEF TypeOK, Offsets, EventTypes
  <2>4. CASE consumed'["click"][key] = consumed["click"][key]
    BY <1>a, <2>1, <2>2, <2>3, <2>4 DEF BucketReplays, Replays
  <2>5. CASE key = k /\ type = "click"
    <3>1. bucket[k] # None => /\ bucket[k] \in Bucket
                              /\ ~(bucket[k].clicks + 1 <= bucket[k].impressions)
      BY <2>1, <2>5
         DEF AcceptsEvent, ExistingOrNew, LoadBucketState, TypeOK, BucketOrNone
    <3>2. redis[k] # None => redis[k] \in Bucket
      BY DEF TypeOK, BucketOrNone
    <3>3. ~ /\ bucket[k] # None /\ redis[k] # None
            /\ redis[k].impressions = bucket[k].impressions
            /\ bucket[k].clicks < redis[k].clicks
      BY <3>1, <3>2 DEF Bucket
    <3> QED BY <1>a, <2>1, <2>2, <2>3, <2>5, <3>3 DEF BucketReplays, Replays
  <2>6. consumed'["click"][key] = consumed["click"][key] \/ (key = k /\ type = "click")
    BY <2>1 DEF TypeOK, Offsets, EventTypes
  <2> QED BY <2>4, <2>5, <2>6
<1>4. ASSUME NEW type \in EventTypes, NEW k \in Keys,
             AcceptPerEvent(type, k) \/ AcceptPeriodic(type, k)
      PROVE  BucketReplays(key)' /\ RestoredReplays(key)'
  <2>1. /\ \A other \in Keys \ {k} : bucket'[other] = bucket[other]
        /\ consumed' = [consumed EXCEPT ![type][k] = @ + 1]
        /\ UNCHANGED <<checkpoint, produced>>
    BY <1>4, AcceptedBucket
  <2>2. CASE key # k
    <3>1. redis'[key] = redis[key] /\ dirty'[key] = dirty[key]
      BY <1>4, <2>2 DEF AcceptPerEvent, AcceptPeriodic, MarkBucketDirty, TypeOK
    <3>2. \A t \in EventTypes : consumed'[t][key] = consumed[t][key]
      BY <2>1, <2>2 DEF TypeOK, Offsets
    <3> QED
      BY <1>a, <2>1, <2>2, <3>1, <3>2
         DEF BucketReplays, RestoredReplays, Replays, EventTypes
  <2>3. CASE key = k /\ AcceptPerEvent(type, k)
    <3>1. redis'[k] = bucket'[k]
      BY <2>3 DEF AcceptPerEvent, TypeOK
    <3> QED BY <2>3, <3>1, WrittenReplays DEF BucketReplays, Replays
  <2>4. CASE key = k /\ AcceptPeriodic(type, k)
    <3>1. redis' = redis /\ dirty'[k] = dirty[k] + 1
      BY <2>4 DEF AcceptPeriodic, MarkBucketDirty, TypeOK
    <3>2. dirty'[k] # 0
      BY <3>1 DEF TypeOK
    <3> QED
      BY <1>a, <2>1, <2>4, <3>1, <3>2 DEF BucketReplays, RestoredReplays, Replays
  <2> QED BY <1>4, <2>2, <2>3, <2>4
<1>5. ASSUME NEW k \in Keys, FireTimer(k)
      PROVE  BucketReplays(key)' /\ RestoredReplays(key)'
  <2>1. UNCHANGED <<bucket, consumed, produced, checkpoint>>
    BY <1>5 DEF FireTimer, OnTimer
  <2>2. CASE redis'[key] = redis[key] /\ dirty'[key] = dirty[key]
    BY <1>a, <2>1, <2>2 DEF BucketReplays, RestoredReplays, Replays
  <2>3. CASE redis'[key] = bucket'[key]
    BY <2>3, WrittenReplays DEF BucketReplays, Replays
  <2>4. \/ UNCHANGED <<redis, dirty>>
        \/ /\ redis' = [redis EXCEPT ![k] = bucket[k]]
           /\ dirty' = [dirty EXCEPT ![k] = 0]
    BY <1>5 DEF FireTimer, OnTimer, FlushBucketToRedis
  <2> QED BY <2>1, <2>2, <2>3, <2>4 DEF TypeOK
<1>6. CASE CompleteCheckpoint
  <2>1. /\ UNCHANGED <<bucket, dirty, redis, consumed, produced>>
        /\ checkpoint'.bucket = bucket /\ checkpoint'.dirty = dirty
        /\ checkpoint'.consumed = consumed
    BY <1>6 DEF CompleteCheckpoint, Snapshot, keyedState
  <2> QED BY <1>a, <2>1 DEF BucketReplays, RestoredReplays, Replays
<1>7. CASE RestoreFromCheckpoint
  <2>1. /\ UNCHANGED <<redis, produced, checkpoint>> /\ checkpoint # None
        /\ bucket' = checkpoint.bucket /\ dirty' = checkpoint.dirty
        /\ consumed' = checkpoint.consumed
    BY <1>7 DEF RestoreFromCheckpoint
  <2> QED BY <1>a, <2>1 DEF BucketReplays, RestoredReplays, Replays
<1>8. CASE FreshStart
  BY <1>8 DEF FreshStart, BucketReplays, RestoredReplays, Replays
<1>9. ASSUME Tick \/ UNCHANGED vars
      PROVE  UNCHANGED <<bucket, dirty, redis, consumed, produced, checkpoint>>
  BY <1>9 DEF Tick, vars, keyedState
<1> QED
  BY <1>1, <1>2, <1>3, <1>4, <1>5, <1>6, <1>7, <1>8, <1>9 DEF Next, ProcessElement

(* Through any failures and replays, a drained bucket that is clean is in  *)
(* Redis as it is in keyed state (run_realtime_ctr.py, 209-263, 334-403).  *)
THEOREM RedisAgrees == Spec => []RedisAgreesWhenDrained
<1>1. Init => WithinInv /\ ReplayInv
  BY DEF Init, NoRecords, WithinInv, WithinTopics, ReplayInv, BucketReplays,
         RestoredReplays, Replays
<1>2. Spec => []WithinInv
  BY <1>1, StepWithin, TypeCorrect, PTL DEF Spec
<1>3. TypeOK /\ TypeOK' /\ WithinInv /\ WithinInv' /\ ExactlyOnceSinceCheckpoint'
        /\ ReplayInv /\ [Next]_vars => ReplayInv'
  BY StepReplay
<1>4. TypeOK /\ ReplayInv => RedisAgreesWhenDrained
  <2> SUFFICES ASSUME TypeOK, ReplayInv, NEW k \in Keys, Drained(k)
               PROVE  bucket[k] # None /\ dirty[k] = 0 => redis[k] = bucket[k]
    BY DEF RedisAgreesWhenDrained
  <2>1. /\ ~(consumed["impression"][k] < produced["impression"][k])
        /\ ~(consumed["click"][k] < produced["click"][k])
    BY DEF Drained, TypeOK, Offsets, EventTypes
  <2> QED BY <2>1 DEF ReplayInv, BucketReplays, Replays
<1> QED BY <1>1, <1>2, <1>3, <1>4, TypeCorrect, ExactlyOnce, PTL DEF Spec
=============================================================================
