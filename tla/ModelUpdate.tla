---------------------------- MODULE ModelUpdate ----------------------------
(***************************************************************************)
(* What a weight update computes (services/weight_update_service.py) and   *)
(* the evidence it computes from: the buckets the realtime job keeps in    *)
(* Redis, or the counters of the streaming job.  The calls of an update    *)
(* and their interleavings are the subject of WeightUpdate and             *)
(* StreamingWeightUpdate; here an update is one step, and its numbers are  *)
(* computed in full, with the fixed-point arithmetic of CtrMath, on the    *)
(* seeded model and dataset.                                               *)
(***************************************************************************)
EXTENDS SeedDataset

CONSTANTS
    SeededPlaces,    \* bound: which places of the dataset are in Redis
    Configs,         \* the run configurations an update may be started with
    Draws,           \* what the simulator's draw of a candidate may select
    OtherTriplets,   \* triplets only events of other producers have
    ClickFactors,    \* a batch has so many times its expected clicks
    BatchSize,       \* impressions in a batch of traffic
    OddKeys,         \* bound: the keys a scan may repeat or fail to read
    MaxBatches,      \* bound: batches of traffic
    MaxUpdates       \* bound: weight updates

ASSUME NumberAssumption ==
    /\ SeededPlaces \subseteq Places
    /\ Draws \subseteq 0 .. TotalWeight
    /\ ClickFactors \subseteq Nat
    /\ BatchSize \in Nat \ {0}
    /\ OtherTriplets \subseteq [ad : STRING, domain : STRING, context : STRING]
    /\ \A c \in Configs : /\ c.learningRate \in Nat \ {0}
                          /\ c.smoothing \in Nat /\ c.ridge \in Nat
                          /\ c.maxDelta \in Nat \ {0}
                          /\ c.minImpressions \in Nat \ {0}
                          /\ c.maxFeatureWidth \in Nat \ {0}
                          /\ c.maxBaselineWidth \in Nat \ {0}
    /\ MaxBatches \in Nat /\ MaxUpdates \in Nat

VARIABLES
    model,      \* weights:current
    buckets,    \* the ctr:* keys of Redis
    jobModel,   \* the model the realtime job read in open()
    counters,   \* the streaming job's counters per triplet
    run,        \* what the update that was the last step was given and returned
    batches,    \* batches of traffic so far
    updates     \* updates so far

vars == <<model, buckets, jobModel, counters, run, batches, updates>>

NoRun == [accepted |-> FALSE, reason |-> "no run"]

(* After seed-values, with the realtime and the streaming job started.     *)
Init ==
    /\ model = SeedModel(BaselineCtr, Strengths)
    /\ buckets = SeedBuckets(model, SeededPlaces)
    /\ jobModel = model
    /\ counters = << >>
    /\ run = NoRun
    /\ batches = 0 /\ updates = 0

-----------------------------------------------------------------------------
(* Traffic                                                                 *)

(* initialize_bucket and _recompute_bucket: the prior of a bucket is the   *)
(* one it was created with, from the model the job has read.               *)
Counted(triplet, impressions, clicks) ==
    IF triplet \in DOMAIN buckets
    THEN BucketStatistic(buckets[triplet].impressions + impressions,
                         buckets[triplet].clicks + clicks,
                         buckets[triplet].prior, Strengths.triplet)
    ELSE BucketStatistic(impressions, clicks, PriorMean(jobModel, triplet),
                         Strengths.triplet)

CounterOf(triplet) ==
    IF triplet \in DOMAIN counters THEN counters[triplet]
    ELSE [impressions |-> 0, clicks |-> 0]

(* A dictionary with this value under this key.                            *)
Stored(dictionary, key, value) ==
    [k \in DOMAIN dictionary \cup {key} |->
        IF k = key THEN value ELSE dictionary[k]]

(* Both jobs handle a batch of events; the realtime job lets no click in   *)
(* before its impression (apply_event), the streaming job counts them all. *)
Observe(triplet, impressions, clicks) ==
    /\ batches < MaxBatches
    /\ batches' = batches + 1
    /\ LET bucket == Counted(triplet, impressions, clicks)
           counter == CounterOf(triplet)
       IN /\ bucket.clicks <= bucket.impressions
          /\ buckets' = Stored(buckets, triplet, bucket)
          /\ counters' = Stored(counters, triplet,
                              [impressions |-> counter.impressions + impressions,
                               clicks |-> counter.clicks + clicks])
    /\ run' = NoRun
    /\ UNCHANGED <<model, jobModel, updates>>

(* build_batch, for one candidate: impressions and what chance makes of    *)
(* their clicks.                                                           *)
ProduceEvents(selected, factor) ==
    LET triplet == ChooseCandidate(selected)
        expected == (BatchSize * ClickProbability(triplet)) \div One
    IN Observe(triplet, BatchSize, factor * expected)

(* Another producer's events: any names, any click rate.                   *)
ForeignEvents(triplet, factor) ==
    Observe(triplet, BatchSize, factor * ((BatchSize * BaselineCtr) \div One))

(* Clicks on impressions of before the streaming job started: its counter  *)
(* of the triplet may have clicks ahead of impressions.                    *)
LateClicks(triplet) ==
    triplet \in DOMAIN buckets
    /\ Observe(triplet, 0, Max({1, (BatchSize * BaselineCtr) \div (10 * One)}))

-----------------------------------------------------------------------------
(* Evidence: the statistics an update is given, how often each was read,   *)
(* and how many keys could not be used                                     *)

(* scan_bucket_statistics: SCAN may return a key again, and a key may be   *)
(* gone, or unreadable, when it is read.                                   *)
RedisEvidence(again, unread) ==
    LET read == DOMAIN buckets \ unread
    IN [buckets |-> [t \in read |-> buckets[t]],
        visits |-> [t \in read |-> IF t \in again THEN 2 ELSE 1],
        unusable |-> Cardinality(unread)]

(* build_snapshot: each counter becomes a statistic with a prior from the  *)
(* current model, unless its clicks are ahead of its impressions.          *)
StreamEvidence ==
    LET valid == {t \in DOMAIN counters :
                     /\ counters[t].impressions > 0
                     /\ counters[t].clicks <= counters[t].impressions}
    IN [buckets |-> [t \in valid |->
            BucketStatistic(counters[t].impressions, counters[t].clicks,
                            PriorMean(model, t), Strengths.triplet)],
        visits |-> [t \in valid |-> 1],
        unusable |-> Cardinality(DOMAIN counters \ valid)]

Usable(evidence) ==
    {t \in DOMAIN evidence.buckets :
        /\ evidence.buckets[t].impressions > 0
        /\ evidence.buckets[t].clicks <= evidence.buckets[t].impressions}

(* What was read of these triplets, a key read twice counting twice.       *)
Totals(evidence, triplets) ==
    [impressions |-> SumFunction([t \in triplets |->
                         evidence.visits[t] * evidence.buckets[t].impressions]),
     clicks |-> SumFunction([t \in triplets |->
                    evidence.visits[t] * evidence.buckets[t].clicks])]

(* _aggregate_single_feature_buckets, for one family.                      *)
FeatureBuckets(evidence, family) ==
    [f \in {t[family] : t \in Usable(evidence)} |->
        Totals(evidence, {t \in Usable(evidence) : t[family] = f})]

-----------------------------------------------------------------------------
(* The baseline                                                            *)

UpdateZScore == 1645

Abs(n) == Max({n, -n})

(* A posterior mean that forgets the prior's share of the total.           *)
PriorNotInTotal(prior, strength, total) ==
    LET mean == (prior * strength + total.clicks * One)
                    \div Max({1, total.impressions})
        variance == BetaVariance(Min({mean, One}), strength + total.impressions)
    IN [mean |-> Min({mean, One}),
        width |-> IntervalWidth(
                      ClippedConfidenceInterval(mean, variance, UpdateZScore))]

(* A posterior mean and the width of its interval, from a prior mean.      *)
Posterior(prior, strength, total) ==
    LET mean == PosteriorMean(prior, strength, total.impressions, total.clicks)
        variance == BetaVariance(mean, strength + total.impressions)
    IN [mean |-> mean,
        width |-> IntervalWidth(
                      ClippedConfidenceInterval(mean, variance, UpdateZScore))]

BaselineProposal(evidence, config) ==
    LET total == Totals(evidence, Usable(evidence))
        posterior == Posterior(Sigmoid(model.w0), model.strengths.global, total)
        reason == IF ~config.baselineUpdate THEN "baseline_update_disabled"
                  ELSE IF posterior.width > config.maxBaselineWidth
                  THEN "baseline_ci_width_too_wide"
                  ELSE "baseline_guards_passed"
        applied == reason = "baseline_guards_passed"
    IN [applied |-> applied, reason |-> reason, total |-> total,
        w0 |-> IF applied THEN SafeLogit(posterior.mean) ELSE model.w0]

-----------------------------------------------------------------------------
(* The feature families                                                    *)

(* A value no weight is known for starts at zero.                          *)
KnownWeights(weights, features) ==
    [f \in DOMAIN weights \cup features |->
        IF f \in DOMAIN weights THEN weights[f] ELSE 0]

(* The mean of the values with evidence only.                              *)
CenterSeen(weights, features) ==
    LET n == Max({1, Cardinality(features)})
        mean == SumFunctionOnSet(weights, features) \div n
    IN [f \in DOMAIN weights |-> weights[f] - mean]

(* _center_family: every value moves by the family's mean, those without   *)
(* evidence too.                                                           *)
CenterFamily(weights, features) ==
    LET mean == FamilySum(weights) \div Cardinality(DOMAIN weights)
    IN [f \in DOMAIN weights |-> weights[f] - mean]

(* Learning with the sign of the error turned.                             *)
AwayFromTarget(weight, target, total, config) ==
    LET raw == (config.learningRate * total.impressions * (weight - target))
                   \div (100 * (total.impressions + config.smoothing))
        ridge == (config.ridge * weight) \div 100
    IN ClipValue(raw - ridge, -config.maxDelta, config.maxDelta)

(* The delta without its limit.                                            *)
UnclippedDelta(weight, target, total, config) ==
    (config.learningRate * total.impressions * (target - weight))
        \div (100 * (total.impressions + config.smoothing))
    - (config.ridge * weight) \div 100

(* A step towards the evidence, the larger the more there is of it, less   *)
(* the ridge, and limited.                                                 *)
Delta(weight, target, total, config) ==
    LET raw == (config.learningRate * total.impressions * (target - weight))
                   \div (100 * (total.impressions + config.smoothing))
        ridge == (config.ridge * weight) \div 100
    IN ClipValue(raw - ridge, -config.maxDelta, config.maxDelta)

(* What one value learns from its evidence, the weight being the old one.  *)
LearnFeature(family, weight, total, config) ==
    LET posterior == Posterior(Sigmoid(model.w0 + weight), model.strengths[family],
                               total)
    IN [outcome |->
            IF total.impressions < config.minImpressions THEN "insufficient"
            ELSE IF posterior.width > config.maxFeatureWidth THEN "wide"
            ELSE "updated",
        delta |-> Delta(weight, SafeLogit(posterior.mean) - model.w0, total, config)]

(* The family after its values have learned.                               *)
FamilyResult(family, total, known, results) ==
    LET Having(outcomes) == {f \in DOMAIN total : results[f].outcome \in outcomes}
        learned == Having({"updated"})
        adjusted == [f \in DOMAIN known |->
                        IF f \in learned THEN known[f] + results[f].delta
                        ELSE known[f]]
    IN [weights |-> CenterFamily(adjusted, DOMAIN total),
        before |-> known, total |-> total,
        updated |-> learned,
        skipped |-> Having({"insufficient", "wide"}),
        unknown |-> DOMAIN total \ DOMAIN model.weights[family],
        maxDelta |-> Max({0} \cup {Abs(results[f].delta) : f \in learned})]

LearnFamily(family, total, known, config) ==
    FamilyResult(family, total, known,
        [f \in DOMAIN total |-> LearnFeature(family, known[f], total[f], config)])

(* _update_feature_family, from the totals of the family's values.         *)
UpdateFeatureFamily(family, total, config) ==
    LearnFamily(family, total, KnownWeights(model.weights[family], DOMAIN total),
                config)

-----------------------------------------------------------------------------
(* One update                                                              *)

(* _build_metrics, what the recorded row says of the features.  A run the  *)
(* baseline stopped has skipped all of them (_empty_family_result).        *)
Metrics(evidence, families, learned, baseline) ==
    LET Count(parts(_)) == SumFunction([family \in Families |->
            Cardinality(parts(families[family]))])
        invalid == evidence.unusable
                   + Cardinality(DOMAIN evidence.buckets \ Usable(evidence))
    IN [scanned |-> evidence.unusable
                    + SumFunction(evidence.visits),
        invalid |-> invalid,
        features |-> Count(LAMBDA r : DOMAIN r.total),
        updated |-> IF learned THEN Count(LAMBDA r : r.updated) ELSE 0,
        skipped |-> IF learned THEN Count(LAMBDA r : r.skipped)
                    ELSE Count(LAMBDA r : DOMAIN r.total),
        unknown |-> IF learned THEN Count(LAMBDA r : r.unknown) ELSE 0,
        maxDelta |-> IF learned
                     THEN Max({families[family].maxDelta : family \in Families})
                     ELSE 0,
        baseline |-> baseline.reason, total |-> baseline.total]

(* What recalibrate returns: with the baseline update asked for, a baseline *)
(* that is too uncertain stops the run; otherwise it stops when no feature *)
(* was updated either.                                                     *)
Result(evidence, config, baseline, families) ==
    LET learned == config.baselineUpdate => baseline.applied
        changed == baseline.applied
                   \/ \E family \in Families : families[family].updated # {}
        accepted == learned /\ changed
        new == [w0 |-> baseline.w0,
                weights |-> [family \in Families |-> families[family].weights],
                baselineCtr |-> IF config.baselineUpdate THEN Sigmoid(baseline.w0)
                                ELSE model.baselineCtr,
                strengths |-> model.strengths]
    IN [accepted |-> accepted,
        reason |-> IF ~learned THEN baseline.reason
                   ELSE IF ~changed THEN "no_feature_buckets_passed_guards"
                   ELSE "accepted",
        config |-> config, baseline |-> baseline, families |-> families,
        snapshot |-> IF accepted THEN new ELSE model,
        metrics |-> Metrics(evidence, families, learned, baseline)]

(* recalibrate.  The features learn against the old baseline.              *)
Recalibrate(evidence, config) ==
    LET Learned(family) ==
            UpdateFeatureFamily(family, FeatureBuckets(evidence, family), config)
    IN /\ updates < MaxUpdates
       /\ updates' = updates + 1
       /\ run' = Result(evidence, config, BaselineProposal(evidence, config),
                        [ad |-> Learned("ad"), domain |-> Learned("domain"),
                         context |-> Learned("context")])
       /\ model' = IF config.dryRun THEN model ELSE run'.snapshot
       /\ UNCHANGED <<buckets, jobModel, counters, batches>>

BatchUpdate(config) ==
    \E again, unread \in SUBSET (OddKeys \cap DOMAIN buckets) :
        /\ again \cap unread = {}
        /\ Recalibrate(RedisEvidence(again, unread), config)

StreamingUpdate(config) == Recalibrate(StreamEvidence, config)

Next ==
    \/ \E selected \in Draws, factor \in ClickFactors :
          ProduceEvents(selected, factor)
    \/ \E triplet \in OtherTriplets, factor \in ClickFactors :
          ForeignEvents(triplet, factor)
    \/ \E selected \in Draws : LateClicks(ChooseCandidate(selected))
    \/ \E config \in Configs :
          \/ config.streaming /\ StreamingUpdate(config)
          \/ ~config.streaming /\ BatchUpdate(config)

Spec == Init /\ [][Next]_vars

-----------------------------------------------------------------------------
(* Properties                                                              *)

(* Everything in the stores passes the models it is read back with: each   *)
(* family of weights is centred (up to rounding), also after new values    *)
(* have joined it and others were left out of an update; each bucket's     *)
(* counts, prior, mean and interval are in range.  A model that failed     *)
(* this would end the update after its work, and every later one.          *)
TypeOK ==
    /\ ValidModel(model)
    /\ ValidModel(jobModel)
    /\ \A t \in DOMAIN buckets : ValidStatistic(buckets[t])
    /\ \A t \in DOMAIN counters : counters[t].clicks \in Nat
    /\ batches \in 0 .. MaxBatches
    /\ updates \in 0 .. MaxUpdates

(* max_delta limits a weight before its family is centred.  After that, a  *)
(* value that learned has still moved by less than twice the limit, and    *)
(* one that did not by no more than the others' share of the mean, whose   *)
(* number is how many learned (one unit of rounding per value is allowed). *)
MovementBounded ==
    [][model' # model =>
        \A family \in Families : \A f \in DOMAIN model'.weights[family] :
          LET result == run'.families[family]
              n == Cardinality(DOMAIN model'.weights[family])
              limit == run'.config.maxDelta
              others == result.updated \ {f}
              own == IF f \in result.updated THEN n - 1 ELSE 0
          IN n * Abs(model'.weights[family][f] - result.before[f])
                 <= (own + Cardinality(others)) * limit + n]_vars

(* Every update learns the whole evidence again, from a prior the last one *)
(* has already moved.  It still never takes the baseline past the observed *)
(* click rate: the new baseline lies between the old one and the rate.     *)
BaselineBetween ==
    [][model' # model =>
       LET total == run'.baseline.total
           observed == SafeLogit((total.clicks * One) \div Max({1, total.impressions}))
       IN /\ Min({model.w0, observed}) <= model'.w0
          /\ model'.w0 <= Max({model.w0, observed})]_vars

(* Two values of a family that were weighted alike and were seen equally   *)
(* often come out in the order of their clicks, whatever was clipped,      *)
(* smoothed or centred, and even when the update is a dry run.             *)
RankFollowsEvidence ==
    run.accepted =>
        \A family \in Families :
            LET r == run.families[family]
            IN \A f, g \in r.updated :
                  /\ r.before[f] = r.before[g]
                  /\ r.total[f].impressions = r.total[g].impressions
                  /\ r.total[f].clicks < r.total[g].clicks
                  => r.weights[f] <= r.weights[g]
=============================================================================
