--------------------------- MODULE MCModelUpdate ---------------------------
(***************************************************************************)
(* ModelUpdate with the configurations of configs/run_weight_update.yaml   *)
(* and configs/run_streaming_weight_update.yaml, a run with                *)
(* --no-baseline-update and a dry run, on a fifth of the seed dataset.     *)
(***************************************************************************)
EXTENDS ModelUpdate

BatchConfig ==
    [streaming |-> FALSE, learningRate |-> 25, smoothing |-> 1000, ridge |-> 1,
     maxDelta |-> 25, minImpressions |-> 500, maxFeatureWidth |-> One \div 50,
     baselineUpdate |-> TRUE, maxBaselineWidth |-> One \div 200, dryRun |-> FALSE]
StreamConfig ==
    [BatchConfig EXCEPT !.streaming = TRUE, !.maxBaselineWidth = One \div 20]

MCConfigs ==
    {BatchConfig, StreamConfig,
     [BatchConfig EXCEPT !.baselineUpdate = FALSE, !.maxDelta = 5],
     [BatchConfig EXCEPT !.dryRun = TRUE],
     [StreamConfig EXCEPT !.baselineUpdate = FALSE, !.dryRun = TRUE]}

(* Every fifth triplet: each value of each family occurs with each other.  *)
MCSeededPlaces ==
    {k \in Places : (AdIndex(k) + DomainIndex(k) + ContextIndex(k)) % 5 = 0}

MCDraws == {0, TotalWeight}
MCClickFactors == {1, 5}

(* Two new ad categories on a known domain, in a known context.            *)
MCOtherTriplets ==
    {[ad |-> ad, domain |-> "tech.example", context |-> "gaming"] :
        ad \in {"cars", "food"}}

MCOddKeys == {t \in MCOtherTriplets : t.ad = "cars"}
=============================================================================
