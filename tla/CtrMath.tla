------------------------------ MODULE CtrMath ------------------------------
(***************************************************************************)
(* The numbers of the CTR model (services/ctr_math.py) and the Bayesian    *)
(* statistic of one bucket, which the seed dataset, the realtime service   *)
(* and the streaming weight update each build from the same formulas.      *)
(*                                                                         *)
(* Floats are fixed-point integers: a probability p is p * One, a weight   *)
(* (a log-odds) w is w * 100, a z-score z is z * 1000.  Divisions round    *)
(* down.  The logistic curve is a table with linear interpolation between  *)
(* its points; it is strictly increasing, so its inverse is exact.         *)
(***************************************************************************)
EXTENDS Integers, Sequences, FiniteSetsExt, SequencesExt

One == 40000

(* The ends of the table, where safe_logit clips.                          *)
LowestWeight == -550
TableStep == 10
SigmoidTable ==
    <<163, 180, 199, 219, 242, 268, 296, 327, 361, 398, 439, 485, 535, 591,
      652, 719, 794, 875, 965, 1064, 1172, 1292, 1423, 1567, 1724, 1897,
      2086, 2293, 2519, 2766, 3034, 3327, 3645, 3990, 4364, 4768, 5204, 5674,
      6179, 6719, 7297, 7913, 8567, 9259, 9990, 10758, 11562, 12401, 13272,
      14174, 15102, 16052, 17022, 18007, 19001, 20000>>
HighestWeight == LowestWeight + TableStep * (Len(SigmoidTable) - 1)

ClipValue(value, minimum, maximum) == Max({minimum, Min({value, maximum})})

Interpolate(i, r) ==
    IF r = 0 THEN SigmoidTable[i]
    ELSE SigmoidTable[i]
         + ((SigmoidTable[i + 1] - SigmoidTable[i]) * r) \div TableStep

Sigmoid(weight) ==
    LET offset == ClipValue(weight, LowestWeight, HighestWeight) - LowestWeight
    IN Interpolate(1 + offset \div TableStep, offset % TableStep)

(* The largest weight whose sigmoid does not exceed the probability, which *)
(* is first clipped to the table's range.                                  *)
SafeLogit(probability) ==
    LET p == ClipValue(probability, SigmoidTable[1], Last(SigmoidTable))
        i == Max({k \in DOMAIN SigmoidTable : SigmoidTable[k] <= p})
        r == IF i = Len(SigmoidTable) THEN 0
             ELSE Max({k \in 0 .. TableStep - 1 : Interpolate(i, k) <= p})
    IN LowestWeight + (i - 1) * TableStep + r

(* math.sqrt, rounded down, for an argument below 2^30: digit by digit, in *)
(* base 32.                                                                *)
ISqrt(n) ==
    LET Digit(root, unit) ==
            Max({d \in 0 .. 31 : (root + unit * d) * (root + unit * d) <= n})
        high == 1024 * Digit(0, 1024)
        middle == high + 32 * Digit(high, 32)
    IN middle + Digit(middle, 1)

(* The mean of the Beta posterior: the prior's weight in it is its         *)
(* strength, a number of impressions.                                      *)
PosteriorMean(prior, strength, impressions, clicks) ==
    (prior * strength + clicks * One) \div (strength + impressions)

(* alpha * beta / (total^2 * (total + 1)) with alpha = mean * total.       *)
BetaVariance(mean, total) == (mean * (One - mean)) \div (total + 1)

ClippedConfidenceInterval(mean, variance, z) ==
    LET margin == (z * ISqrt(100 * variance)) \div 10000
    IN [low |-> Max({0, mean - margin}), high |-> Min({One, mean + margin})]

IntervalWidth(interval) == interval.high - interval.low

-----------------------------------------------------------------------------
(* One bucket's statistic                                                  *)

(* The trust guardrails, CtrTrustThresholds' defaults.                     *)
TrustZScore == 1960
TrustMinImpressions == 100
TrustMaxVariance == 5 * (One \div 100) * (One \div 100)   \* 0.0005
TrustMaxCiWidth == One \div 20                            \* 0.05

(* The sum a bucket's prior is the sigmoid of; a value no weight is known  *)
(* for adds nothing (dict.get with 0.0).                                   *)
PriorMean(model, triplet) ==
    Sigmoid(model.w0
            + SumFunction([family \in DOMAIN triplet |->
                  IF triplet[family] \in DOMAIN model.weights[family]
                  THEN model.weights[family][triplet[family]] ELSE 0]))

(* _build_bucket: the statistic of a bucket with these counts and prior.   *)
BucketStatistic(impressions, clicks, prior, strength) ==
    LET ctr == PosteriorMean(prior, strength, impressions, clicks)
        variance == BetaVariance(ctr, strength + impressions)
        interval == ClippedConfidenceInterval(ctr, variance, TrustZScore)
    IN [impressions |-> impressions, clicks |-> clicks,
        prior |-> prior, ctr |-> ctr, variance |-> variance,
        ciLow |-> interval.low, ciHigh |-> interval.high,
        trusted |-> /\ impressions >= TrustMinImpressions
                    /\ variance <= TrustMaxVariance
                    /\ IntervalWidth(interval) <= TrustMaxCiWidth]

(* What the models SeedBucketStatistic and CtrBucketStatistic accept.      *)
ValidStatistic(s) ==
    /\ s.impressions \in Nat /\ s.clicks \in 0 .. s.impressions
    /\ 0 < s.prior /\ s.prior < One
    /\ s.ctr \in 0 .. One
    /\ s.variance >= 0
    /\ s.ciLow \in 0 .. One /\ s.ciHigh \in s.ciLow .. One
=============================================================================
