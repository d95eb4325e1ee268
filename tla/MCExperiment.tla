---------------------------- MODULE MCExperiment ----------------------------
(***************************************************************************)
(* Small instances of Experiment for TLC: the definitions in               *)
(* experiments/configs, with both delta gates set, and one more.           *)
(***************************************************************************)
EXTENDS Experiment

Impression(k) == [key |-> k, kind |-> "impression"]
Click(k) == [key |-> k, kind |-> "click"]
First == CHOOSE k \in Keys : TRUE

LocalSmoke ==
    [phases |-> 2, batch |-> <<Impression(First), Click(First)>>,
     cleanTopics |-> FALSE, resetValues |-> FALSE, seedValues |-> FALSE,
     preload |-> FALSE, traffic |-> TRUE, enabled |-> {}, offsets |-> "latest",
     matchImpressions |-> FALSE, matchClicks |-> FALSE, requireModel |-> FALSE]

FullSystem ==
    [phases |-> 2, batch |-> <<Impression(First), Click(First)>>,
     cleanTopics |-> TRUE, resetValues |-> TRUE, seedValues |-> TRUE,
     preload |-> FALSE, traffic |-> TRUE, enabled |-> Processors, offsets |-> "latest",
     matchImpressions |-> TRUE, matchClicks |-> TRUE, requireModel |-> TRUE]

Baseline ==
    [FullSystem EXCEPT !.preload = TRUE, !.enabled = {"realtime_ctr"},
                       !.offsets = "earliest", !.requireModel = FALSE]

(* Both delta gates on its own realtime job, which may be up too late and  *)
(* begins behind the last record.  Of two impressions one may be lost and  *)
(* the other counted again.                                                *)
Measured == [FullSystem EXCEPT !.enabled = {"realtime_ctr"}, !.requireModel = FALSE,
    !.phases = 1, !.batch = <<Impression(First), Impression(First), Click(First)>>]

(* No traffic: the processors are measured alone.                          *)
Quiet == [LocalSmoke EXCEPT !.traffic = FALSE, !.enabled = Processors]

AllDefinitions == {LocalSmoke, FullSystem, Baseline, Quiet, Measured}

(* Restores and repeated reads, when the job may still be behind by        *)
(* anything that was sent.                                                 *)
MeasuredDisturbed == {Measured} \X {"settle", "final"}

OneSeeded == [k \in Keys |-> [impressions |-> 1, clicks |-> 0]]

(* Redis empty or with a bucket, and one impression in the topics.         *)
FoundBefore ==
    {[redis |-> [k \in Keys |-> bucket],
      topic |-> [record \in Records |-> IF record.kind = "impression" THEN 1 ELSE 0]] :
        bucket \in {None, [impressions |-> 2, clicks |-> 1]}}

=============================================================================
