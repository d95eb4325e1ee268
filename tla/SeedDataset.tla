---------------------------- MODULE SeedDataset ----------------------------
(***************************************************************************)
(* The deterministic dataset seed-values writes                            *)
(* (services/seed_values_dataset.py), the checks its models make           *)
(* (models/seed.py), and the simulated traffic drawn from the same         *)
(* categories and weights (services/event_simulator.py).  Numbers are the  *)
(* fixed-point ones of CtrMath.                                            *)
(***************************************************************************)
EXTENDS CtrMath

AdCategories == <<"finance", "travel", "education", "health", "gaming">>
PublisherDomains ==
    <<"news.example", "tech.example", "lifestyle.example", "sports.example">>
ConversationCategories ==
    <<"personal_finance", "trip_planning", "online_learning", "wellness",
      "gaming">>

Families == {"ad", "domain", "context"}

SeedWeights ==
    [ad |-> [finance |-> 18, travel |-> 8, education |-> 2, health |-> -6,
             gaming |-> -22],
     domain |-> [d \in Range(PublisherDomains) |->
                    CASE d = "news.example" -> 5
                      [] d = "tech.example" -> 12
                      [] d = "lifestyle.example" -> -3
                      [] d = "sports.example" -> -14],
     context |-> [personal_finance |-> 16, trip_planning |-> 9,
                  online_learning |-> 2, wellness |-> -4, gaming |-> -23]]

BaselineCtr == One \div 50
Strengths ==
    [triplet |-> 100, global |-> 500, ad |-> 200, domain |-> 200, context |-> 150]

(* One hundred triplets, in the order of the three nested loops; the       *)
(* indices of a triplet count from 0.                                      *)
Places == 1 .. Len(AdCategories) * Len(PublisherDomains)
               * Len(ConversationCategories)
AdIndex(k) == (k - 1) \div (Len(PublisherDomains) * Len(ConversationCategories))
DomainIndex(k) ==
    ((k - 1) \div Len(ConversationCategories)) % Len(PublisherDomains)
ContextIndex(k) == (k - 1) % Len(ConversationCategories)
TripletAt(k) == [ad |-> AdCategories[AdIndex(k) + 1],
                 domain |-> PublisherDomains[DomainIndex(k) + 1],
                 context |-> ConversationCategories[ContextIndex(k) + 1]]

-----------------------------------------------------------------------------
(* The dataset                                                             *)

SeedImpressions(k) ==
    120 + 37 * AdIndex(k) + 29 * DomainIndex(k) + 19 * ContextIndex(k)
        + ((AdIndex(k) + DomainIndex(k) + ContextIndex(k)) % 5) * 11

(* The expected clicks, rounded, and one more or less.                     *)
SeedClicks(k, prior) ==
    LET expected == (SeedImpressions(k) * prior + One \div 2) \div One
        adjustment == ((2 * AdIndex(k) + DomainIndex(k) + ContextIndex(k)) % 3) - 1
    IN ClipValue(expected + adjustment, 0, SeedImpressions(k))

SeedModel(baselinePriorMean, strengths) ==
    [w0 |-> SafeLogit(baselinePriorMean), weights |-> SeedWeights,
     baselineCtr |-> baselinePriorMean, strengths |-> strengths]

(* The buckets at these places of the dataset.                             *)
SeedBuckets(model, places) ==
    LET Bucket(k) ==
            LET prior == PriorMean(model, TripletAt(k))
            IN BucketStatistic(SeedImpressions(k), SeedClicks(k, prior), prior,
                               model.strengths.triplet)
        place == [t \in {TripletAt(k) : k \in places} |->
                     CHOOSE k \in places : TripletAt(k) = t]
    IN [t \in DOMAIN place |-> Bucket(place[t])]

SeedRunSummary(buckets) ==
    [bucketCount |-> Cardinality(DOMAIN buckets),
     trustedBucketCount |->
         Cardinality({t \in DOMAIN buckets : buckets[t].trusted}),
     totalImpressions |->
         SumFunction([t \in DOMAIN buckets |-> buckets[t].impressions]),
     totalClicks |-> SumFunction([t \in DOMAIN buckets |-> buckets[t].clicks])]

FamilySum(weights) == SumFunction(weights)

(* SeedWeights.validate_centered_family: rounding down leaves less than    *)
(* one unit for each of the family's values.                               *)
CenteredFamily(weights) ==
    DOMAIN weights # {} /\ FamilySum(weights) \in 0 .. Cardinality(DOMAIN weights) - 1

(* SeedModelSnapshot with the models it holds.                             *)
ValidModel(model) ==
    /\ \A family \in Families : CenteredFamily(model.weights[family])
    /\ 0 < model.baselineCtr /\ model.baselineCtr < One
    /\ \A name \in DOMAIN model.strengths : model.strengths[name] > 0

-----------------------------------------------------------------------------
(* Simulated traffic                                                       *)

(* _build_candidates: twenty times traffic_weight.                         *)
TrafficWeight(k) ==
    20 + 5 * (Len(AdCategories) - AdIndex(k))
       + 4 * (Len(PublisherDomains) - DomainIndex(k))
       + 3 * (Len(ConversationCategories) - ContextIndex(k))

RunningWeight == [k \in Places |-> SumFunction([j \in 1 .. k |-> TrafficWeight(j)])]
TotalWeight == RunningWeight[Max(Places)]

(* The candidate the draw selected \in 0 .. TotalWeight falls on, the last *)
(* one when it falls on none.                                              *)
ChooseCandidate(selected) ==
    LET reached == {k \in Places : RunningWeight[k] >= selected}
    IN TripletAt(IF reached = {} THEN Max(Places) ELSE Min(reached))

(* What a simulated impression is clicked with: the seed's own model, and  *)
(* not the current one, is the truth behind the traffic.                   *)
ClickProbability(triplet) ==
    PriorMean(SeedModel(BaselineCtr, Strengths), triplet)
=============================================================================
