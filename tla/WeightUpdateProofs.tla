------------------------- MODULE WeightUpdateProofs -------------------------
(***************************************************************************)
(* Proofs about WeightUpdate, for every set of commands and every bound.   *)
(***************************************************************************)
EXTENDS WeightUpdate, TLAPS

(* A command about to write or insert has computed the model, and is no    *)
(* dry run; readers have not seen the model before it writes, and know no  *)
(* end of it before it inserts.                                            *)
WriterInv ==
    /\ unrecorded \subseteq published
    /\ \A u \in Updaters :
          /\ pc[u] \in {"write", "insert"} =>
                /\ proposal[u] \in ModelIds
                /\ models[proposal[u]].author = u
                /\ u \notin DryRun
          /\ pc[u] = "write" => proposal[u] \notin published
          /\ pc[u] = "insert" => proposal[u] \in published \ unrecorded

Inv == TypeOK /\ WriterInv

LEMMA InitInv == Init => Inv
<1> SUFFICES ASSUME Init PROVE TypeOK /\ WriterInv
  BY DEF Inv
<1>1. models \in Seq(Model) /\ Len(models) = 1
  BY DEF Init, Model, SeededModel, ImpressionsOrNone
<1>2. NoVisits \in [Buckets -> Seq(ImpressionsOrNone)]
  BY DEF NoVisits
<1>3. rows \in Seq(ModelIds) /\ 1 \in ModelIds
  BY <1>1 DEF Init, ModelIds
<1> QED
  BY <1>1, <1>2, <1>3, UpdaterAssumption
     DEF Init, TypeOK, WriterInv, Calls, ImpressionsOrNone

(* The variables of one command that BeginScan, and Stop, set again.       *)
LEMMA BeginScanInv ==
    ASSUME TypeOK, NEW u \in Updaters, BeginScan(u)
    PROVE  /\ pc' = [pc EXCEPT ![u] = "scan"]
           /\ visits' \in [Updaters -> [Buckets -> Seq(ImpressionsOrNone)]]
           /\ atStart' \in [Updaters -> [Buckets -> ImpressionsOrNone]]
           /\ proposal' = [proposal EXCEPT ![u] = None]
<1>1. NoVisits \in [Buckets -> Seq(ImpressionsOrNone)]
  BY DEF NoVisits
<1> QED BY <1>1 DEF BeginScan, TypeOK

(* Commands never write or insert the same model.                          *)
LEMMA ProposalsDiffer ==
    ASSUME Inv, NEW u \in Updaters, NEW v \in Updaters, u # v,
           pc[u] \in {"write", "insert"}, pc[v] \in {"write", "insert"}
    PROVE  proposal[u] # proposal[v]
  BY DEF Inv, WriterInv

(* A command goes anywhere but to a write or an insert; the model it was   *)
(* about to publish or to record may become so.                            *)
LEMMA HarmlessCall ==
    ASSUME Inv, NEW u \in Updaters, NEW call \in Calls \ {"write", "insert"},
           pc' = [pc EXCEPT ![u] = call],
           proposal' = proposal \/ proposal' = [proposal EXCEPT ![u] = None],
           UNCHANGED models,
           published' = published
             \/ (pc[u] = "write" /\ published' = published \cup {proposal[u]}),
           unrecorded' = unrecorded
             \/ (/\ pc[u] \in {"write", "insert"}
                 /\ unrecorded' = unrecorded \cup {proposal[u]}
                 /\ proposal[u] \in published')
    PROVE  /\ WriterInv' /\ pc' \in [Updaters -> Calls]
           /\ proposal' \in [Updaters -> ModelIds' \cup {None}]
<1>1. ModelIds' = ModelIds
  BY DEF ModelIds
<1>2. pc'[u] = call /\ \A v \in Updaters \ {u} : pc'[v] = pc[v] /\ proposal'[v] = proposal[v]
  BY DEF Inv, TypeOK
<1>3. pc' \in [Updaters -> Calls] /\ proposal' \in [Updaters -> ModelIds' \cup {None}]
  BY <1>1 DEF Inv, TypeOK
<1>4. unrecorded' \subseteq published'
  BY DEF Inv, WriterInv
<1>5. ASSUME NEW v \in Updaters, pc'[v] \in {"write", "insert"}
      PROVE  /\ proposal'[v] \in ModelIds' /\ models'[proposal'[v]].author = v /\ v \notin DryRun
             /\ (pc'[v] = "write" => proposal'[v] \notin published')
             /\ (pc'[v] = "insert" => proposal'[v] \in published' \ unrecorded')
  <2>1. v # u /\ pc'[v] = pc[v] /\ proposal'[v] = proposal[v]
    BY <1>2, <1>5
  <2>2. pc[u] \in {"write", "insert"} => proposal[u] # proposal[v]
    BY <1>5, <2>1, ProposalsDiffer
  <2> QED BY <1>1, <1>5, <2>1, <2>2 DEF Inv, WriterInv
<1> QED BY <1>3, <1>4, <1>5 DEF WriterInv

LEMMA RowAppended ==
    ASSUME Inv, NEW m \in ModelIds, rows' = Append(rows, m), UNCHANGED models
    PROVE  rows' \in Seq(ModelIds')
  BY DEF Inv, TypeOK, ModelIds

LEMMA StepInv == Inv /\ [Next]_vars => Inv'
<1> SUFFICES ASSUME Inv, [Next]_vars PROVE Inv'
  OBVIOUS
<1> USE DEF Inv
<1>a. \A u \in Updaters : AfterRun(u) \in Calls \ {"write", "insert"}
  BY DEF AfterRun, Calls
<1>1. ASSUME NEW u \in Updaters, Start(u) PROVE Inv'
  <2>1. starts' \in [Updaters -> Nat] /\ UNCHANGED ModelIds
    BY <1>1 DEF Start, stores, TypeOK, ModelIds
  <2> QED
    BY <1>1, <2>1, BeginScanInv, HarmlessCall DEF Start, stores, TypeOK, Calls
<1>2. ASSUME NEW u \in Updaters, NextRun(u) PROVE Inv'
  <2>1. UNCHANGED ModelIds
    BY <1>2 DEF NextRun, stores, ModelIds
  <2> QED
    BY <1>2, <2>1, BeginScanInv, HarmlessCall DEF NextRun, stores, TypeOK, Calls
<1>3. ASSUME NEW u \in Updaters, NEW b \in Buckets, ScanBucket(u, b) PROVE Inv'
  <2>1. visits' \in [Updaters -> [Buckets -> Seq(ImpressionsOrNone)]]
    BY <1>3 DEF ScanBucket, TypeOK
  <2> QED BY <1>3, <2>1 DEF ScanBucket, stores, TypeOK, ModelIds, WriterInv
<1>4. ASSUME NEW u \in Updaters, EndScan(u) \/ ReadWeightsAndReject(u) PROVE Inv'
  <2>1. UNCHANGED ModelIds
    BY <1>4 DEF EndScan, ReadWeightsAndReject, stores, ModelIds
  <2>2. WriterInv' /\ pc' \in [Updaters -> Calls]
    BY <1>a, <1>4, HarmlessCall DEF EndScan, ReadWeightsAndReject, stores, Calls
  <2> QED BY <1>4, <2>1, <2>2 DEF EndScan, ReadWeightsAndReject, stores, TypeOK
<1>5. ASSUME NEW u \in Updaters, ReadWeightsAndAccept(u) PROVE Inv'
  <2>1. /\ models' = Append(models, [author |-> u, parent |-> weights])
        /\ pc' = [pc EXCEPT ![u] = NextCall(u)]
        /\ proposal' = [proposal EXCEPT ![u] = Len(models')]
        /\ UNCHANGED <<buckets, weights, rows, published, unrecorded, atStart, visits, starts>>
    BY <1>5 DEF ReadWeightsAndAccept
  <2>2. [author |-> u, parent |-> weights] \in Model
    BY DEF TypeOK, Model, ModelIds, ImpressionsOrNone
  <2>3. models' \in Seq(Model) /\ Len(models') = Len(models) + 1
    BY <2>1, <2>2 DEF TypeOK
  <2>4. ModelIds \subseteq ModelIds' /\ Len(models') \in ModelIds'
    BY <2>3 DEF TypeOK, ModelIds
  <2>5. rows \in Seq(ModelIds')
    BY <2>4 DEF TypeOK
  <2>6. NextCall(u) \in Calls \ {"insert"} /\ (NextCall(u) = "write" => u \notin DryRun)
    BY <1>a DEF NextCall, Calls
  <2>7. pc' \in [Updaters -> Calls] /\ proposal' \in [Updaters -> ModelIds' \cup {None}]
    BY <2>1, <2>4, <2>6 DEF TypeOK
  <2>8. /\ Len(models') \notin published
        /\ models'[Len(models')].author = u
        /\ \A m \in ModelIds : models'[m] = models[m]
    BY <2>1, <2>3 DEF TypeOK, ModelIds
  <2>9. /\ pc'[u] = NextCall(u) /\ proposal'[u] = Len(models')
        /\ \A v \in Updaters \ {u} : pc'[v] = pc[v] /\ proposal'[v] = proposal[v]
    BY <2>1 DEF TypeOK
  <2>10. /\ unrecorded' \subseteq published'
         /\ pc'[u] \in {"write", "insert"} =>
              /\ proposal'[u] \in ModelIds' \ published'
              /\ models'[proposal'[u]].author = u /\ u \notin DryRun
         /\ pc'[u] # "insert"
    BY <2>1, <2>4, <2>6, <2>8, <2>9 DEF WriterInv
  <2>11. ASSUME NEW v \in Updaters \ {u}, pc[v] \in {"write", "insert"}
         PROVE  proposal[v] \in ModelIds' /\ models'[proposal[v]].author = v /\ v \notin DryRun
    BY <2>4, <2>8, <2>11 DEF WriterInv
  <2>12. WriterInv'
    <3>1. ASSUME NEW v \in Updaters
          PROVE  /\ pc'[v] \in {"write", "insert"} =>
                       /\ proposal'[v] \in ModelIds'
                       /\ models'[proposal'[v]].author = v
                       /\ v \notin DryRun
                 /\ pc'[v] = "write" => proposal'[v] \notin published'
                 /\ pc'[v] = "insert" => proposal'[v] \in published' \ unrecorded'
      <4>1. CASE v = u
        BY <4>1, <2>10
      <4>2. CASE v # u
        <5>1. /\ pc'[v] = pc[v] /\ proposal'[v] = proposal[v]
              /\ UNCHANGED <<published, unrecorded>>
          BY <4>2, <2>1, <2>9
        <5>2. /\ pc[v] \in {"write", "insert"} =>
                    /\ proposal[v] \in ModelIds'
                    /\ models'[proposal[v]].author = v
                    /\ v \notin DryRun
          BY <4>2, <2>11
        <5>3. /\ pc[v] = "write" => proposal[v] \notin published
              /\ pc[v] = "insert" => proposal[v] \in published \ unrecorded
          BY DEF WriterInv
        <5> QED BY <5>1, <5>2, <5>3
      <4> QED BY <4>1, <4>2
    <3> QED BY <3>1, <2>10 DEF WriterInv
  <2> QED BY <2>1, <2>3, <2>4, <2>5, <2>7, <2>12 DEF TypeOK
<1>6. ASSUME NEW u \in Updaters, WriteWeights(u) PROVE Inv'
  <2>1. UNCHANGED <<ModelIds, models, unrecorded, proposal>>
    BY <1>6 DEF WriteWeights, ModelIds
  <2>2. /\ proposal[u] \in ModelIds /\ u \notin DryRun /\ models[proposal[u]].author = u
        /\ proposal[u] \notin published /\ unrecorded \subseteq published
    BY <1>6 DEF WriteWeights, WriterInv
  <2>3. /\ pc'[u] = "insert"
        /\ \A v \in Updaters \ {u} : pc'[v] = pc[v]
        /\ published' = published \cup {proposal[u]}
    BY <1>6 DEF WriteWeights, TypeOK
  <2>4. \A v \in Updaters \ {u} : pc[v] \in {"write", "insert"} => proposal[v] # proposal[u]
    BY <1>6, ProposalsDiffer DEF WriteWeights
  <2>5. WriterInv'
    BY <2>1, <2>2, <2>3, <2>4 DEF WriterInv
  <2> QED BY <1>6, <2>1, <2>2, <2>5 DEF WriteWeights, TypeOK, Calls
<1>7. ASSUME NEW u \in Updaters, InsertSnapshot(u) PROVE Inv'
  <2>1. UNCHANGED ModelIds /\ proposal[u] \in ModelIds
    BY <1>7 DEF InsertSnapshot, ModelIds, WriterInv
  <2>2. rows' \in Seq(ModelIds')
    BY <1>7, <2>1, RowAppended DEF InsertSnapshot
  <2>3. WriterInv' /\ pc' \in [Updaters -> Calls]
    BY <1>a, <1>7, HarmlessCall DEF InsertSnapshot
  <2> QED BY <1>7, <2>1, <2>2, <2>3 DEF InsertSnapshot, TypeOK
<1>8. ASSUME NEW u \in Updaters, Stop(u) PROVE Inv'
  <2>1. UNCHANGED ModelIds
    BY <1>8 DEF Stop, ModelIds
  <2>2. rows' \in Seq(ModelIds')
    BY <1>8, <2>1, RowAppended DEF Stop, WriterInv, TypeOK
  <2>3. WriterInv' /\ pc' \in [Updaters -> Calls]
        /\ proposal' \in [Updaters -> ModelIds' \cup {None}]
    BY <1>8, HarmlessCall DEF Stop, Calls, WriterInv
  <2>4. /\ unrecorded' \in SUBSET ModelIds /\ published' \in SUBSET ModelIds
        /\ weights' \in ModelIds
    BY <1>8 DEF Stop, TypeOK, WriterInv
  <2>5. NoVisits \in [Buckets -> Seq(ImpressionsOrNone)]
    BY DEF NoVisits
  <2>6. /\ visits' \in [Updaters -> [Buckets -> Seq(ImpressionsOrNone)]]
        /\ atStart' \in [Updaters -> [Buckets -> ImpressionsOrNone]]
    BY <1>8, <2>5, UpdaterAssumption DEF Stop, TypeOK, ImpressionsOrNone
  <2> QED BY <1>8, <2>1, <2>2, <2>3, <2>4, <2>6 DEF Stop, TypeOK
<1>9. ASSUME NEW b \in Buckets, WriteBucket(b) PROVE Inv'
  <2>1. buckets' \in [Buckets -> ImpressionsOrNone]
    BY <1>9 DEF WriteBucket, TypeOK, ImpressionsOrNone
  <2> QED BY <1>9, <2>1 DEF WriteBucket, local, TypeOK, ModelIds, WriterInv
<1>10. CASE UNCHANGED vars
  BY <1>10 DEF vars, TypeOK, ModelIds, WriterInv
<1> QED
  BY <1>1, <1>2, <1>3, <1>4, <1>5, <1>6, <1>7, <1>8, <1>9, <1>10 DEF Next, Recalibrate

LEMMA Invariant == Spec => []Inv
  BY InitInv, StepInv, PTL DEF Spec

(* Every variable keeps its type; in particular weights:current and the    *)
(* rows are always models that some run computed.                          *)
THEOREM WeightsTypeCorrect == Spec => []TypeOK
<1>1. Inv => TypeOK
  BY DEF Inv
<1> QED BY Invariant, <1>1, PTL

-----------------------------------------------------------------------------
(* Rows                                                                    *)

LEMMA RowsPublishedStep == RowsWerePublished /\ Inv /\ Inv' /\ [Next]_vars => RowsWerePublished'
<1> SUFFICES ASSUME RowsWerePublished, Inv, [Next]_vars PROVE RowsWerePublished'
  OBVIOUS
<1>1. published \subseteq published'
  BY DEF Next, vars, stores, Start, NextRun, Stop, Recalibrate, ScanBucket, EndScan,
         ReadWeightsAndReject, ReadWeightsAndAccept, WriteWeights, InsertSnapshot, WriteBucket
<1>2. ASSUME rows' = rows PROVE RowsWerePublished'
  BY <1>1, <1>2 DEF RowsWerePublished
<1>3. ASSUME NEW u \in Updaters, pc[u] = "insert", rows' = Append(rows, proposal[u])
      PROVE  RowsWerePublished'
  <2>1. proposal[u] \in published
    BY <1>3 DEF Inv, WriterInv
  <2>2. rows \in Seq(ModelIds) /\ proposal[u] \in ModelIds
    BY <1>3 DEF Inv, TypeOK, WriterInv
  <2>3. \A i \in 1 .. Len(rows') : rows'[i] = proposal[u] \/ (i \in 1 .. Len(rows) /\ rows'[i] = rows[i])
    BY <1>3, <2>2
  <2> QED BY <1>1, <2>1, <2>3 DEF RowsWerePublished
<1> QED
  BY <1>2, <1>3
     DEF Next, vars, stores, Start, NextRun, Stop, Recalibrate, ScanBucket, EndScan,
         ReadWeightsAndReject, ReadWeightsAndAccept, WriteWeights, InsertSnapshot, WriteBucket

(* PostgreSQL has no model that was not in Redis first.                    *)
THEOREM RowsPublished == Spec => []RowsWerePublished
<1>1. Init => RowsWerePublished
  BY DEF Init, RowsWerePublished
<1> QED BY <1>1, Invariant, RowsPublishedStep, PTL DEF Spec

-----------------------------------------------------------------------------
(* Lost updates                                                            *)

(* At most one command that writes.                                        *)
OneWriter == \A u, v \in Updaters \ DryRun : u = v

ParentInv == \A u \in Updaters : pc[u] = "write" => models[proposal[u]].parent = weights

LEMMA ParentStep ==
    ASSUME OneWriter, Inv, ParentInv, [Next]_vars
    PROVE  /\ ParentInv'
           /\ weights' # weights => models[weights'].parent = weights
<1>1. ASSUME NEW u \in Updaters, ReadWeightsAndAccept(u)
      PROVE  weights' = weights /\ ParentInv'
  <2>1. /\ models \in Seq(Model) /\ [author |-> u, parent |-> weights] \in Model
        /\ models' = Append(models, [author |-> u, parent |-> weights])
        /\ weights' = weights
        /\ proposal' = [proposal EXCEPT ![u] = Len(models')]
        /\ pc' = [pc EXCEPT ![u] = NextCall(u)]
    BY <1>1 DEF ReadWeightsAndAccept, Inv, TypeOK, Model, ModelIds, ImpressionsOrNone
  <2>2. models'[Len(models')].parent = weights /\ \A m \in ModelIds : models'[m] = models[m]
    BY <2>1 DEF ModelIds
  <2>3. ASSUME NEW v \in Updaters, pc'[v] = "write" PROVE models'[proposal'[v]].parent = weights
    <3>1. CASE v = u
      BY <3>1, <2>1, <2>2 DEF Inv, TypeOK
    <3>2. CASE v # u
      <4>1. pc[v] = "write" /\ proposal'[v] = proposal[v]
        BY <3>2, <2>1, <2>3 DEF Inv, TypeOK
      <4> QED BY <4>1, <2>2 DEF Inv, WriterInv, ParentInv
    <3> QED BY <3>1, <3>2
  <2> QED BY <2>1, <2>3 DEF ParentInv
<1>2. ASSUME NEW u \in Updaters, pc[u] = "write", weights' = proposal[u],
             UNCHANGED models, pc'[u] # "write", \A v \in Updaters \ {u} : pc'[v] = pc[v]
      PROVE  ParentInv' /\ models[weights'].parent = weights
  <2>1. \A v \in Updaters : pc'[v] # "write"
    BY <1>2 DEF OneWriter, Inv, WriterInv
  <2> QED BY <1>2, <2>1 DEF ParentInv
<1>3. ASSUME NEW u \in Updaters, WriteWeights(u)
      PROVE  ParentInv' /\ models[weights'].parent = weights
  BY <1>2, <1>3 DEF WriteWeights, Inv, TypeOK
<1>4. ASSUME UNCHANGED <<weights, models>>,
             \A v \in Updaters : pc'[v] = "write" => pc[v] = "write" /\ proposal'[v] = proposal[v]
      PROVE  ParentInv' /\ weights' = weights
  BY <1>4 DEF ParentInv
<1>5. ASSUME NEW u \in Updaters, Stop(u)
      PROVE  ParentInv' /\ (weights' # weights => models[weights'].parent = weights)
  BY <1>2, <1>4, <1>5 DEF Stop, Inv, TypeOK
<1>6. ASSUME NEW u \in Updaters, Start(u) \/ NextRun(u) PROVE ParentInv' /\ weights' = weights
  BY <1>4, <1>6 DEF Start, NextRun, BeginScan, stores, Inv, TypeOK
<1>7. ASSUME NEW u \in Updaters, NEW b \in Buckets, ScanBucket(u, b) PROVE ParentInv' /\ weights' = weights
  BY <1>4, <1>7 DEF ScanBucket, stores
<1>8. ASSUME NEW u \in Updaters, EndScan(u) \/ ReadWeightsAndReject(u) \/ InsertSnapshot(u)
      PROVE  ParentInv' /\ weights' = weights
  BY <1>4, <1>8
     DEF EndScan, ReadWeightsAndReject, InsertSnapshot, AfterRun, stores, Inv, TypeOK
<1>9. ASSUME NEW b \in Buckets, WriteBucket(b) PROVE ParentInv' /\ weights' = weights
  BY <1>4, <1>9 DEF WriteBucket, local
<1>10. CASE UNCHANGED vars
  BY <1>4, <1>10 DEF vars
<1> QED
  BY <1>1, <1>3, <1>5, <1>6, <1>7, <1>8, <1>9, <1>10 DEF Next, Recalibrate

(* With one command that writes, every model that reaches Redis was        *)
(* computed from the one it replaces, however often the command fails and  *)
(* is started again and however many dry runs go on beside it.             *)
THEOREM NoUpdateLost == OneWriter => (Spec => NoUpdateIsLost)
<1> SUFFICES ASSUME OneWriter PROVE Spec => NoUpdateIsLost
  OBVIOUS
<1>1. Init => ParentInv
  BY DEF Init, ParentInv
<1>2. Inv /\ ParentInv /\ [Next]_vars
        => ParentInv' /\ [weights' # weights => models[weights'].parent = weights]_vars
  BY ParentStep
<1> QED BY <1>1, <1>2, Invariant, PTL DEF Spec, NoUpdateIsLost

-----------------------------------------------------------------------------
(* The evidence                                                            *)

(* Buckets have only grown since the beginning and since each scan began.  *)
GrowthInv ==
    \A b \in Buckets :
        /\ AtMost(InitialBuckets[b], buckets[b])
        /\ \A u \in Updaters : AtMost(atStart[u][b], buckets[b])

LEMMA AtMostOrder ==
    ASSUME NEW x \in ImpressionsOrNone, NEW y \in ImpressionsOrNone, NEW z \in ImpressionsOrNone
    PROVE  AtMost(x, x) /\ (AtMost(x, y) /\ AtMost(y, z) => AtMost(x, z))
  BY UpdaterAssumption DEF AtMost, ImpressionsOrNone

(* What a step may do to the evidence of one command on one bucket.        *)
EvidenceOf(u, b) ==
    /\ \A i \in 1 .. Len(visits[u][b]) :
          /\ AtMost(atStart[u][b], visits[u][b][i])
          /\ AtMost(visits[u][b][i], buckets[b])
    /\ pc[u] \in {"read", "write", "insert"} /\ atStart[u][b] # None => visits[u][b] # <<>>

LEMMA EvidenceSplit == EvidenceIsRecent <=> \A u \in Updaters, b \in Buckets : EvidenceOf(u, b)
  BY DEF EvidenceIsRecent, EvidenceOf

LEMMA BucketsGrow ==
    ASSUME Inv, [Next]_vars, NEW b \in Buckets
    PROVE  AtMost(buckets[b], buckets'[b])
<1>1. buckets[b] \in ImpressionsOrNone
  BY DEF Inv, TypeOK
<1>2. ASSUME UNCHANGED buckets PROVE AtMost(buckets[b], buckets'[b])
  BY <1>1, <1>2, AtMostOrder
<1>3. ASSUME NEW c \in Buckets, WriteBucket(c) PROVE AtMost(buckets[b], buckets'[b])
  <2>1. buckets' = [buckets EXCEPT ![c] = (IF buckets[c] = None THEN 0 ELSE buckets[c]) + 1]
    BY <1>3 DEF WriteBucket
  <2>2. CASE b = c
    BY <1>1, <2>1, <2>2, UpdaterAssumption DEF AtMost, ImpressionsOrNone, Inv, TypeOK
  <2>3. CASE b # c
    BY <1>1, <2>1, <2>3, AtMostOrder DEF Inv, TypeOK
  <2> QED BY <2>2, <2>3
<1> QED
  BY <1>2, <1>3
     DEF Next, vars, stores, Start, NextRun, Stop, Recalibrate, ScanBucket, EndScan,
         ReadWeightsAndReject, ReadWeightsAndAccept, WriteWeights, InsertSnapshot

(* A command starts a scan, or ends: its evidence is empty.                *)
LEMMA NoEvidence ==
    ASSUME Inv, GrowthInv, GrowthInv', EvidenceIsRecent, [Next]_vars, NEW u \in Updaters,
           NEW call \in {"scan", "stopped"}, pc' = [pc EXCEPT ![u] = call],
           visits' = [visits EXCEPT ![u] = NoVisits],
           \A v \in Updaters \ {u} : atStart'[v] = atStart[v]
    PROVE  EvidenceIsRecent'
<1>1. ASSUME NEW b \in Buckets PROVE EvidenceOf(u, b)'
  BY <1>1 DEF EvidenceOf, NoVisits, Inv, TypeOK
<1>2. ASSUME NEW v \in Updaters \ {u}, NEW b \in Buckets PROVE EvidenceOf(v, b)'
  <2>1. pc'[v] = pc[v] /\ visits'[v] = visits[v] /\ atStart'[v] = atStart[v]
    BY DEF Inv, TypeOK
  <2>2. buckets[b] \in ImpressionsOrNone /\ buckets'[b] \in ImpressionsOrNone
    BY Inv, StepInv DEF Inv, TypeOK
  <2>3. \A i \in 1 .. Len(visits[v][b]) : visits[v][b][i] \in ImpressionsOrNone
    BY DEF Inv, TypeOK
  <2>4. EvidenceOf(v, b)
    BY EvidenceSplit
  <2> QED BY <2>1, <2>2, <2>3, <2>4, BucketsGrow, AtMostOrder DEF EvidenceOf
<1> QED BY <1>1, <1>2 DEF EvidenceIsRecent, EvidenceOf

LEMMA GrowthStep == Inv /\ GrowthInv /\ [Next]_vars => GrowthInv'
<1> SUFFICES ASSUME Inv, GrowthInv, [Next]_vars, NEW b \in Buckets
    PROVE  /\ AtMost(InitialBuckets[b], buckets'[b])
           /\ \A u \in Updaters : AtMost(atStart'[u][b], buckets'[b])
  BY DEF GrowthInv
<1>1. /\ InitialBuckets[b] \in ImpressionsOrNone
      /\ buckets[b] \in ImpressionsOrNone /\ buckets'[b] \in ImpressionsOrNone
      /\ \A u \in Updaters : atStart[u][b] \in ImpressionsOrNone
  BY StepInv, UpdaterAssumption DEF Inv, TypeOK, ImpressionsOrNone
<1>2. AtMost(buckets[b], buckets'[b])
  BY BucketsGrow
<1>3. \A u \in Updaters : \/ atStart'[u] = atStart[u]
                          \/ atStart'[u] = buckets
                          \/ atStart'[u] = InitialBuckets
  BY DEF Next, vars, stores, local, Start, NextRun, BeginScan, Stop, Recalibrate, ScanBucket,
         EndScan, ReadWeightsAndReject, ReadWeightsAndAccept, WriteWeights, InsertSnapshot,
         WriteBucket, Inv, TypeOK
<1> QED BY <1>1, <1>2, <1>3, AtMostOrder DEF GrowthInv

LEMMA EvidenceStep ==
    Inv /\ GrowthInv /\ EvidenceIsRecent /\ [Next]_vars => EvidenceIsRecent'
<1> SUFFICES ASSUME Inv, GrowthInv, EvidenceIsRecent, [Next]_vars
    PROVE  EvidenceIsRecent'
  OBVIOUS
<1>a. GrowthInv'
  BY GrowthStep
<1>b. \A b \in Buckets : buckets[b] \in ImpressionsOrNone /\ buckets'[b] \in ImpressionsOrNone
  BY StepInv DEF Inv, TypeOK
<1>c. \A u \in Updaters, b \in Buckets : EvidenceOf(u, b)
  BY EvidenceSplit
<1>1. ASSUME NEW u \in Updaters, Start(u) \/ NextRun(u) \/ Stop(u)
      PROVE  EvidenceIsRecent'
  BY <1>1, <1>a, NoEvidence DEF Start, NextRun, BeginScan, Stop, Inv, TypeOK
<1>2. ASSUME UNCHANGED <<visits, atStart>>,
             \A v \in Updaters : pc'[v] \in {"read", "write", "insert"} =>
                 \/ pc[v] \in {"read", "write", "insert"}
                 \/ \A b \in Buckets : atStart[v][b] # None => visits[v][b] # <<>>
      PROVE  EvidenceIsRecent'
  <2>1. ASSUME NEW v \in Updaters, NEW b \in Buckets PROVE EvidenceOf(v, b)'
    <3>1. \A i \in 1 .. Len(visits[v][b]) : visits[v][b][i] \in ImpressionsOrNone
      BY DEF Inv, TypeOK
    <3>2. AtMost(buckets[b], buckets'[b])
      BY BucketsGrow
    <3> QED BY <1>2, <1>b, <1>c, <3>1, <3>2, AtMostOrder DEF EvidenceOf
  <2> QED BY <2>1 DEF EvidenceIsRecent, EvidenceOf
<1>3. ASSUME NEW u \in Updaters, NEW b \in Buckets, ScanBucket(u, b)
      PROVE  EvidenceIsRecent'
  <2>1. ASSUME NEW v \in Updaters, NEW c \in Buckets PROVE EvidenceOf(v, c)'
    <3>1. /\ pc' = pc /\ atStart' = atStart /\ buckets' = buckets
          /\ visits' = [visits EXCEPT ![u][b] = Append(@, buckets[b])]
      BY <1>3 DEF ScanBucket, stores
    <3>2. CASE v = u /\ c = b
      <4>1. visits[u][b] \in Seq(ImpressionsOrNone)
        BY DEF Inv, TypeOK
      <4>2. visits'[v][c] = Append(visits[u][b], buckets[b])
        BY <3>1, <3>2 DEF Inv, TypeOK
      <4>3. AtMost(atStart[u][b], buckets[b]) /\ AtMost(buckets[b], buckets[b])
        BY <1>b, AtMostOrder DEF GrowthInv
      <4>4. \A i \in 1 .. Len(visits'[v][c]) :
                visits'[v][c][i] = buckets[b] \/ (i \in 1 .. Len(visits[u][b])
                                                  /\ visits'[v][c][i] = visits[u][b][i])
        BY <4>1, <4>2, <1>b
      <4>5. pc[v] = "scan"
        BY <1>3, <3>2 DEF ScanBucket
      <4> QED BY <1>c, <3>1, <3>2, <4>3, <4>4, <4>5 DEF EvidenceOf
    <3>3. CASE ~(v = u /\ c = b)
      <4>1. visits'[v][c] = visits[v][c]
        BY <3>1, <3>3 DEF Inv, TypeOK
      <4> QED BY <1>c, <3>1, <4>1 DEF EvidenceOf
    <3> QED BY <3>2, <3>3
  <2> QED BY <2>1 DEF EvidenceIsRecent, EvidenceOf
<1>4. ASSUME NEW u \in Updaters, EndScan(u) PROVE EvidenceIsRecent'
  BY <1>2, <1>4 DEF EndScan, stores, Inv, TypeOK
<1>5. ASSUME NEW u \in Updaters,
             ReadWeightsAndReject(u) \/ ReadWeightsAndAccept(u) \/ WriteWeights(u) \/ InsertSnapshot(u)
      PROVE  EvidenceIsRecent'
  BY <1>2, <1>5
     DEF ReadWeightsAndReject, ReadWeightsAndAccept, WriteWeights, InsertSnapshot, Inv, TypeOK
<1>6. ASSUME NEW b \in Buckets, WriteBucket(b) PROVE EvidenceIsRecent'
  BY <1>2, <1>6 DEF WriteBucket, local
<1>7. CASE UNCHANGED vars
  BY <1>2, <1>7 DEF vars
<1> QED
  BY <1>1, <1>3, <1>4, <1>5, <1>6, <1>7 DEF Next, Recalibrate

(* The evidence of every run is complete, and each value in it lies        *)
(* between the counters of its bucket when the scan began and those now.   *)
THEOREM EvidenceRecent == Spec => []EvidenceIsRecent
<1>1. Init => GrowthInv /\ EvidenceIsRecent
  <2> SUFFICES ASSUME Init PROVE GrowthInv /\ EvidenceIsRecent
    OBVIOUS
  <2>1. \A b \in Buckets : AtMost(InitialBuckets[b], InitialBuckets[b])
    BY AtMostOrder, UpdaterAssumption DEF ImpressionsOrNone
  <2> QED BY <2>1 DEF Init, GrowthInv, EvidenceIsRecent, NoVisits
<1> QED BY <1>1, Invariant, GrowthStep, EvidenceStep, PTL DEF Spec

-----------------------------------------------------------------------------
(* Published models and their rows                                         *)

AboutToInsert(m) == \E u \in Updaters : pc[u] = "insert" /\ proposal[u] = m

RecordedOnce(m) ==
    IF m \in unrecorded \/ AboutToInsert(m)
    THEN RowsOf(m) = {}
    ELSE \E i \in 1 .. Len(rows) : RowsOf(m) = {i}

LEMMA RecordedSplit == PublishedIsRecorded <=> \A m \in published : RecordedOnce(m)
  BY DEF PublishedIsRecorded, RecordedOnce, AboutToInsert

(* What a row appended for m changes.                                      *)
LEMMA RowsAfterAppend ==
    ASSUME Inv, NEW m \in ModelIds, rows' = Append(rows, m), RowsOf(m) = {}
    PROVE  /\ \A n \in ModelIds \ {m} : RowsOf(n)' = RowsOf(n)
           /\ Len(rows') \in 1 .. Len(rows') /\ RowsOf(m)' = {Len(rows')}
           /\ 1 .. Len(rows) \subseteq 1 .. Len(rows')
<1>1. /\ rows \in Seq(ModelIds) /\ Len(rows') = Len(rows) + 1 /\ Len(rows) \in Nat
      /\ rows'[Len(rows')] = m /\ \A i \in 1 .. Len(rows) : rows'[i] = rows[i]
  BY DEF Inv, TypeOK
<1>2. 1 .. Len(rows') = 1 .. Len(rows) \cup {Len(rows')} /\ Len(rows') \notin 1 .. Len(rows)
  BY <1>1
<1>3. ASSUME NEW n \in ModelIds \ {m} PROVE RowsOf(n)' = RowsOf(n)
  BY <1>1, <1>2 DEF RowsOf
<1>4. RowsOf(m)' = {Len(rows')}
  BY <1>1, <1>2 DEF RowsOf
<1> QED BY <1>2, <1>3, <1>4

LEMMA RecordedStep ==
    PublishedIsRecorded /\ RowsWerePublished /\ Inv /\ [Next]_vars => PublishedIsRecorded'
<1> SUFFICES ASSUME PublishedIsRecorded, RowsWerePublished, Inv, [Next]_vars
    PROVE  PublishedIsRecorded'
  OBVIOUS
<1>a. \A m \in published : RecordedOnce(m)
  BY RecordedSplit
<1>b. published \subseteq ModelIds
  BY DEF Inv, TypeOK
<1>1. ASSUME UNCHANGED <<rows, published, unrecorded>>,
             \A m \in published : AboutToInsert(m)' <=> AboutToInsert(m)
      PROVE  PublishedIsRecorded'
  <2>1. ASSUME NEW m \in published PROVE RecordedOnce(m)'
    <3>1. RowsOf(m)' = RowsOf(m)
      BY <1>1 DEF RowsOf
    <3> QED BY <1>1, <1>a, <3>1 DEF RecordedOnce
  <2> QED BY <1>1, <2>1 DEF PublishedIsRecorded, RecordedOnce, AboutToInsert
<1>2. ASSUME NEW u \in Updaters, pc[u] # "insert", pc'[u] # "insert",
             \A v \in Updaters \ {u} : pc'[v] = pc[v] /\ proposal'[v] = proposal[v]
      PROVE  \A m : AboutToInsert(m)' <=> AboutToInsert(m)
  BY <1>2 DEF AboutToInsert
<1>3. ASSUME NEW u \in Updaters, Start(u) \/ NextRun(u) PROVE PublishedIsRecorded'
  BY <1>1, <1>2, <1>3 DEF Start, NextRun, BeginScan, stores, Inv, TypeOK
<1>4. ASSUME NEW u \in Updaters, NEW b \in Buckets, ScanBucket(u, b) PROVE PublishedIsRecorded'
  BY <1>1, <1>4 DEF ScanBucket, stores, AboutToInsert
<1>5. ASSUME NEW u \in Updaters, EndScan(u) \/ ReadWeightsAndReject(u) \/ ReadWeightsAndAccept(u)
      PROVE  PublishedIsRecorded'
  <2>1. UNCHANGED <<rows, published, unrecorded>>
    BY <1>5 DEF EndScan, ReadWeightsAndReject, ReadWeightsAndAccept, stores
  <2>2. /\ pc[u] # "insert" /\ pc'[u] # "insert"
        /\ \A v \in Updaters \ {u} : pc'[v] = pc[v] /\ proposal'[v] = proposal[v]
    BY <1>5 DEF EndScan, ReadWeightsAndReject, ReadWeightsAndAccept, AfterRun, NextCall, Inv, TypeOK
  <2> QED BY <1>1, <1>2, <2>1, <2>2
\* A model is published: no row, and it is about to be inserted or never will be.
<1>6. ASSUME NEW u \in Updaters, NEW m, m = proposal[u], pc[u] = "write", published' = published \cup {m},
             UNCHANGED rows,
             \A v \in Updaters \ {u} : pc'[v] = pc[v] /\ proposal'[v] = proposal[v],
             \/ unrecorded' = unrecorded /\ pc'[u] = "insert" /\ proposal'[u] = m
             \/ unrecorded' = unrecorded \cup {m} /\ pc'[u] = "stopped"
      PROVE  PublishedIsRecorded'
  <2>1. m \notin published
    BY <1>6 DEF Inv, WriterInv
  <2>2. \A n : RowsOf(n)' = RowsOf(n)
    BY <1>6 DEF RowsOf
  <2>3. RowsOf(m)' = {}
    BY <1>6, <2>1, <2>2 DEF RowsOf, RowsWerePublished
  <2>4. RecordedOnce(m)'
    BY <1>6, <2>3 DEF RecordedOnce, AboutToInsert
  <2>5. ASSUME NEW n \in published PROVE RecordedOnce(n)'
    <3>1. AboutToInsert(n)' <=> AboutToInsert(n)
      BY <1>6, <2>1, <2>5 DEF AboutToInsert
    <3>2. n \in unrecorded' <=> n \in unrecorded
      BY <1>6, <2>1, <2>5
    <3> QED BY <1>6, <1>a, <2>2, <3>1, <3>2 DEF RecordedOnce
  <2> QED BY <1>6, <2>4, <2>5 DEF PublishedIsRecorded, RecordedOnce, AboutToInsert
<1>7. ASSUME NEW u \in Updaters, WriteWeights(u) PROVE PublishedIsRecorded'
  BY <1>6, <1>7 DEF WriteWeights, Inv, TypeOK
\* The command leaves pc "insert": it has inserted, or it never will.
<1>8. ASSUME NEW u \in Updaters, NEW m, m = proposal[u], pc[u] = "insert", pc'[u] # "insert", UNCHANGED published,
             \A v \in Updaters \ {u} : pc'[v] = pc[v] /\ proposal'[v] = proposal[v],
             \/ unrecorded' = unrecorded /\ rows' = Append(rows, m)
             \/ unrecorded' = unrecorded \cup {m} /\ rows' = rows
      PROVE  PublishedIsRecorded'
  <2>1. m \in published \ unrecorded /\ m \in ModelIds
    BY <1>8 DEF Inv, WriterInv
  <2>2. RowsOf(m) = {}
    BY <1>8, <1>a, <2>1 DEF RecordedOnce, AboutToInsert
  <2>3. ~AboutToInsert(m)'
    <3>1. \A v \in Updaters \ {u} : pc[v] = "insert" => proposal[v] # m
      BY <1>8, ProposalsDiffer
    <3> QED BY <1>8, <3>1 DEF AboutToInsert
  <2>4. RecordedOnce(m)'
    <3>1. CASE unrecorded' = unrecorded /\ rows' = Append(rows, m)
      BY <2>1, <2>2, <2>3, <3>1, RowsAfterAppend DEF RecordedOnce
    <3>2. CASE unrecorded' = unrecorded \cup {m} /\ rows' = rows
      BY <2>2, <3>2 DEF RecordedOnce, RowsOf
    <3> QED BY <1>8, <3>1, <3>2
  <2>5. ASSUME NEW n \in published \ {m} PROVE RecordedOnce(n)'
    <3>1. AboutToInsert(n)' <=> AboutToInsert(n)
      BY <1>8, <2>5 DEF AboutToInsert
    <3>2. n \in unrecorded' <=> n \in unrecorded
      BY <1>8, <2>5
    <3>3. RowsOf(n)' = RowsOf(n) /\ 1 .. Len(rows) \subseteq 1 .. Len(rows')
      BY <1>8, <1>b, <2>1, <2>2, <2>5, RowsAfterAppend DEF RowsOf
    <3> QED BY <1>a, <3>1, <3>2, <3>3 DEF RecordedOnce
  <2> QED BY <1>8, <2>4, <2>5 DEF PublishedIsRecorded, RecordedOnce, AboutToInsert
<1>9. ASSUME NEW u \in Updaters, InsertSnapshot(u) PROVE PublishedIsRecorded'
  <2>1. pc'[u] # "insert" /\ \A v \in Updaters \ {u} : pc'[v] = pc[v] /\ proposal'[v] = proposal[v]
    BY <1>9 DEF InsertSnapshot, AfterRun, Inv, TypeOK
  <2> QED BY <1>8, <1>9, <2>1 DEF InsertSnapshot
<1>10. ASSUME NEW u \in Updaters, Stop(u) PROVE PublishedIsRecorded'
  <2>1. pc'[u] = "stopped" /\ \A v \in Updaters \ {u} : pc'[v] = pc[v] /\ proposal'[v] = proposal[v]
    BY <1>10 DEF Stop, Inv, TypeOK
  <2>2. CASE pc[u] = "insert"
    BY <1>8, <1>10, <2>1, <2>2 DEF Stop
  <2>3. CASE pc[u] # "insert" /\ published' = published /\ unrecorded' = unrecorded
    BY <1>1, <1>2, <1>10, <2>1, <2>3 DEF Stop
  <2>4. CASE pc[u] = "write" /\ published' = published \cup {proposal[u]}
             /\ unrecorded' = unrecorded \cup {proposal[u]}
    BY <1>6, <1>10, <2>1, <2>4 DEF Stop
  <2> QED BY <1>10, <2>2, <2>3, <2>4 DEF Stop
<1>11. ASSUME NEW b \in Buckets, WriteBucket(b) PROVE PublishedIsRecorded'
  BY <1>1, <1>11 DEF WriteBucket, local, AboutToInsert
<1>12. CASE UNCHANGED vars
  BY <1>1, <1>12 DEF vars, AboutToInsert
<1> QED
  BY <1>3, <1>4, <1>5, <1>7, <1>9, <1>10, <1>11, <1>12 DEF Next, Recalibrate

(* A model that reached Redis has exactly one row, with the command that   *)
(* is about to insert it and those that were stopped as the only excuses.  *)
THEOREM PublishedRecorded == Spec => []PublishedIsRecorded
<1>1. Init => PublishedIsRecorded
  <2> SUFFICES ASSUME Init PROVE PublishedIsRecorded
    OBVIOUS
  <2>1. rows = <<1>> /\ published = {1} /\ unrecorded = {} /\ \A m : ~AboutToInsert(m)
    BY DEF Init, AboutToInsert
  <2>2. RowsOf(1) = {1} /\ 1 \in 1 .. Len(rows)
    BY <2>1 DEF RowsOf
  <2> QED BY <2>1, <2>2 DEF PublishedIsRecorded, AboutToInsert
<1> QED BY <1>1, Invariant, RowsPublished, RecordedStep, PTL DEF Spec

=============================================================================
