--------------------- MODULE StreamingWeightUpdateProofs ---------------------
(***************************************************************************)
(* Proofs about StreamingWeightUpdate, for every set of triplets, every    *)
(* configuration and every bound.                                          *)
(***************************************************************************)
EXTENDS StreamingWeightUpdate, TLAPS

(* What a model in state must be, with these flags and these stores.       *)
GoodStateModel(m) == ~dryRun /\ m # None => m \in published

(* Timers and counters in state, or in a checkpoint of it.                 *)
Chained(recorded, registered, counters) ==
    /\ registered = {recorded} \ {None}
    /\ (\E kind \in ValidKinds : counters[kind] > 0) => recorded # None

CountedSinceStart(counters, offsets) ==
    \A kind \in Kinds : started[kind] + counters[kind] = offsets[kind]

(* Readers were given the models the operator may start from or record.    *)
PublishedInv ==
    /\ weights \in published /\ startup \in published
    /\ GoodStateModel(stateModel)
    /\ \A i \in 1 .. Len(rows) : rows[i] \in published

CallbackInv ==
    pc = "insert" => /\ proposal \in published
                     /\ firing \in Nat
                     /\ ~dryRun

(* A restore goes back to a state that satisfied the invariant.            *)
CheckpointInv ==
    checkpoint # None =>
        /\ Chained(checkpoint.nextTimer, checkpoint.timers, checkpoint.evidence)
        /\ CountedSinceStart(checkpoint.evidence, checkpoint.consumed)
        /\ GoodStateModel(checkpoint.stateModel)

Inv ==
    /\ TypeOK
    /\ OneTimerChain
    /\ EvidenceMatchesSource
    /\ PublishedInv
    /\ CallbackInv
    /\ CheckpointInv

LEMMA KindsApart == ValidKinds \subseteq Kinds /\ Invalid \in Kinds /\ Invalid \notin ValidKinds
  BY ConfigAssumption DEF Kinds, ValidKinds, Invalid, Impression, Click

LEMMA InitInv == Init => Inv
<1> SUFFICES ASSUME Init PROVE Inv
  OBVIOUS
<1>1. NoRecords \in Counts /\ \A kind \in Kinds : NoRecords[kind] = 0
  BY DEF NoRecords, Counts
<1>2. models \in Seq(Model) /\ Len(models) = 1
  BY DEF Init, Model, SeededModel
<1>3. rows \in Seq(ModelIds) /\ 1 \in ModelIds
  BY <1>2 DEF Init, ModelIds
<1>4. TypeOK
  <2>1. /\ produced \in Counts /\ consumed \in Counts /\ started \in Counts /\ evidence \in Counts
        /\ now \in Nat /\ dryRun \in DryRunValues /\ restarts \in Nat
        /\ interfered \in BOOLEAN
    BY <1>1 DEF Init
  <2>2. /\ nextTimer \in TimeOrNone /\ timers \in SUBSET Nat /\ firing \in TimeOrNone
        /\ checkpoint \in Checkpoint \cup {None} /\ pc \in {"idle", "insert"}
    BY DEF Init, TimeOrNone
  <2>3. /\ stateModel \in ModelOrNone /\ proposal \in ModelOrNone /\ startup \in ModelIds
        /\ weights \in ModelIds /\ published \in SUBSET ModelIds
    BY <1>3 DEF Init, ModelOrNone
  <2> QED BY <1>2, <1>3, <2>1, <2>2, <2>3 DEF TypeOK
<1>5. OneTimerChain /\ EvidenceMatchesSource
  BY <1>1, KindsApart DEF Init, OneTimerChain, EvidenceMatchesSource
<1>6. PublishedInv /\ CallbackInv /\ CheckpointInv
  BY DEF Init, PublishedInv, CallbackInv, CheckpointInv, GoodStateModel
<1> QED BY <1>4, <1>5, <1>6 DEF Inv

-----------------------------------------------------------------------------
(* Steps by the part of the state they touch                               *)

(* Nothing the operator keeps, or will restore, is touched.                *)
LEMMA OperatorUntouched ==
    ASSUME Inv, UNCHANGED <<dryRun, keyed, startup, callback, checkpoint, started>>,
           UNCHANGED models, published \subseteq published'
    PROVE  /\ OneTimerChain' /\ EvidenceMatchesSource' /\ CallbackInv' /\ CheckpointInv'
           /\ GoodStateModel(stateModel)' /\ startup' \in published'
<1>1. OneTimerChain' /\ EvidenceMatchesSource'
  BY DEF Inv, keyed, callback, OneTimerChain, EvidenceMatchesSource
<1>2. CallbackInv' /\ startup' \in published'
  BY DEF Inv, callback, CallbackInv, PublishedInv
<1>3. \A m : GoodStateModel(m) => GoodStateModel(m)'
  BY DEF GoodStateModel
<1>4. GoodStateModel(stateModel)'
  BY DEF Inv, PublishedInv, GoodStateModel, keyed
<1>5. CheckpointInv'
  BY <1>3 DEF Inv, CheckpointInv, Chained, CountedSinceStart, GoodStateModel
<1> QED BY <1>1, <1>2, <1>4, <1>5

(* A model more is computed: numbers in use stay in use.                   *)
LEMMA ModelComputed ==
    ASSUME Inv, NEW model \in Model, models' = Append(models, model)
    PROVE  /\ models' \in Seq(Model) /\ Len(models') > 0 /\ Len(models') \in ModelIds'
           /\ ModelIds \subseteq ModelIds' /\ ModelOrNone \subseteq ModelOrNone'
           /\ rows \in Seq(ModelIds') /\ Checkpoint \subseteq Checkpoint'
           /\ models'[Len(models')] = model
<1>1. models' \in Seq(Model) /\ Len(models') = Len(models) + 1 /\ Len(models) \in Nat
  BY DEF Inv, TypeOK
<1>2. ModelIds \subseteq ModelIds' /\ Len(models') \in ModelIds'
  BY <1>1 DEF ModelIds
<1>3. ModelOrNone \subseteq ModelOrNone'
  BY <1>2 DEF ModelOrNone
<1>4. rows \in Seq(ModelIds')
  BY <1>2 DEF Inv, TypeOK
<1>5. Checkpoint \subseteq Checkpoint'
  BY <1>3 DEF Checkpoint
<1>6. models'[Len(models')] = model
  BY <1>1 DEF Inv, TypeOK
<1> QED BY <1>1, <1>2, <1>3, <1>4, <1>5, <1>6

LEMMA RowAppended ==
    ASSUME Inv, NEW m \in ModelIds', m \in published', rows' = Append(rows, m),
           rows \in Seq(ModelIds'), published \subseteq published'
    PROVE  rows' \in Seq(ModelIds') /\ \A i \in 1 .. Len(rows') : rows'[i] \in published'
  BY DEF Inv, PublishedInv

LEMMA CurrentModelGood ==
    ASSUME Inv
    PROVE  CurrentModel \in ModelIds /\ GoodStateModel(CurrentModel)
  BY DEF Inv, CurrentModel, GoodStateModel, PublishedInv, TypeOK, ModelOrNone

-----------------------------------------------------------------------------
(* The steps                                                               *)

LEMMA ProduceInv == ASSUME Inv, NEW kind \in Kinds, Produce(kind) PROVE Inv'
<1>1. produced' \in Counts
  BY DEF Produce, Inv, TypeOK, Counts
<1>2. TypeOK'
  BY <1>1 DEF Produce, Inv, TypeOK, keyed, callback, stores, ModelIds, ModelOrNone, Checkpoint
<1>3. PublishedInv'
  BY DEF Produce, Inv, PublishedInv, GoodStateModel, keyed, stores
<1> QED BY <1>2, <1>3, OperatorUntouched DEF Produce, stores, Inv

LEMMA TickInv == ASSUME Inv, Tick PROVE Inv'
<1>1. TypeOK'
  BY DEF Tick, Inv, TypeOK, keyed, callback, stores, ModelIds, ModelOrNone, Checkpoint
<1>2. PublishedInv'
  BY DEF Tick, Inv, PublishedInv, GoodStateModel, keyed, stores
<1> QED BY <1>1, <1>2, OperatorUntouched DEF Tick, stores, Inv

LEMMA CompleteCheckpointInv == ASSUME Inv, CompleteCheckpoint PROVE Inv'
<1>1. checkpoint' \in Checkpoint
  BY DEF CompleteCheckpoint, Snapshot, Checkpoint, Inv, TypeOK
<1>2. TypeOK'
  BY <1>1 DEF CompleteCheckpoint, Inv, TypeOK, keyed, callback, stores, ModelIds, ModelOrNone, Checkpoint
<1>3. CheckpointInv'
  BY DEF CompleteCheckpoint, Snapshot, Inv, CheckpointInv, Chained, CountedSinceStart,
         GoodStateModel, OneTimerChain, EvidenceMatchesSource, PublishedInv, keyed, stores
<1>4. OneTimerChain' /\ EvidenceMatchesSource' /\ PublishedInv' /\ CallbackInv'
  BY DEF CompleteCheckpoint, Inv, OneTimerChain, EvidenceMatchesSource, PublishedInv,
         GoodStateModel, CallbackInv, keyed, callback, stores
<1> QED BY <1>2, <1>3, <1>4 DEF Inv

LEMMA BatchUpdateInv == ASSUME Inv, BatchUpdate PROVE Inv'
<1> DEFINE model == [author |-> "batch", parent |-> weights]
<1>1. model \in Model /\ models' = Append(models, model)
  BY DEF BatchUpdate, Model, Inv, TypeOK, ModelIds
<1>2. /\ models' \in Seq(Model) /\ Len(models') > 0 /\ Len(models') \in ModelIds'
      /\ ModelIds \subseteq ModelIds' /\ ModelOrNone \subseteq ModelOrNone'
      /\ rows \in Seq(ModelIds') /\ Checkpoint \subseteq Checkpoint'
  BY <1>1, ModelComputed
<1>3. weights' = Len(models') /\ published' = published \cup {weights'} /\ rows' = Append(rows, weights')
  BY DEF BatchUpdate
<1>4. rows' \in Seq(ModelIds') /\ \A i \in 1 .. Len(rows') : rows'[i] \in published'
  BY <1>2, <1>3, RowAppended
<1>5. TypeOK'
  BY <1>2, <1>3, <1>4 DEF BatchUpdate, Inv, TypeOK, keyed, callback
<1>6. OneTimerChain' /\ EvidenceMatchesSource' /\ CallbackInv' /\ CheckpointInv'
  BY <1>3 DEF BatchUpdate, Inv, keyed, callback, OneTimerChain, EvidenceMatchesSource,
         CallbackInv, CheckpointInv, Chained, CountedSinceStart, GoodStateModel
<1>7. PublishedInv'
  BY <1>3, <1>4 DEF BatchUpdate, Inv, keyed, PublishedInv, GoodStateModel
<1> QED BY <1>5, <1>6, <1>7 DEF Inv

(* A record is taken: what all kinds of it have in common.                 *)
LEMMA TakeRecordInv ==
    ASSUME Inv, NEW kind \in Kinds, TakeRecord(kind),
           evidence' = [evidence EXCEPT ![kind] = @ + 1],
           nextTimer' \in TimeOrNone, timers' = {nextTimer'} \ {None},
           (\E k \in ValidKinds : evidence'[k] > 0) => nextTimer' # None
    PROVE  Inv'
<1>1. consumed' \in Counts /\ evidence' \in Counts
  BY DEF TakeRecord, Inv, TypeOK, Counts
<1>2. stateModel' \in ModelOrNone /\ GoodStateModel(stateModel')
  BY CurrentModelGood DEF TakeRecord, ModelOrNone
<1>3. UNCHANGED <<ModelIds, ModelOrNone, Checkpoint>>
  BY DEF TakeRecord, stores, ModelIds, ModelOrNone, Checkpoint
<1>4. TypeOK'
  BY <1>1, <1>2, <1>3 DEF TakeRecord, Inv, TypeOK, callback, stores, TimeOrNone
<1>5. OneTimerChain'
  BY DEF TakeRecord, OneTimerChain, callback
<1>6. EvidenceMatchesSource'
  <2>1. \A k \in Kinds : consumed'[k] = (IF k = kind THEN consumed[k] + 1 ELSE consumed[k])
                      /\ evidence'[k] = (IF k = kind THEN evidence[k] + 1 ELSE evidence[k])
    BY DEF TakeRecord, Inv, TypeOK, Counts
  <2>2. \A k \in Kinds : started[k] \in Nat /\ evidence[k] \in Nat /\ consumed[k] \in Nat
    BY DEF Inv, TypeOK, Counts
  <2> QED BY <2>1, <2>2 DEF TakeRecord, Inv, EvidenceMatchesSource
<1>7. PublishedInv'
  BY <1>2 DEF TakeRecord, Inv, PublishedInv, GoodStateModel, stores
<1>8. CallbackInv' /\ CheckpointInv'
  BY DEF TakeRecord, Inv, CallbackInv, CheckpointInv, Chained, CountedSinceStart,
         GoodStateModel, callback, stores
<1> QED BY <1>4, <1>5, <1>6, <1>7, <1>8 DEF Inv

LEMMA ProcessElementInv == ASSUME Inv, ProcessElement PROVE Inv'
<1>1. CASE ProcessInvalid
  <2>1. \A k \in ValidKinds : evidence'[k] = evidence[k]
    BY <1>1, KindsApart DEF ProcessInvalid, Inv, TypeOK, Counts
  <2>2. pc = "idle"
    BY <1>1 DEF ProcessInvalid, TakeRecord
  <2> QED BY <1>1, <2>1, <2>2, KindsApart, TakeRecordInv DEF ProcessInvalid, Inv, TypeOK, OneTimerChain
<1>2. ASSUME NEW kind \in ValidKinds, ProcessValid(kind) PROVE Inv'
  <2>1. pc = "idle" /\ kind \in Kinds
    BY <1>2, KindsApart DEF ProcessValid, TakeRecord
  <2>2. CASE nextTimer = None
    <3>1. nextTimer' = now + Interval /\ timers' = timers \cup {nextTimer'} /\ timers = {}
      BY <1>2, <2>1, <2>2 DEF ProcessValid, Inv, OneTimerChain
    <3>2. nextTimer' \in Nat /\ nextTimer' # None
      BY <3>1, ConfigAssumption DEF Inv, TypeOK
    <3> QED BY <1>2, <2>1, <3>1, <3>2, TakeRecordInv DEF ProcessValid, TimeOrNone
  <2>3. CASE nextTimer # None
    BY <1>2, <2>1, <2>3, TakeRecordInv DEF ProcessValid, Inv, TypeOK, OneTimerChain
  <2> QED BY <2>2, <2>3
<1> QED BY <1>1, <1>2 DEF ProcessElement

(* The timer taken is the one there is; the next one replaces it.          *)
LEMMA TheTimer ==
    ASSUME Inv, NEW t \in timers, TakeTimer(t)
    PROVE  t = nextTimer /\ t \in Nat /\ timers \ {t} = {} /\ t + Interval \in Nat
  BY ConfigAssumption DEF Inv, TypeOK, OneTimerChain, TakeTimer

(* A callback that is over at once, with m as the model in state.          *)
LEMMA CallbackOverInv ==
    ASSUME Inv, NEW t \in timers, TakeTimer(t), ScheduleNext(t, timers \ {t}), UNCHANGED callback,
           stateModel' \in ModelOrNone', GoodStateModel(stateModel'),
           UNCHANGED <<weights, rows, published>>,
           models' \in Seq(Model) /\ Len(models') > 0,
           ModelIds \subseteq ModelIds', rows \in Seq(ModelIds'), Checkpoint \subseteq Checkpoint'
    PROVE  Inv'
<1>1. nextTimer' = t + Interval /\ timers' = {nextTimer'} /\ nextTimer' \in Nat /\ nextTimer' # None
  BY TheTimer, ConfigAssumption DEF ScheduleNext
<1>2. TypeOK'
  BY <1>1 DEF TakeTimer, Inv, TypeOK, callback, TimeOrNone, ModelOrNone
<1>3. OneTimerChain' /\ EvidenceMatchesSource'
  BY <1>1 DEF TakeTimer, callback, Inv, OneTimerChain, EvidenceMatchesSource
<1>4. PublishedInv' /\ CallbackInv' /\ CheckpointInv'
  BY DEF TakeTimer, Inv, PublishedInv, CallbackInv, CheckpointInv, Chained, CountedSinceStart,
         GoodStateModel, callback
<1> QED BY <1>2, <1>3, <1>4 DEF Inv

LEMMA SkipUpdateInv == ASSUME Inv, NEW t \in timers, SkipUpdate(t) PROVE Inv'
<1>1. UNCHANGED <<ModelIds, ModelOrNone, Checkpoint>>
  BY DEF SkipUpdate, stores, ModelIds, ModelOrNone, Checkpoint
<1>2. stateModel' \in ModelOrNone' /\ GoodStateModel(stateModel')
  BY <1>1, CurrentModelGood DEF SkipUpdate, ModelOrNone
<1> QED BY <1>1, <1>2, CallbackOverInv DEF SkipUpdate, stores, Inv, TypeOK

LEMMA NewModelComputed ==
    ASSUME Inv, models' = NewModel
    PROVE  /\ models' \in Seq(Model) /\ Len(models') > 0 /\ Len(models') \in ModelIds'
           /\ ModelIds \subseteq ModelIds' /\ ModelOrNone \subseteq ModelOrNone'
           /\ rows \in Seq(ModelIds') /\ Checkpoint \subseteq Checkpoint'
           /\ models'[Len(models')].parent = CurrentModel
<1>1. [author |-> "stream", parent |-> CurrentModel] \in Model
  BY CurrentModelGood DEF Model, ModelIds
<1> QED BY <1>1, ModelComputed DEF NewModel

LEMMA AcceptDryRunInv == ASSUME Inv, NEW t \in timers, AcceptDryRun(t) PROVE Inv'
<1>1. models' = NewModel /\ stateModel' = Len(models') /\ dryRun
  BY DEF AcceptDryRun
<1>2. stateModel' \in ModelOrNone' /\ GoodStateModel(stateModel')
  BY <1>1, NewModelComputed DEF ModelOrNone, GoodStateModel
<1> QED BY <1>1, <1>2, NewModelComputed, CallbackOverInv DEF AcceptDryRun

LEMMA AcceptAndWriteInv == ASSUME Inv, NEW t \in timers, AcceptAndWrite(t) PROVE Inv'
<1>1. /\ models' = NewModel /\ proposal' = Len(models') /\ weights' = proposal'
      /\ published' = published \cup {weights'} /\ stateModel' = CurrentModel
      /\ timers' = timers \ {t} /\ firing' = t /\ pc' = "insert" /\ ~dryRun
      /\ UNCHANGED <<nextTimer, rows>> /\ TakeTimer(t)
  BY DEF AcceptAndWrite
<1>2. t = nextTimer /\ t \in Nat /\ timers' = {}
  BY <1>1, TheTimer
<1>3. CurrentModel \in ModelOrNone' /\ GoodStateModel(CurrentModel)
  BY <1>1, NewModelComputed, CurrentModelGood DEF ModelOrNone
<1>4. TypeOK'
  <2>1. /\ weights' \in ModelIds' /\ proposal' \in ModelOrNone' /\ startup' \in ModelIds'
        /\ published' \in SUBSET ModelIds' /\ stateModel' \in ModelOrNone'
        /\ models' \in Seq(Model) /\ Len(models') > 0 /\ rows' \in Seq(ModelIds')
    BY <1>1, <1>3, NewModelComputed DEF TakeTimer, Inv, TypeOK, ModelOrNone
  <2>2. checkpoint' \in Checkpoint' \cup {None}
    BY <1>1, NewModelComputed DEF TakeTimer, Inv, TypeOK
  <2>3. firing' \in TimeOrNone /\ timers' \in SUBSET Nat /\ nextTimer' \in TimeOrNone
    BY <1>1, <1>2 DEF Inv, TypeOK, TimeOrNone
  <2> QED BY <1>1, <2>1, <2>2, <2>3 DEF TakeTimer, Inv, TypeOK
<1>5. OneTimerChain'
  BY <1>1, <1>2 DEF TakeTimer, Inv, OneTimerChain
<1>6. EvidenceMatchesSource'
  BY <1>1 DEF TakeTimer, Inv, EvidenceMatchesSource
<1>7. PublishedInv' /\ CallbackInv'
  BY <1>1, <1>2, <1>3 DEF TakeTimer, Inv, PublishedInv, CallbackInv, GoodStateModel
<1>8. CheckpointInv'
  BY <1>1 DEF TakeTimer, Inv, CheckpointInv, Chained, CountedSinceStart, GoodStateModel
<1> QED BY <1>4, <1>5, <1>6, <1>7, <1>8 DEF Inv

LEMMA InsertAndFinishInv == ASSUME Inv, InsertAndFinish PROVE Inv'
<1>1. /\ pc = "insert" /\ pc' = "idle" /\ firing' = None /\ proposal' = None
      /\ rows' = Append(rows, proposal) /\ stateModel' = proposal
      /\ nextTimer' = firing + Interval /\ timers' = timers \cup {nextTimer'}
      /\ UNCHANGED <<now, dryRun, produced, consumed, evidence, startup, weights, models,
                     published, checkpoint, restarts, started, interfered>>
  BY DEF InsertAndFinish, ScheduleNext, CallbackEnds
<1>2. proposal \in published /\ proposal \in ModelIds /\ firing \in Nat /\ timers = {}
  BY <1>1 DEF Inv, CallbackInv, OneTimerChain, TypeOK
<1>3. UNCHANGED <<ModelIds, ModelOrNone, Checkpoint>>
  BY <1>1 DEF ModelIds, ModelOrNone, Checkpoint
<1>4. rows' \in Seq(ModelIds') /\ \A i \in 1 .. Len(rows') : rows'[i] \in published'
  BY <1>1, <1>2, <1>3, RowAppended DEF Inv, TypeOK
<1>5. nextTimer' \in Nat /\ nextTimer' # None /\ timers' = {nextTimer'}
  BY <1>1, <1>2, ConfigAssumption
<1>6. TypeOK'
  BY <1>1, <1>2, <1>3, <1>4, <1>5 DEF Inv, TypeOK, TimeOrNone, ModelOrNone
<1>7. OneTimerChain' /\ EvidenceMatchesSource'
  BY <1>1, <1>5 DEF Inv, OneTimerChain, EvidenceMatchesSource
<1>8. PublishedInv' /\ CallbackInv'
  BY <1>1, <1>2, <1>4 DEF Inv, PublishedInv, CallbackInv, GoodStateModel
<1>9. CheckpointInv'
  BY <1>1 DEF Inv, CheckpointInv, Chained, CountedSinceStart, GoodStateModel
<1> QED BY <1>6, <1>7, <1>8, <1>9 DEF Inv

(* Stores and memory after an operator has ended and another has opened.   *)
LEMMA NewOperatorStores ==
    ASSUME Inv, NewOperator
    PROVE  /\ UNCHANGED <<ModelIds, ModelOrNone, Checkpoint, models, weights, published>>
           /\ rows' \in Seq(ModelIds') /\ \A i \in 1 .. Len(rows') : rows'[i] \in published'
           /\ startup' = weights /\ pc' = "idle" /\ firing' = None /\ proposal' = None
           /\ restarts' \in Nat /\ UNCHANGED <<now, produced>>
<1>1. UNCHANGED <<ModelIds, ModelOrNone, Checkpoint, models, weights, published, now, produced>>
  BY DEF NewOperator, ModelIds, ModelOrNone, Checkpoint
<1>2. CASE UNCHANGED rows
  BY <1>1, <1>2 DEF NewOperator, CallbackEnds, Inv, TypeOK, PublishedInv
<1>3. CASE pc = "insert" /\ rows' = Append(rows, proposal)
  <2>1. proposal \in published /\ proposal \in ModelIds
    BY <1>3 DEF Inv, CallbackInv, TypeOK
  <2>2. rows' \in Seq(ModelIds') /\ \A i \in 1 .. Len(rows') : rows'[i] \in published'
    BY <1>1, <1>3, <2>1, RowAppended DEF Inv, TypeOK
  <2> QED BY <1>1, <2>2 DEF NewOperator, CallbackEnds, Inv, TypeOK
<1> QED BY <1>2, <1>3 DEF NewOperator

LEMMA RestoreInv == ASSUME Inv, RestoreFromCheckpoint PROVE Inv'
<1>1. /\ checkpoint \in Checkpoint /\ NewOperator
      /\ consumed' = checkpoint.consumed /\ evidence' = checkpoint.evidence
      /\ nextTimer' = checkpoint.nextTimer /\ timers' = checkpoint.timers
      /\ stateModel' = checkpoint.stateModel /\ interfered' = TRUE
      /\ UNCHANGED <<dryRun, checkpoint, started>>
  BY DEF RestoreFromCheckpoint, Inv, TypeOK
<1>2. /\ consumed' \in Counts /\ evidence' \in Counts /\ nextTimer' \in TimeOrNone
      /\ timers' \in SUBSET Nat /\ stateModel' \in ModelOrNone
  BY <1>1 DEF Checkpoint
<1>3. /\ Chained(nextTimer', timers', evidence') /\ CountedSinceStart(evidence', consumed')
      /\ GoodStateModel(stateModel')
  BY <1>1 DEF RestoreFromCheckpoint, Inv, CheckpointInv
<1>4. TypeOK'
  BY <1>1, <1>2, NewOperatorStores DEF Inv, TypeOK, TimeOrNone, ModelOrNone
<1>5. OneTimerChain' /\ EvidenceMatchesSource'
  BY <1>1, <1>3, NewOperatorStores DEF OneTimerChain, EvidenceMatchesSource, Chained, CountedSinceStart
<1>6. PublishedInv' /\ CallbackInv'
  BY <1>1, <1>3, NewOperatorStores DEF Inv, PublishedInv, CallbackInv, GoodStateModel
<1>7. CheckpointInv'
  BY <1>1, NewOperatorStores DEF Inv, CheckpointInv, Chained, CountedSinceStart, GoodStateModel
<1> QED BY <1>4, <1>5, <1>6, <1>7 DEF Inv

LEMMA FreshStartInv == ASSUME Inv, FreshStart PROVE Inv'
<1>1. /\ NewOperator /\ dryRun' \in DryRunValues /\ consumed' = produced /\ started' = produced
      /\ evidence' = NoRecords /\ nextTimer' = None /\ timers' = {} /\ stateModel' = None
      /\ checkpoint' = None /\ interfered' = FALSE
  BY DEF FreshStart
<1>2. NoRecords \in Counts /\ \A kind \in Kinds : NoRecords[kind] = 0
  BY DEF NoRecords, Counts
<1>3. TypeOK'
  BY <1>1, <1>2, NewOperatorStores DEF Inv, TypeOK, TimeOrNone, ModelOrNone
<1>4. OneTimerChain'
  BY <1>1, <1>2, KindsApart, NewOperatorStores DEF OneTimerChain
<1>5. EvidenceMatchesSource'
  BY <1>1, <1>2 DEF EvidenceMatchesSource, Inv, TypeOK, Counts
<1>6. PublishedInv' /\ CallbackInv' /\ CheckpointInv'
  BY <1>1, NewOperatorStores DEF Inv, PublishedInv, CallbackInv, CheckpointInv, GoodStateModel
<1> QED BY <1>3, <1>4, <1>5, <1>6 DEF Inv

LEMMA StepInv == Inv /\ [Next]_vars => Inv'
<1> SUFFICES ASSUME Inv, [Next]_vars PROVE Inv'
  OBVIOUS
<1>1. CASE UNCHANGED vars
  <2>1. TypeOK'
    BY <1>1 DEF vars, Inv, TypeOK, ModelIds, ModelOrNone, Checkpoint
  <2>2. PublishedInv'
    BY <1>1 DEF vars, Inv, PublishedInv, GoodStateModel
  <2> QED BY <1>1, <2>1, <2>2, OperatorUntouched DEF vars, keyed, callback, Inv
<1> QED
  BY <1>1, ProduceInv, TickInv, BatchUpdateInv, ProcessElementInv, SkipUpdateInv, AcceptDryRunInv,
     AcceptAndWriteInv, InsertAndFinishInv, CompleteCheckpointInv, RestoreInv, FreshStartInv
     DEF Next, OnTimer

LEMMA Invariant == Spec => []Inv
  BY InitInv, StepInv, PTL DEF Spec

-----------------------------------------------------------------------------
(* Every variable keeps its type: the operator, a checkpoint and PostgreSQL *)
(* name only models that were computed.                                    *)
THEOREM StreamTypeCorrect == Spec => []TypeOK
<1>1. Inv => TypeOK
  BY DEF Inv
<1> QED BY Invariant, <1>1, PTL

(* The timers form one chain that no failure breaks or doubles.            *)
THEOREM TimerChain == Spec => []OneTimerChain
<1>1. Inv => OneTimerChain
  BY DEF Inv
<1> QED BY Invariant, <1>1, PTL

(* Each record since the last fresh start is counted exactly once.         *)
THEOREM EvidenceExact == Spec => []EvidenceMatchesSource
<1>1. Inv => EvidenceMatchesSource
  BY DEF Inv
<1> QED BY Invariant, <1>1, PTL

(* The model in state, and every row, was given to readers.                *)
THEOREM StatePublished == Spec => []StateModelWasPublished
<1>1. Inv => StateModelWasPublished
  BY DEF Inv, StateModelWasPublished, PublishedInv, GoodStateModel
<1> QED BY Invariant, <1>1, PTL

-----------------------------------------------------------------------------
(* The operator alone, as it was started: its model is the one in Redis.   *)
AloneInv ==
    ~interfered /\ ~dryRun =>
        /\ pc = "idle" => CurrentModel = weights
        /\ pc = "insert" => proposal = weights

LEMMA AloneStep ==
    ASSUME Inv, AloneInv, [Next]_vars
    PROVE  /\ AloneInv'
           /\ weights' # weights /\ ~interfered' => models'[weights'].parent = weights
<1>1. ASSUME NEW kind \in Kinds, Produce(kind) PROVE AloneInv' /\ weights' = weights
  BY <1>1 DEF Produce, AloneInv, CurrentModel, keyed, callback, stores
<1>2. ASSUME Tick \/ CompleteCheckpoint \/ UNCHANGED vars PROVE AloneInv' /\ weights' = weights
  BY <1>2 DEF Tick, CompleteCheckpoint, vars, AloneInv, CurrentModel, keyed, callback, stores
<1>3. ASSUME BatchUpdate \/ RestoreFromCheckpoint PROVE AloneInv' /\ interfered'
  BY <1>3 DEF BatchUpdate, RestoreFromCheckpoint, AloneInv
<1>4. ASSUME NEW kind \in Kinds, TakeRecord(kind) PROVE AloneInv' /\ weights' = weights
  BY <1>4, CurrentModelGood
     DEF TakeRecord, AloneInv, CurrentModel, callback, stores
<1>5. ASSUME NEW t \in timers, SkipUpdate(t) PROVE AloneInv' /\ weights' = weights
  BY <1>5 DEF SkipUpdate, TakeTimer, AloneInv, CurrentModel, callback, stores
<1>6. ASSUME NEW t \in timers, AcceptDryRun(t) PROVE AloneInv' /\ weights' = weights
  BY <1>6 DEF AcceptDryRun, TakeTimer, AloneInv
<1>7. ASSUME NEW t \in timers, AcceptAndWrite(t)
      PROVE  AloneInv' /\ (~interfered' => models'[weights'].parent = weights)
  <2>1. weights' = proposal' /\ proposal' = Len(models') /\ pc' = "insert" /\ pc = "idle"
        /\ models' = NewModel /\ ~dryRun /\ interfered' = interfered
    BY <1>7 DEF AcceptAndWrite, TakeTimer
  <2>2. models'[Len(models')].parent = CurrentModel
    BY <2>1, NewModelComputed
  <2> QED BY <2>1, <2>2 DEF AloneInv
<1>8. ASSUME InsertAndFinish PROVE AloneInv' /\ weights' = weights
  <2>1. stateModel' = proposal /\ proposal # None
    BY <1>8, ConfigAssumption
       DEF InsertAndFinish, Inv, CallbackInv, TypeOK, ModelIds, ModelOrNone
  <2> QED BY <1>8, <2>1 DEF InsertAndFinish, CallbackEnds, AloneInv, CurrentModel
<1>9. ASSUME FreshStart PROVE AloneInv' /\ weights' = weights
  BY <1>9 DEF FreshStart, NewOperator, CallbackEnds, AloneInv, CurrentModel
<1> QED
  BY <1>1, <1>2, <1>3, <1>4, <1>5, <1>6, <1>7, <1>8, <1>9, KindsApart
     DEF Next, OnTimer, ProcessElement, ProcessInvalid, ProcessValid

(* Started once and never restored, with no batch update beside it, the    *)
(* job computes each model from the one it replaces, through any number of *)
(* fresh starts before.                                                    *)
THEOREM StreamContinues == Spec => StreamContinuesItsModel
<1>1. Init => AloneInv
  BY DEF Init, AloneInv, CurrentModel
<1>2. Inv /\ AloneInv /\ [Next]_vars
        => AloneInv' /\ [weights' # weights /\ ~interfered' => models'[weights'].parent = weights]_vars
  BY AloneStep
<1> QED BY <1>1, <1>2, Invariant, PTL DEF Spec, StreamContinuesItsModel

=============================================================================
