------------------------ MODULE StreamingWeightUpdate ------------------------
(***************************************************************************)
(* The streaming weight update (jobs/run_streaming_weight_update.py): one  *)
(* Flink operator, all records under one key, that counts the events of    *)
(* each triplet, and every interval recalibrates the model it keeps in its *)
(* own state, writes it to Redis and inserts it into PostgreSQL.           *)
(*                                                                         *)
(* A callback is not interrupted by another one of the operator, but the   *)
(* batch command writes the same stores between its calls to them, and the *)
(* task may fail there.  A topic is a count per kind of record, as in      *)
(* RealtimeCtr; a model is known by its number and its origin, as in       *)
(* WeightUpdate.                                                           *)
(***************************************************************************)
EXTENDS Naturals, Sequences

CONSTANTS
    Triplets,        \* ad category, publisher domain, conversation category
    None,            \* Python's None: no state, no timer, no checkpoint
    DryRunValues,    \* dry_run values the job may be started with
    BaselineUpdate,  \* baseline_update
    Checkpointing,   \* checkpoint_interval_ms > 0
    Interval,        \* interval_seconds
    MaxProduced,     \* bound: records produced of one kind
    MaxTime,         \* bound: the clock stops here
    MaxModels,       \* bound: models computed
    BatchUpdates,    \* bound: models the batch command writes
    MaxRestarts      \* bound: restores and fresh starts

(* The kinds of record: the parsed events, and what does not parse.        *)
Impression(t) == <<t, "impression">>
Click(t) == <<t, "click">>
Invalid == <<None, "invalid">>
ValidKinds == {Impression(t) : t \in Triplets} \cup {Click(t) : t \in Triplets}
Kinds == ValidKinds \cup {Invalid}

ASSUME ConfigAssumption ==
    /\ None \notin Triplets /\ None \notin Nat
    /\ DryRunValues \subseteq BOOLEAN
    /\ BaselineUpdate \in BOOLEAN
    /\ Checkpointing \in BOOLEAN
    /\ Interval \in Nat \ {0}

ASSUME BoundAssumption ==
    /\ MaxProduced \in [Kinds -> Nat]
    /\ MaxTime \in Nat
    /\ MaxModels \in Nat \ {0}
    /\ BatchUpdates \in Nat
    /\ MaxRestarts \in Nat

VARIABLES
    now,         \* processing time, in units of one second
    dryRun,      \* dry_run
    produced,    \* records in the topics, by kind
    consumed,    \* source offsets: records handled, by kind
    evidence,    \* state "streaming_weight_evidence": counters, by kind
    nextTimer,   \* its next_timer_ms
    timers,      \* registered processing-time timers
    stateModel,  \* state "streaming_weight_current_model"
    startup,     \* _startup_model, read by open
    pc,          \* "idle", or "insert" between the two calls of on_timer
    firing,      \* the timestamp on_timer was called with
    proposal,    \* the model it has computed
    weights,     \* weights:current
    rows,        \* ctr_model_snapshots, by id
    models,      \* the models computed so far, the seeded one first
    published,   \* history: the models that have been weights:current
    checkpoint,  \* the last completed checkpoint, or None
    restarts,    \* restarts so far
    started,     \* history: the offsets of the last fresh start
    interfered   \* history: since then, a restore or a batch update

keyed == <<consumed, evidence, nextTimer, timers, stateModel>>
callback == <<pc, firing, proposal>>
stores == <<weights, rows, models, published>>
vars == <<now, dryRun, produced, consumed, evidence, nextTimer, timers, stateModel,
          startup, pc, firing, proposal, weights, rows, models, published,
          checkpoint, restarts, started, interfered>>

Counts == [Kinds -> Nat]
NoRecords == [kind \in Kinds |-> 0]
ModelIds == 1 .. Len(models)
ModelOrNone == ModelIds \cup {None}
TimeOrNone == Nat \cup {None}

Model == [author : {"seed", "stream", "batch"}, parent : Nat \cup {None}]
SeededModel == [author |-> "seed", parent |-> None]

(* What Flink saves: source offsets, state, timers.                        *)
Checkpoint == [consumed : Counts, evidence : Counts, nextTimer : TimeOrNone,
               timers : SUBSET Nat, stateModel : ModelOrNone]

TypeOK ==
    /\ now \in Nat
    /\ dryRun \in DryRunValues
    /\ produced \in Counts /\ consumed \in Counts /\ started \in Counts
    /\ evidence \in Counts
    /\ nextTimer \in TimeOrNone
    /\ timers \in SUBSET Nat
    /\ models \in Seq(Model) /\ Len(models) > 0
    /\ stateModel \in ModelOrNone
    /\ startup \in ModelIds
    /\ pc \in {"idle", "insert"}
    /\ firing \in TimeOrNone
    /\ proposal \in ModelOrNone
    /\ weights \in ModelIds
    /\ rows \in Seq(ModelIds)
    /\ published \in SUBSET ModelIds
    /\ checkpoint \in Checkpoint \cup {None}
    /\ restarts \in Nat
    /\ interfered \in BOOLEAN

(* After seed-values; open has read the seeded model.                      *)
Init ==
    /\ now = 0
    /\ dryRun \in DryRunValues
    /\ produced = NoRecords /\ consumed = NoRecords /\ started = NoRecords
    /\ evidence = NoRecords
    /\ nextTimer = None
    /\ timers = {}
    /\ models = <<SeededModel>>
    /\ stateModel = None
    /\ startup = 1
    /\ pc = "idle"
    /\ firing = None
    /\ proposal = None
    /\ weights = 1
    /\ rows = <<1>>
    /\ published = {1}
    /\ checkpoint = None
    /\ restarts = 0
    /\ interfered = FALSE

-----------------------------------------------------------------------------
(* Surroundings                                                            *)

Produce(kind) ==
    /\ produced[kind] < MaxProduced[kind]
    /\ produced' = [produced EXCEPT ![kind] = @ + 1]
    /\ UNCHANGED <<now, dryRun, keyed, startup, callback, stores, checkpoint,
                   restarts, started, interfered>>

Tick ==
    /\ now < MaxTime
    /\ now' = now + 1
    /\ UNCHANGED <<dryRun, produced, keyed, startup, callback, stores, checkpoint,
                   restarts, started, interfered>>

(* A batch command replaces the model in Redis and records it: its effect  *)
(* on what this job can see (module WeightUpdate has its steps).           *)
BatchUpdate ==
    /\ Len(models) < MaxModels
    /\ Len(SelectSeq(models, LAMBDA m : m.author = "batch")) < BatchUpdates
    /\ models' = Append(models, [author |-> "batch", parent |-> weights])
    /\ weights' = Len(models')
    /\ published' = published \cup {weights'}
    /\ rows' = Append(rows, weights')
    /\ interfered' = TRUE
    /\ UNCHANGED <<now, dryRun, produced, keyed, startup, callback, checkpoint,
                   restarts, started>>

-----------------------------------------------------------------------------
(* process_element                                                         *)

(* The operator's model, the startup model if state has none yet.          *)
CurrentModel == IF stateModel = None THEN startup ELSE stateModel

(* The source hands over a record; _ensure_current_model_state.            *)
TakeRecord(kind) ==
    /\ pc = "idle"
    /\ consumed[kind] < produced[kind]
    /\ consumed' = [consumed EXCEPT ![kind] = @ + 1]
    /\ stateModel' = CurrentModel
    /\ UNCHANGED <<now, dryRun, produced, startup, callback, stores, checkpoint,
                   restarts, started, interfered>>

(* Mutant: the event is counted in a copy that is not stored.              *)
InvalidNotStored ==
    /\ TakeRecord(Invalid)
    /\ UNCHANGED <<evidence, nextTimer, timers>>

(* mark_invalid_event, and no timer.                                       *)
ProcessInvalid ==
    /\ TakeRecord(Invalid)
    /\ evidence' = [evidence EXCEPT ![Invalid] = @ + 1]
    /\ UNCHANGED <<nextTimer, timers>>

(* Mutant: every event registers a timer.                                  *)
TimerForEveryEvent(kind) ==
    /\ TakeRecord(kind)
    /\ evidence' = [evidence EXCEPT ![kind] = @ + 1]
    /\ nextTimer' = now + Interval
    /\ timers' = timers \cup {nextTimer'}

(* apply_event; the first valid event registers the first timer.           *)
ProcessValid(kind) ==
    /\ TakeRecord(kind)
    /\ evidence' = [evidence EXCEPT ![kind] = @ + 1]
    /\ IF nextTimer = None
       THEN nextTimer' = now + Interval /\ timers' = timers \cup {nextTimer'}
       ELSE UNCHANGED <<nextTimer, timers>>

-----------------------------------------------------------------------------
(* on_timer                                                                *)

(* build_snapshot leaves out a counter without impressions, and one with   *)
(* more clicks than impressions.                                           *)
HasEvidence ==
    \E t \in Triplets :
        /\ evidence[Impression(t)] > 0
        /\ evidence[Click(t)] <= evidence[Impression(t)]

(* The outcomes of recalibrate's guards (see WeightUpdate).                *)
Accepted(baselineApplied, featuresUpdated) ==
    /\ BaselineUpdate => baselineApplied
    /\ baselineApplied \/ featuresUpdated

MayDecide(accepted) ==
    \E baselineApplied, featuresUpdated \in BOOLEAN :
        /\ baselineApplied => BaselineUpdate
        /\ featuresUpdated => HasEvidence
        /\ Accepted(baselineApplied, featuresUpdated) = accepted

(* Flink takes the timer and calls on_timer.                               *)
TakeTimer(t) ==
    /\ pc = "idle"
    /\ t \in timers
    /\ t <= now
    /\ UNCHANGED <<now, dryRun, produced, consumed, evidence, startup, checkpoint,
                   restarts, started, interfered>>

(* The next timer follows the timestamp of this one, not the clock.        *)
ScheduleNext(t, remaining) ==
    /\ nextTimer' = t + Interval
    /\ timers' = remaining \cup {nextTimer'}

(* Mutant: a skipped run does not schedule another.                        *)
SkipAndStop(t) ==
    /\ TakeTimer(t)
    /\ MayDecide(FALSE)
    /\ stateModel' = CurrentModel
    /\ timers' = timers \ {t}
    /\ UNCHANGED <<nextTimer, callback, stores>>

SkipUpdate(t) ==
    /\ TakeTimer(t)
    /\ MayDecide(FALSE)
    /\ stateModel' = CurrentModel
    /\ ScheduleNext(t, timers \ {t})
    /\ UNCHANGED <<callback, stores>>

NewModel == Append(models, [author |-> "stream", parent |-> CurrentModel])

(* Mutant: dry_run is not looked at.                                       *)
AcceptWithoutWriting(t) ==
    /\ TakeTimer(t)
    /\ MayDecide(TRUE)
    /\ Len(models) < MaxModels
    /\ models' = NewModel
    /\ stateModel' = Len(models')
    /\ ScheduleNext(t, timers \ {t})
    /\ UNCHANGED <<callback, weights, rows, published>>

(* Accepted in a dry run: the state moves on, the stores do not.           *)
AcceptDryRun(t) ==
    /\ TakeTimer(t)
    /\ MayDecide(TRUE)
    /\ dryRun
    /\ Len(models) < MaxModels
    /\ models' = NewModel
    /\ stateModel' = Len(models')
    /\ ScheduleNext(t, timers \ {t})
    /\ UNCHANGED <<callback, weights, rows, published>>

(* Accepted: Redis is written, whatever it holds.                          *)
AcceptAndWrite(t) ==
    /\ TakeTimer(t)
    /\ MayDecide(TRUE)
    /\ ~dryRun
    /\ Len(models) < MaxModels
    /\ models' = NewModel
    /\ proposal' = Len(models')
    /\ weights' = proposal'
    /\ published' = published \cup {weights'}
    /\ stateModel' = CurrentModel
    /\ timers' = timers \ {t}
    /\ firing' = t
    /\ pc' = "insert"
    /\ UNCHANGED <<nextTimer, rows>>

CallbackEnds ==
    /\ pc' = "idle"
    /\ firing' = None
    /\ proposal' = None

(* Mutant: the accepted model is not stored back into state.               *)
InsertAndKeepOldModel ==
    /\ pc = "insert"
    /\ rows' = Append(rows, proposal)
    /\ UNCHANGED stateModel
    /\ ScheduleNext(firing, timers)
    /\ CallbackEnds
    /\ UNCHANGED <<now, dryRun, produced, consumed, evidence, startup, weights,
                   models, published, checkpoint, restarts, started, interfered>>

(* The insert commits; the model goes into state, the next timer is set.   *)
InsertAndFinish ==
    /\ pc = "insert"
    /\ rows' = Append(rows, proposal)
    /\ stateModel' = proposal
    /\ ScheduleNext(firing, timers)
    /\ CallbackEnds
    /\ UNCHANGED <<now, dryRun, produced, consumed, evidence, startup, weights,
                   models, published, checkpoint, restarts, started, interfered>>

-----------------------------------------------------------------------------
(* Checkpoints and failures                                                *)

Snapshot == [consumed |-> consumed, evidence |-> evidence, nextTimer |-> nextTimer,
             timers |-> timers, stateModel |-> stateModel]

(* A checkpoint is taken between two callbacks.                            *)
CompleteCheckpoint ==
    /\ Checkpointing
    /\ pc = "idle"
    /\ checkpoint' = Snapshot
    /\ UNCHANGED <<now, dryRun, produced, keyed, startup, callback, stores, restarts,
                   started, interfered>>

(* Mutant: open does not read weights:current.                             *)
OpenWithoutModel ==
    /\ restarts < MaxRestarts
    /\ restarts' = restarts + 1
    /\ startup' = None
    /\ CallbackEnds
    /\ \/ UNCHANGED rows
       \/ pc = "insert" /\ rows' = Append(rows, proposal)
    /\ UNCHANGED <<now, produced, weights, models, published>>

(* The operator ends anywhere, and a new one opens.  An insert under way   *)
(* was committed or was not.                                               *)
NewOperator ==
    /\ restarts < MaxRestarts
    /\ restarts' = restarts + 1
    /\ startup' = weights
    /\ CallbackEnds
    /\ \/ UNCHANGED rows
       \/ pc = "insert" /\ rows' = Append(rows, proposal)
    /\ UNCHANGED <<now, produced, weights, models, published>>

(* A RedisError or a WeightUpdateError fails the task; Flink restores it.  *)
RestoreFromCheckpoint ==
    /\ checkpoint # None
    /\ NewOperator
    /\ consumed' = checkpoint.consumed
    /\ evidence' = checkpoint.evidence
    /\ nextTimer' = checkpoint.nextTimer
    /\ timers' = checkpoint.timers
    /\ stateModel' = checkpoint.stateModel
    /\ interfered' = TRUE
    /\ UNCHANGED <<dryRun, checkpoint, started>>

(* The command is started again: nothing in state, latest offsets.         *)
FreshStart ==
    /\ NewOperator
    /\ dryRun' \in DryRunValues
    /\ consumed' = produced
    /\ evidence' = NoRecords
    /\ nextTimer' = None
    /\ timers' = {}
    /\ stateModel' = None
    /\ checkpoint' = None
    /\ started' = produced
    /\ interfered' = FALSE

-----------------------------------------------------------------------------
ProcessElement == ProcessInvalid \/ \E kind \in ValidKinds : ProcessValid(kind)

OnTimer ==
    \/ \E t \in timers : SkipUpdate(t) \/ AcceptDryRun(t) \/ AcceptAndWrite(t)
    \/ InsertAndFinish

Next ==
    \/ \E kind \in Kinds : Produce(kind)
    \/ Tick
    \/ BatchUpdate
    \/ ProcessElement
    \/ OnTimer
    \/ CompleteCheckpoint
    \/ RestoreFromCheckpoint
    \/ FreshStart

Spec == Init /\ [][Next]_vars

(* Time passes, timers that are due fire, and PostgreSQL answers.          *)
FairSpec == Spec /\ WF_vars(Tick) /\ WF_vars(OnTimer)

-----------------------------------------------------------------------------
(* Properties                                                              *)

(* There is one chain of timers, and it never ends: between callbacks the  *)
(* timer recorded in state is the one registered, also after a restore,    *)
(* and there is one as soon as a valid event was counted                   *)
(* (run_streaming_weight_update.py, 230-237 and 268-271).                  *)
OneTimerChain ==
    /\ pc = "idle" => timers = {nextTimer} \ {None}
    /\ pc = "insert" => timers = {} /\ nextTimer = firing
    /\ (\E kind \in ValidKinds : evidence[kind] > 0) => nextTimer # None

(* The evidence is what the source delivered since the last fresh start,   *)
(* each record once, whatever was restored in between.                     *)
EvidenceMatchesSource ==
    \A kind \in Kinds : started[kind] + evidence[kind] = consumed[kind]

(* Unless it is a dry run, the model in state was in Redis once, and       *)
(* PostgreSQL knows only such models: state never gets ahead of what       *)
(* readers were given (run_streaming_weight_update.py, 264-266).           *)
StateModelWasPublished ==
    /\ ~dryRun /\ stateModel # None => stateModel \in published
    /\ \A i \in 1 .. Len(rows) : rows[i] \in published

(* With no batch update and no restore since it was started, the job       *)
(* continues the model in Redis: each model it writes was computed from    *)
(* the one it replaces, from the one open has read on.                     *)
StreamContinuesItsModel ==
    [][weights' # weights /\ ~interfered' => models'[weights'].parent = weights]_vars

(* The chain goes on: the timer recorded is not the same for ever.         *)
TimerRecurs ==
    \A t \in 1 .. MaxTime : nextTimer = t ~> nextTimer # t

=============================================================================
