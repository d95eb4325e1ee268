---------------------------- MODULE WeightUpdate ----------------------------
(***************************************************************************)
(* The batch weight update (jobs/run_weight_update.py) and the two stores  *)
(* it shares: Redis, with the CTR buckets and weights:current, and the     *)
(* PostgreSQL table ctr_model_snapshots.  Several commands may run at the  *)
(* same time, next to the realtime job that keeps writing buckets; nothing *)
(* locks either store, and each call to one is a step of its own.          *)
(*                                                                         *)
(* A model is known by its number, the order it was computed in, and by    *)
(* what it was computed from; its weights are numbers the control flow     *)
(* looks at only through the guards, whose outcomes are left open.         *)
(***************************************************************************)
EXTENDS Naturals, Sequences

CONSTANTS
    Updaters,        \* weight-update commands
    DryRun,          \* those started with --dry-run
    Looping,         \* those without --once
    Buckets,         \* the keys ctr:* that may exist
    None,            \* Python's None: no such key
    BaselineUpdate,  \* those with baseline_update
    InitialBuckets,  \* impressions of the buckets at the beginning, or None
    MaxImpressions,  \* bound: impressions of a bucket
    MaxVisits,       \* bound: how often one scan returns a key
    MaxModels,       \* bound: models computed
    MaxStarts        \* bound: how often a command is started

ASSUME UpdaterAssumption ==
    /\ DryRun \subseteq Updaters
    /\ Looping \subseteq Updaters
    /\ BaselineUpdate \subseteq Updaters
    /\ InitialBuckets \in [Buckets -> Nat \cup {None}]
    /\ None \notin Nat

ASSUME BoundAssumption ==
    /\ MaxImpressions \in Nat
    /\ MaxVisits \in Nat \ {0}
    /\ MaxModels \in Nat \ {0}
    /\ MaxStarts \in Nat

VARIABLES
    buckets,    \* the ctr:* keys of Redis: impressions, or None
    weights,    \* weights:current: the number of a model
    rows,       \* ctr_model_snapshots, by id
    models,     \* the models computed so far, the seeded one first
    published,  \* history: the models that have been weights:current
    unrecorded, \* history: those whose command stopped before the insert
    pc,         \* where a command is: the call it makes next
    atStart,    \* history: the buckets when its scan began
    visits,     \* its scan: the impressions read, per key and visit
    proposal,   \* the model it has computed
    starts      \* how often it was started

stores == <<buckets, weights, rows, models, published, unrecorded>>
local == <<pc, atStart, visits, proposal, starts>>
vars == <<buckets, weights, rows, models, published, unrecorded,
          pc, atStart, visits, proposal, starts>>

Calls == {"stopped", "scan", "read", "write", "insert", "sleep"}
NoVisits == [b \in Buckets |-> <<>>]
ImpressionsOrNone == Nat \cup {None}

(* The seeded model is the first: it has no author and no parent.          *)
Model == [author : Updaters \cup {None}, parent : ImpressionsOrNone]
SeededModel == [author |-> None, parent |-> None]
ModelIds == 1 .. Len(models)

TypeOK ==
    /\ buckets \in [Buckets -> ImpressionsOrNone]
    /\ models \in Seq(Model) /\ Len(models) > 0
    /\ weights \in ModelIds
    /\ rows \in Seq(ModelIds)
    /\ published \in SUBSET ModelIds
    /\ unrecorded \in SUBSET ModelIds
    /\ pc \in [Updaters -> Calls]
    /\ atStart \in [Updaters -> [Buckets -> ImpressionsOrNone]]
    /\ visits \in [Updaters -> [Buckets -> Seq(ImpressionsOrNone)]]
    /\ proposal \in [Updaters -> ModelIds \cup {None}]
    /\ starts \in [Updaters -> Nat]

(* After seed-values: one model, in Redis and in PostgreSQL.               *)
Init ==
    /\ buckets = InitialBuckets
    /\ models = <<SeededModel>>
    /\ weights = 1
    /\ rows = <<1>>
    /\ published = {1}
    /\ unrecorded = {}
    /\ pc = [u \in Updaters |-> "stopped"]
    /\ atStart = [u \in Updaters |-> InitialBuckets]
    /\ visits = [u \in Updaters |-> NoVisits]
    /\ proposal = [u \in Updaters |-> None]
    /\ starts = [u \in Updaters |-> 0]

-----------------------------------------------------------------------------
(* The command                                                             *)

(* recalibrate begins: nothing is kept from an earlier run.                *)
BeginScan(u) ==
    /\ visits' = [visits EXCEPT ![u] = NoVisits]
    /\ atStart' = [atStart EXCEPT ![u] = buckets]
    /\ proposal' = [proposal EXCEPT ![u] = None]
    /\ pc' = [pc EXCEPT ![u] = "scan"]

(* main: a command is started, or started again after it ended.            *)
Start(u) ==
    /\ pc[u] = "stopped"
    /\ starts[u] < MaxStarts
    /\ starts' = [starts EXCEPT ![u] = @ + 1]
    /\ BeginScan(u)
    /\ UNCHANGED stores

(* SCAN returns a key and GET reads it.  Redis may return a key again, and *)
(* may or may not return one written after the scan began.                 *)
ScanBucket(u, b) ==
    /\ pc[u] = "scan"
    /\ buckets[b] # None
    /\ Len(visits[u][b]) < MaxVisits
    /\ visits' = [visits EXCEPT ![u][b] = Append(@, buckets[b])]
    /\ UNCHANGED <<stores, pc, atStart, proposal, starts>>

(* The cursor is back at 0: every key there all along has been returned.   *)
EndScan(u) ==
    /\ pc[u] = "scan"
    /\ \A b \in Buckets : atStart[u][b] # None => visits[u][b] # <<>>
    /\ pc' = [pc EXCEPT ![u] = "read"]
    /\ UNCHANGED <<stores, atStart, visits, proposal, starts>>

(* What follows a run: the next one after a pause, or the end.             *)
AfterRun(u) == IF u \in Looping THEN "sleep" ELSE "stopped"

(* Valid evidence: a bucket without impressions counts for no feature.     *)
HasEvidence(u) ==
    \E b \in Buckets : \E i \in 1 .. Len(visits[u][b]) : visits[u][b][i] > 0

(* The guards: a baseline update that was asked for must be accepted, and  *)
(* something must change.                                                  *)
Accepted(u, baselineApplied, featuresUpdated) ==
    /\ u \in BaselineUpdate => baselineApplied
    /\ baselineApplied \/ featuresUpdated

(* Mutant: a dry run that goes on to write.                                *)
NextCallIgnoringDryRun(u) == "write"

(* An accepted dry run is over; any other writes Redis.                    *)
NextCall(u) == IF u \in DryRun THEN AfterRun(u) ELSE "write"

(* Mutant: a guard that does not return.                                   *)
RejectAndWrite(u) ==
    /\ pc[u] = "read"
    /\ pc' = [pc EXCEPT ![u] = "write"]
    /\ UNCHANGED <<stores, atStart, visits, proposal, starts>>

(* The run reads weights:current, after its scan, and decides.             *)
ReadWeightsAndReject(u) ==
    /\ pc[u] = "read"
    /\ \E baselineApplied, featuresUpdated \in BOOLEAN :
          /\ baselineApplied => u \in BaselineUpdate
          /\ featuresUpdated => HasEvidence(u)
          /\ ~Accepted(u, baselineApplied, featuresUpdated)
    /\ pc' = [pc EXCEPT ![u] = AfterRun(u)]
    /\ UNCHANGED <<stores, atStart, visits, proposal, starts>>

ReadWeightsAndAccept(u) ==
    /\ pc[u] = "read"
    /\ Len(models) < MaxModels
    /\ \E baselineApplied, featuresUpdated \in BOOLEAN :
          /\ baselineApplied => u \in BaselineUpdate
          /\ featuresUpdated => HasEvidence(u)
          /\ Accepted(u, baselineApplied, featuresUpdated)
    /\ models' = Append(models, [author |-> u, parent |-> weights])
    /\ proposal' = [proposal EXCEPT ![u] = Len(models')]
    /\ pc' = [pc EXCEPT ![u] = NextCall(u)]
    /\ UNCHANGED <<buckets, weights, rows, published, unrecorded, atStart, visits, starts>>

(* Mutant: the row before the Redis write.                                 *)
WriteWeightsAfterInsert(u) ==
    /\ pc[u] = "write"
    /\ rows' = Append(rows, proposal[u])
    /\ pc' = [pc EXCEPT ![u] = "insert"]
    /\ UNCHANGED <<buckets, weights, models, published, unrecorded, atStart, visits,
                   proposal, starts>>

(* write_current_weights overwrites whatever is there.                     *)
WriteWeights(u) ==
    /\ pc[u] = "write"
    /\ weights' = proposal[u]
    /\ published' = published \cup {proposal[u]}
    /\ pc' = [pc EXCEPT ![u] = "insert"]
    /\ UNCHANGED <<buckets, rows, models, unrecorded, atStart, visits, proposal,
                   starts>>

(* Mutant: the insert is not made.                                         *)
InsertNothing(u) ==
    /\ pc[u] = "insert"
    /\ pc' = [pc EXCEPT ![u] = AfterRun(u)]
    /\ UNCHANGED <<stores, atStart, visits, proposal, starts>>

(* insert_model_snapshot commits.                                          *)
InsertSnapshot(u) ==
    /\ pc[u] = "insert"
    /\ rows' = Append(rows, proposal[u])
    /\ pc' = [pc EXCEPT ![u] = AfterRun(u)]
    /\ UNCHANGED <<buckets, weights, models, published, unrecorded, atStart, visits,
                   proposal, starts>>

(* Mutant: the scan of the run before is used again.                       *)
NextRunWithOldScan(u) ==
    /\ pc[u] = "sleep"
    /\ atStart' = [atStart EXCEPT ![u] = buckets]
    /\ pc' = [pc EXCEPT ![u] = "read"]
    /\ UNCHANGED <<stores, visits, proposal, starts>>

(* interval_seconds have passed.                                           *)
NextRun(u) ==
    /\ pc[u] = "sleep"
    /\ BeginScan(u)
    /\ UNCHANGED <<stores, starts>>

(* A RedisError, a psycopg error, Ctrl-C or a crash ends the command.  A   *)
(* write or an insert that it was waiting for was applied, or was not.     *)
Stop(u) ==
    /\ pc[u] # "stopped"
    /\ pc' = [pc EXCEPT ![u] = "stopped"]
    /\ \/ /\ pc[u] = "write"
          /\ weights' = proposal[u]
          /\ published' = published \cup {proposal[u]}
          /\ unrecorded' = unrecorded \cup {proposal[u]}
          /\ UNCHANGED rows
       \/ /\ pc[u] = "insert"
          /\ rows' = Append(rows, proposal[u])
          /\ UNCHANGED <<weights, published, unrecorded>>
       \/ /\ unrecorded' = IF pc[u] = "insert" THEN unrecorded \cup {proposal[u]}
                           ELSE unrecorded
          /\ UNCHANGED <<weights, published, rows>>
    /\ visits' = [visits EXCEPT ![u] = NoVisits]
    /\ atStart' = [atStart EXCEPT ![u] = InitialBuckets]
    /\ proposal' = [proposal EXCEPT ![u] = None]
    /\ UNCHANGED <<buckets, models, starts>>

-----------------------------------------------------------------------------
(* The realtime job writes a bucket; its counters only grow.               *)
WriteBucket(b) ==
    LET impressions == IF buckets[b] = None THEN 0 ELSE buckets[b]
    IN  /\ impressions < MaxImpressions
        /\ buckets' = [buckets EXCEPT ![b] = impressions + 1]
        /\ UNCHANGED <<weights, rows, models, published, unrecorded, local>>

Recalibrate(u) ==
    \/ \E b \in Buckets : ScanBucket(u, b)
    \/ EndScan(u)
    \/ ReadWeightsAndReject(u)
    \/ ReadWeightsAndAccept(u)
    \/ WriteWeights(u)
    \/ InsertSnapshot(u)

Next ==
    \/ \E u \in Updaters : Start(u) \/ Recalibrate(u) \/ NextRun(u) \/ Stop(u)
    \/ \E b \in Buckets : WriteBucket(b)

Spec == Init /\ [][Next]_vars

-----------------------------------------------------------------------------
(* Properties                                                              *)

AtMost(low, high) == low = None \/ (high # None /\ low <= high)

(* The evidence of a run is recent and complete: every bucket that was in  *)
(* Redis when its scan began is there, and each value read lies between    *)
(* the bucket's counters then and now, in spite of the realtime job        *)
(* writing during the scan (adapters/redis_runtime.py, 27-61).             *)
EvidenceIsRecent ==
    \A u \in Updaters, b \in Buckets :
        /\ \A i \in 1 .. Len(visits[u][b]) :
              /\ AtMost(atStart[u][b], visits[u][b][i])
              /\ AtMost(visits[u][b][i], buckets[b])
        /\ pc[u] \in {"read", "write", "insert"} /\ atStart[u][b] # None =>
              visits[u][b] # <<>>

(* PostgreSQL never knows a model readers of Redis could not have seen     *)
(* first (services/weight_update_service.py, 263-271).                     *)
RowsWerePublished == \A i \in 1 .. Len(rows) : rows[i] \in published

(* A model that is or was in Redis has exactly one row, unless the command *)
(* that wrote it is about to insert it or was stopped before it could      *)
(* (weight_update_service.py, 258-275).                                    *)
RowsOf(m) == {i \in 1 .. Len(rows) : rows[i] = m}

PublishedIsRecorded ==
    \A m \in published :
        IF m \in unrecorded \/ \E u \in Updaters : pc[u] = "insert" /\ proposal[u] = m
        THEN RowsOf(m) = {}
        ELSE \E i \in 1 .. Len(rows) : RowsOf(m) = {i}

(* With at most one command that is not a dry run, no update is lost: each *)
(* model written to Redis was computed from the one it replaces            *)
(* (weight_update_service.py, 119-120 and 263).                            *)
NoUpdateIsLost ==
    [][weights' # weights => models[weights'].parent = weights]_vars

-----------------------------------------------------------------------------
(* docs/desc/run_weight_update.md:46-47: "Accepted runs write one coherent *)
(* current model back to Redis and store one model snapshot in             *)
(* PostgreSQL."  Stated when no command is in the middle of a run.         *)
AcceptedModelIsStored ==
    (\A u \in Updaters : pc[u] \in {"stopped", "sleep"}) => RowsOf(weights) # {}

=============================================================================
