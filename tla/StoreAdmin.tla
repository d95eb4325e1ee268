------------------------------ MODULE StoreAdmin ------------------------------
(***************************************************************************)
(* The commands that move or remove whole stores: persist-redis-buckets,   *)
(* seed-values and reset-values, each against Redis and PostgreSQL, next   *)
(* to one another and to the realtime job.  Nothing locks Redis; in        *)
(* PostgreSQL a batch of upserts is a transaction that holds the rows it   *)
(* has written, in the order it writes them.                               *)
(*                                                                         *)
(* A bucket is the number of its impressions; the key weights:current is a *)
(* key like any other, with the number of a model.                         *)
(***************************************************************************)
EXTENDS Naturals, Sequences, FiniteSets

CONSTANTS
    Persisters, Seeders, Resetters,  \* the commands
    DryRun,        \* those started with --dry-run
    RealtimeJob,   \* the realtime job
    Plans,         \* what may run: sets of commands, with or without the job
    Buckets,       \* the keys ctr:*
    Weights,       \* the key weights:current
    None,          \* Python's None: no such key, no such row
    SeedValues,    \* what the seed dataset has for each key
    SeedOrder,     \* its buckets in order
    InitialRedis,  \* what an earlier seed and realtime job have left
    MaxCount,      \* bound: impressions the realtime job counts to
    MaxReads       \* bound: how often one scan returns a key

Commands == Persisters \cup Seeders \cup Resetters
Keys == Buckets \cup {Weights}
Value == Nat \cup {None}
NoRows == [b \in Buckets |-> None]
NothingHeld == [k \in Keys |-> {}]

ASSUME CommandAssumption ==
    /\ Persisters \cap Seeders = {}
    /\ Persisters \cap Resetters = {}
    /\ Seeders \cap Resetters = {}
    /\ DryRun \subseteq Commands
    /\ RealtimeJob \notin Commands
    /\ Plans \subseteq SUBSET (Commands \cup {RealtimeJob})

ASSUME DataAssumption ==
    /\ Weights \notin Buckets
    /\ None \notin Nat
    /\ SeedValues \in [Keys -> Nat]
    /\ SeedOrder \in Seq(Buckets) /\ SeedOrder # <<>>
    /\ Len(SeedOrder) = Cardinality(Buckets)
    /\ \A b \in Buckets : \E i \in 1 .. Len(SeedOrder) : SeedOrder[i] = b
    /\ InitialRedis \in [Keys -> Value]

ASSUME BoundAssumption ==
    /\ MaxCount \in Nat
    /\ MaxReads \in Nat \ {0}

VARIABLES
    redis,      \* the keys of Redis
    counted,    \* keyed state of the realtime job, None for no state
    rows,       \* ctr_bucket_statistics, as committed
    models,     \* number of rows of ctr_model_snapshots
    summaries,  \* number of rows of ctr_experiment_results
    pc,         \* where a command is: the call it makes next; the job runs or not
    batch,      \* rows or keys it has yet to write
    written,    \* rows of its open transaction, which it holds
    found,      \* the keys a reset has found to delete
    held,       \* what Redis has held since a command's scan began
    restored    \* history: what reset and seed have made of the stores

tables == <<rows, models, summaries>>
vars == <<redis, counted, tables, pc, batch, written, found, held, restored>>

Row == [bucket : Buckets, value : Nat]
SeedRows == [i \in 1 .. Len(SeedOrder) |->
    [bucket |-> SeedOrder[i], value |-> SeedValues[SeedOrder[i]]]]

Active == {"scan", "upsert", "models", "summaries", "redis", "weights",
           "truncate", "find", "delete"}
Ended == {"done", "failed"}

TypeOK ==
    /\ redis \in [Keys -> Value]
    /\ counted \in [Buckets -> Value]
    /\ rows \in [Buckets -> Value]
    /\ models \in Nat /\ summaries \in Nat
    /\ pc \in [Commands \cup {RealtimeJob} ->
                  {"planned", "none", "running"} \cup Active \cup Ended]
    /\ batch \in [Commands -> Seq(Row)]
    /\ written \in [Commands -> [Buckets -> Value]]
    /\ \A c \in Commands : written[c] # NoRows => pc[c] = "upsert"
    /\ found \in [Commands -> SUBSET Keys]
    /\ held \in [Commands -> [Keys -> SUBSET Value]]
    /\ restored \in {"unknown", "resetting", "reset", "seeding", "seeded"}

Init ==
    /\ redis = InitialRedis
    /\ counted = NoRows
    /\ rows = NoRows
    /\ models = 1 /\ summaries = 1
    /\ \E plan \in Plans :
          pc = [c \in Commands \cup {RealtimeJob} |->
                  IF c \notin plan THEN "none"
                  ELSE IF c = RealtimeJob THEN "running" ELSE "planned"]
    /\ batch = [c \in Commands |-> <<>>]
    /\ written = [c \in Commands |-> NoRows]
    /\ found = [c \in Commands |-> {}]
    /\ held = [c \in Commands |-> NothingHeld]
    /\ restored = "unknown"

-----------------------------------------------------------------------------
(* Redis                                                                   *)

Watching(c) == pc[c] \in (IF c \in Persisters THEN {"scan", "upsert"} ELSE {"find"})

(* Redis changes, under the eyes of whoever scans it or has scanned it.    *)
RedisBecomes(keys) ==
    /\ redis' = keys
    /\ held' = [c \in Commands |->
          IF Watching(c) THEN [k \in Keys |-> held[c][k] \cup {keys[k]}] ELSE held[c]]

BeginScan(c) == held' = [held EXCEPT ![c] = [k \in Keys |-> {redis[k]}]]
Forget(c) == held' = [held EXCEPT ![c] = NothingHeld]

(* SCAN returns every key that was there from the beginning to the end.    *)
ScanMayEnd(c, seen, keys) == \A k \in keys : None \notin held[c][k] => k \in seen

(* The realtime job counts an impression, from its state or from Redis,    *)
(* and writes the bucket now or at a flush.                                *)
Base(b) == IF counted[b] # None THEN counted[b]
           ELSE IF redis[b] # None THEN redis[b] ELSE 0

JobCounts(b) ==
    /\ pc[RealtimeJob] = "running"
    /\ Base(b) < MaxCount
    /\ counted' = [counted EXCEPT ![b] = Base(b) + 1]
    /\ restored' = "unknown"
    /\ \/ RedisBecomes([redis EXCEPT ![b] = Base(b) + 1])
       \/ UNCHANGED <<redis, held>>
    /\ UNCHANGED <<tables, pc, batch, written, found>>

JobFlushes(b) ==
    /\ pc[RealtimeJob] = "running"
    /\ counted[b] \notin {None, redis[b]}
    /\ RedisBecomes([redis EXCEPT ![b] = counted[b]])
    /\ restored' = "unknown"
    /\ UNCHANGED <<counted, tables, pc, batch, written, found>>

-----------------------------------------------------------------------------
(* Transactions on ctr_bucket_statistics                                   *)

Goto(c, call) == pc' = [pc EXCEPT ![c] = call]

Holder(b, c) == written[c][b] # None

(* The row is free, or has been written in this transaction.               *)
UpsertRow(c) ==
    /\ pc[c] = "upsert"
    /\ batch[c] # <<>>
    /\ LET row == Head(batch[c])
       IN  /\ \A d \in Commands \ {c} : ~Holder(row.bucket, d)
           /\ written' = [written EXCEPT ![c][row.bucket] = row.value]
    /\ batch' = [batch EXCEPT ![c] = Tail(@)]
    /\ UNCHANGED <<redis, counted, tables, pc, found, held, restored>>

(* Mutant: ON CONFLICT DO NOTHING.                                         *)
CommitNewRows(c) ==
    /\ pc[c] = "upsert"
    /\ batch[c] = <<>>
    /\ rows' = [b \in Buckets |-> IF rows[b] = None THEN written[c][b] ELSE rows[b]]
    /\ written' = [written EXCEPT ![c] = NoRows]
    /\ Goto(c, IF c \in Seeders THEN "models" ELSE "done")
    /\ Forget(c)
    /\ UNCHANGED <<redis, counted, models, summaries, batch, found, restored>>

Commit(c) ==
    /\ pc[c] = "upsert"
    /\ batch[c] = <<>>
    /\ rows' = [b \in Buckets |-> IF Holder(b, c) THEN written[c][b] ELSE rows[b]]
    /\ written' = [written EXCEPT ![c] = NoRows]
    /\ Goto(c, IF c \in Seeders THEN "models" ELSE "done")
    /\ Forget(c)
    /\ UNCHANGED <<redis, counted, models, summaries, batch, found, restored>>

(* What a failure makes of the stores as far as they are known: a seed     *)
(* that fails leaves a part of it, a reset that fails anything.            *)
AfterFailure(c) == IF c \in Resetters THEN "unknown" ELSE restored

(* Mutant: no rollback, and the connection stays open.                     *)
FailHoldingRows(c) ==
    /\ pc[c] \in Active
    /\ Goto(c, "failed")
    /\ batch' = [batch EXCEPT ![c] = <<>>]
    /\ found' = [found EXCEPT ![c] = {}]
    /\ Forget(c)
    /\ restored' = AfterFailure(c)
    /\ UNCHANGED <<redis, counted, tables, written>>

(* A call raises: the transaction is rolled back and the command ends.     *)
Fail(c) ==
    /\ pc[c] \in Active
    /\ Goto(c, "failed")
    /\ batch' = [batch EXCEPT ![c] = <<>>]
    /\ written' = [written EXCEPT ![c] = NoRows]
    /\ found' = [found EXCEPT ![c] = {}]
    /\ Forget(c)
    /\ restored' = AfterFailure(c)
    /\ UNCHANGED <<redis, counted, tables>>

WaitsFor(c, d) ==
    /\ pc[c] = "upsert" /\ batch[c] # <<>>
    /\ c # d /\ Holder(Head(batch[c]).bucket, d)

(* PostgreSQL: a command that waits for itself through others is aborted.  *)
AbortDeadlocked(c) ==
    /\ \E cycle \in SUBSET {d \in Commands : pc[d] = "upsert"} :
          /\ c \in cycle
          /\ \A d \in cycle : \E e \in cycle : WaitsFor(d, e)
          /\ \A d \in cycle : \E e \in cycle : WaitsFor(e, d)
    /\ Fail(c)

-----------------------------------------------------------------------------
(* persist-redis-buckets                                                   *)

(* While a reset has not deleted the keys, a scan may still find them.     *)
StartPersist(c) ==
    /\ c \in Persisters /\ pc[c] = "planned"
    /\ Goto(c, "scan")
    /\ BeginScan(c)
    /\ restored' = IF restored = "resetting" THEN "unknown" ELSE restored
    /\ UNCHANGED <<redis, counted, tables, batch, written, found>>

Reads(c, b) == Cardinality({i \in 1 .. Len(batch[c]) : batch[c][i].bucket = b})

(* SCAN returns a key and GET reads it; Redis may return a key again.      *)
ReadBucket(c, b) ==
    /\ c \in Persisters /\ pc[c] = "scan"
    /\ redis[b] # None
    /\ Reads(c, b) < MaxReads
    /\ batch' = [batch EXCEPT ![c] = Append(@, [bucket |-> b, value |-> redis[b]])]
    /\ UNCHANGED <<redis, counted, tables, pc, written, found, held, restored>>

(* A dry run, or one that has found no bucket, ends here.                  *)
EndScan(c) ==
    /\ c \in Persisters /\ pc[c] = "scan"
    /\ ScanMayEnd(c, {b \in Buckets : Reads(c, b) > 0}, Buckets)
    /\ IF c \in DryRun \/ batch[c] = <<>>
       THEN Goto(c, "done") /\ batch' = [batch EXCEPT ![c] = <<>>] /\ Forget(c)
       ELSE Goto(c, "upsert") /\ UNCHANGED <<batch, held>>
    /\ UNCHANGED <<redis, counted, tables, written, found, restored>>

-----------------------------------------------------------------------------
(* seed-values                                                             *)

Quiet == \A c \in Commands : pc[c] \notin Active

(* Mutant: the writes to PostgreSQL are left out.                          *)
StartSeedInRedis(c) ==
    /\ c \in Seeders /\ pc[c] = "planned"
    /\ Goto(c, IF c \in DryRun THEN "done" ELSE "redis")
    /\ batch' = [batch EXCEPT ![c] = IF c \in DryRun THEN <<>> ELSE SeedRows]
    /\ restored' = IF c \in DryRun THEN restored
                   ELSE IF Quiet /\ restored = "reset" THEN "seeding" ELSE "unknown"
    /\ UNCHANGED <<redis, counted, tables, written, found, held>>

StartSeed(c) ==
    /\ c \in Seeders /\ pc[c] = "planned"
    /\ Goto(c, IF c \in DryRun THEN "done" ELSE "upsert")
    /\ batch' = [batch EXCEPT ![c] = IF c \in DryRun THEN <<>> ELSE SeedRows]
    /\ restored' = IF c \in DryRun THEN restored
                   ELSE IF Quiet /\ restored = "reset" THEN "seeding" ELSE "unknown"
    /\ UNCHANGED <<redis, counted, tables, written, found, held>>

(* The model and the summary are committed one after the other.            *)
InsertModel(c) ==
    /\ pc[c] = "models"
    /\ models' = models + 1
    /\ Goto(c, "summaries")
    /\ UNCHANGED <<redis, counted, rows, summaries, batch, written, found, held, restored>>

InsertSummary(c) ==
    /\ pc[c] = "summaries"
    /\ summaries' = summaries + 1
    /\ batch' = [batch EXCEPT ![c] = SeedRows]
    /\ Goto(c, "redis")
    /\ UNCHANGED <<redis, counted, rows, models, written, found, held, restored>>

(* The pipeline is no transaction: Redis sets key after key.               *)
WriteBucket(c) ==
    /\ pc[c] = "redis"
    /\ RedisBecomes([redis EXCEPT ![Head(batch[c]).bucket] = Head(batch[c]).value])
    /\ batch' = [batch EXCEPT ![c] = Tail(@)]
    /\ Goto(c, IF Len(batch[c]) = 1 THEN "weights" ELSE "redis")
    /\ UNCHANGED <<counted, tables, written, found, restored>>

WriteWeights(c) ==
    /\ pc[c] = "weights"
    /\ RedisBecomes([redis EXCEPT ![Weights] = SeedValues[Weights]])
    /\ Goto(c, "done")
    /\ restored' = IF restored = "seeding" THEN "seeded" ELSE restored
    /\ UNCHANGED <<counted, tables, batch, written, found>>

-----------------------------------------------------------------------------
(* reset-values                                                            *)

StartReset(c) ==
    /\ c \in Resetters /\ pc[c] = "planned"
    /\ Goto(c, IF c \in DryRun THEN "done" ELSE "truncate")
    /\ restored' = IF c \in DryRun THEN restored
                   ELSE IF Quiet THEN "resetting" ELSE "unknown"
    /\ UNCHANGED <<redis, counted, tables, batch, written, found, held>>

(* TRUNCATE waits for the transactions that are open.                      *)
Truncate(c) ==
    /\ pc[c] = "truncate"
    /\ \A d \in Commands : written[d] = NoRows
    /\ rows' = NoRows /\ models' = 0 /\ summaries' = 0
    /\ BeginScan(c)
    /\ Goto(c, "find")
    /\ UNCHANGED <<redis, counted, batch, written, found, restored>>

FindKey(c, k) ==
    /\ pc[c] = "find"
    /\ redis[k] # None /\ k \notin found[c]
    /\ found' = [found EXCEPT ![c] = @ \cup {k}]
    /\ UNCHANGED <<redis, counted, tables, pc, batch, written, held, restored>>

EndFind(c) ==
    /\ pc[c] = "find"
    /\ ScanMayEnd(c, found[c], Keys)
    /\ Goto(c, "delete")
    /\ Forget(c)
    /\ UNCHANGED <<redis, counted, tables, batch, written, found, restored>>

(* Mutant: the prefix of the weights is forgotten.                         *)
DeleteBuckets(c) ==
    /\ pc[c] = "delete"
    /\ RedisBecomes([k \in Keys |-> IF k \in found[c] \ {Weights} THEN None ELSE redis[k]])
    /\ Goto(c, "done")
    /\ found' = [found EXCEPT ![c] = {}]
    /\ restored' = IF restored = "resetting" THEN "reset" ELSE restored
    /\ UNCHANGED <<counted, tables, batch, written>>

(* One DEL of all the keys found.                                          *)
DeleteKeys(c) ==
    /\ pc[c] = "delete"
    /\ RedisBecomes([k \in Keys |-> IF k \in found[c] THEN None ELSE redis[k]])
    /\ Goto(c, "done")
    /\ found' = [found EXCEPT ![c] = {}]
    /\ restored' = IF restored = "resetting" THEN "reset" ELSE restored
    /\ UNCHANGED <<counted, tables, batch, written>>

-----------------------------------------------------------------------------
Start(c) == StartPersist(c) \/ StartSeed(c) \/ StartReset(c)

Step(c) ==
    \/ \E b \in Buckets : ReadBucket(c, b)
    \/ EndScan(c)
    \/ UpsertRow(c) \/ Commit(c)
    \/ InsertModel(c) \/ InsertSummary(c) \/ WriteBucket(c) \/ WriteWeights(c)
    \/ Truncate(c) \/ EndFind(c) \/ DeleteKeys(c)
    \/ \E k \in Keys : FindKey(c, k)

Job == \E b \in Buckets : JobCounts(b) \/ JobFlushes(b)

Next ==
    \/ \E c \in Commands : Start(c) \/ Step(c) \/ Fail(c) \/ AbortDeadlocked(c)
    \/ Job

Spec == Init /\ [][Next]_vars

(* A command goes on with its calls, and PostgreSQL looks for deadlocks.   *)
FairSpec ==
    /\ Spec
    /\ \A c \in Commands : WF_vars(Step(c))
    /\ WF_vars(\E c \in Commands : AbortDeadlocked(c))

-----------------------------------------------------------------------------
(* Properties                                                              *)

(* What persist-redis-buckets commits, Redis has held during the run, and  *)
(* every bucket there all along is committed (persist_redis_buckets_       *)
(* service.py, 41-55): with its scan beside the realtime job, and with its *)
(* upserts between those of another command.                               *)
PersistedWasCurrent ==
    [][\A c \in Persisters \ DryRun :
          pc[c] \in Active /\ pc'[c] = "done" =>
              \A b \in Buckets :
                  \/ rows'[b] \in held[c][b] \ {None}
                  \/ None \in held[c][b] /\ rows'[b] = rows[b]]_vars

(* A reset that ran alone and then a seed that ran alone bring the stores  *)
(* to a known state whatever failed or overlapped before (seed_service.py, *)
(* 84-101; reset_values.md, "return the project to a clean seedable        *)
(* state"), also when a persist run that began in between is still busy.   *)
KnownState ==
    /\ restored = "reset" =>
          /\ \A k \in Keys : redis[k] = None
          /\ rows = NoRows /\ models = 0 /\ summaries = 0
    /\ restored = "seeded" =>
          /\ redis = SeedValues
          /\ \A b \in Buckets : rows[b] = SeedValues[b]
          /\ models = 1 /\ summaries = 1

(* A seed into reset stores puts nothing into Redis before PostgreSQL has  *)
(* all of it, and publishes the model last, also when it fails half-way    *)
(* and a persist run writes the same rows (seed_service.py, 84-88).        *)
RedisFollowsPostgres ==
    restored = "seeding" =>
        /\ \A b \in Buckets : redis[b] # None =>
              redis[b] = rows[b] /\ models = 1 /\ summaries = 1
        /\ redis[Weights] = None

(* Every command that starts ends, though two batches may want each        *)
(* other's rows: one is aborted and rolled back, and the other goes on     *)
(* (postgres_runtime.py, 95-156; postgres_seed.py, 68-129).                *)
CommandsEnd ==
    \A c \in Commands : pc[c] \in Active ~> pc[c] \in Ended

=============================================================================
