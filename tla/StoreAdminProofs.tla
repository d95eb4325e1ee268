-------------------------- MODULE StoreAdminProofs --------------------------
(***************************************************************************)
(* Proofs about StoreAdmin, for any commands, any plans, any contents of   *)
(* Redis and any seed dataset.                                             *)
(***************************************************************************)
EXTENDS StoreAdmin, FiniteSetTheorems, SequenceTheorems, TLAPS

-----------------------------------------------------------------------------
(* Types, and which calls each command makes                               *)

Calls(c) ==
    IF c \in Persisters THEN {"scan", "upsert"}
    ELSE IF c \in Seeders THEN {"upsert", "models", "summaries", "redis", "weights"}
    ELSE {"truncate", "find", "delete"}

Types ==
    /\ redis \in [Keys -> Value]
    /\ counted \in [Buckets -> Value]
    /\ rows \in [Buckets -> Value]
    /\ models \in Nat /\ summaries \in Nat
    /\ found \in [Commands -> SUBSET Keys]
    /\ held \in [Commands -> [Keys -> SUBSET Value]]
    /\ restored \in {"unknown", "resetting", "reset", "seeding", "seeded"}

(* A command that makes no call owes no write and holds no row.            *)
Controls ==
    /\ pc \in [Commands \cup {RealtimeJob} ->
                  {"planned", "none", "running"} \cup Active \cup Ended]
    /\ batch \in [Commands -> Seq(Row)]
    /\ written \in [Commands -> [Buckets -> Value]]
    /\ \A c \in Commands :
          /\ pc[c] \in Active => pc[c] \in Calls(c)
          /\ pc[c] # "upsert" => written[c] = NoRows
          /\ pc[c] \notin {"scan", "upsert", "redis"} => batch[c] = <<>>
          /\ pc[c] = "redis" => batch[c] # <<>>
          /\ pc[c] = "scan" => c \in Persisters

(* Where one command goes, with what batch and what rows.                  *)
Moves(c, call, rest, holding) ==
    /\ pc' = [pc EXCEPT ![c] = call]
    /\ batch' = [batch EXCEPT ![c] = rest]
    /\ written' = [written EXCEPT ![c] = holding]

LEMMA NoRowsTyped == NoRows \in [Buckets -> Value]
  BY DEF NoRows, Value

LEMMA EmptyBatch == <<>> \in Seq(Row)
  OBVIOUS

LEMMA BatchTail ==
    ASSUME NEW s \in Seq(Row), s # <<>>
    PROVE  /\ Head(s) \in Row /\ Tail(s) \in Seq(Row) /\ Len(s) \in Nat \ {0}
           /\ Len(Tail(s)) = Len(s) - 1 /\ (Len(s) = 1 <=> Tail(s) = <<>>)
           /\ Head(s) = s[1] /\ \A i \in 1 .. Len(Tail(s)) : Tail(s)[i] = s[i + 1]
<1>1. /\ Head(s) \in Row /\ Tail(s) \in Seq(Row) /\ Len(s) \in Nat \ {0}
      /\ Len(Tail(s)) = Len(s) - 1 /\ Head(s) = s[1]
      /\ \A i \in 1 .. Len(Tail(s)) : Tail(s)[i] = s[i + 1]
  BY EmptySeq, HeadTailProperties
<1>2. Tail(s) # <<>> => Len(Tail(s)) # 0
  BY <1>1, EmptySeq
<1>3. Tail(s) = <<>> => Len(Tail(s)) = 0
  BY EmptySeq
<1> QED BY <1>1, <1>2, <1>3

LEMMA SeedRowsTyped ==
    /\ SeedRows \in Seq(Row) /\ SeedRows # <<>> /\ Len(SeedRows) = Len(SeedOrder)
    /\ \A i \in 1 .. Len(SeedRows) :
          /\ SeedRows[i].bucket = SeedOrder[i]
          /\ SeedRows[i].value = SeedValues[SeedRows[i].bucket]
<1>1. /\ Len(SeedOrder) \in Nat \ {0} /\ \A i \in 1 .. Len(SeedOrder) : SeedOrder[i] \in Buckets
      /\ SeedValues \in [Keys -> Nat]
  BY DataAssumption
<1>2. \A i \in 1 .. Len(SeedOrder) :
         [bucket |-> SeedOrder[i], value |-> SeedValues[SeedOrder[i]]] \in Row
  BY <1>1 DEF Row, Keys
<1> QED BY <1>1, <1>2 DEF SeedRows

LEMMA MoveControls ==
    ASSUME Controls, NEW c \in Commands, NEW call, NEW rest \in Seq(Row),
           NEW holding \in [Buckets -> Value], Moves(c, call, rest, holding),
           call \in {"planned", "none", "running"} \cup Active \cup Ended,
           call \in Active => call \in Calls(c),
           call # "upsert" => holding = NoRows,
           call \notin {"scan", "upsert", "redis"} => rest = <<>>,
           call = "redis" => rest # <<>>
    PROVE  Controls'
<1>1. /\ pc' \in [Commands \cup {RealtimeJob} ->
                     {"planned", "none", "running"} \cup Active \cup Ended]
      /\ batch' \in [Commands -> Seq(Row)] /\ written' \in [Commands -> [Buckets -> Value]]
  BY DEF Controls, Moves
<1>2. pc'[c] = call /\ batch'[c] = rest /\ written'[c] = holding
  BY DEF Controls, Moves
<1>3. \A d \in Commands \ {c} :
         pc'[d] = pc[d] /\ batch'[d] = batch[d] /\ written'[d] = written[d]
  BY DEF Controls, Moves
<1>4. call = "scan" => c \in Persisters
  BY DEF Calls, Active
<1> QED BY <1>1, <1>2, <1>3, <1>4 DEF Controls

LEMMA InitControls == Init => Controls
<1> SUFFICES ASSUME Init PROVE Controls
  OBVIOUS
<1>1. \A c \in Commands \cup {RealtimeJob} : pc[c] \in {"none", "running", "planned"}
  BY DEF Init
<1>2. pc \in [Commands \cup {RealtimeJob} ->
                  {"planned", "none", "running"} \cup Active \cup Ended]
  BY DEF Init
<1> QED BY <1>1, <1>2, NoRowsTyped DEF Init, Controls, Active

LEMMA StepControls == Types /\ Controls /\ Next => Controls'
<1> SUFFICES ASSUME Types, Controls, Next PROVE Controls'
  OBVIOUS
<1>w. \A c \in Commands : /\ [pc EXCEPT ![c] = pc[c]] = pc
                          /\ [batch EXCEPT ![c] = batch[c]] = batch
                          /\ [written EXCEPT ![c] = written[c]] = written
                          /\ batch[c] \in Seq(Row) /\ written[c] \in [Buckets -> Value]
  BY DEF Controls
<1>r. \A c \in Commands : (c \in Seeders => c \notin Persisters)
                          /\ (c \in Resetters => c \notin Persisters \cup Seeders)
                          /\ c \in Persisters \cup Seeders \cup Resetters
  BY CommandAssumption DEF Commands
<1> USE DEF Goto
<1>1. ASSUME NEW c \in Commands, StartPersist(c) PROVE Controls'
  <2>1. Moves(c, "scan", batch[c], written[c])
    BY <1>1, <1>w DEF StartPersist, Moves
  <2> QED BY <1>1, <1>w, <2>1, MoveControls DEF StartPersist, Controls, Active, Calls
<1>2. ASSUME NEW c \in Commands, NEW b \in Buckets, ReadBucket(c, b) PROVE Controls'
  <2> DEFINE rest == Append(batch[c], [bucket |-> b, value |-> redis[b]])
  <2>1. rest \in Seq(Row)
    <3>1. redis[b] \in Nat
      BY <1>2 DEF ReadBucket, Types, Keys, Value
    <3>2. [bucket |-> b, value |-> redis[b]] \in Row
      BY <3>1 DEF Row
    <3> QED BY <1>w, <3>2
  <2>2. Moves(c, pc[c], rest, written[c])
    BY <1>2, <1>w DEF ReadBucket, Moves
  <2> HIDE DEF rest
  <2> QED BY <1>2, <1>w, <2>1, <2>2, MoveControls DEF ReadBucket, Controls, Active, Calls
<1>3. ASSUME NEW c \in Commands, EndScan(c) PROVE Controls'
  <2>1. CASE c \in DryRun \/ batch[c] = <<>>
    <3>1. Moves(c, "done", <<>>, written[c])
      BY <1>3, <1>w, <2>1 DEF EndScan, Moves
    <3> QED BY <1>3, <1>w, <3>1, MoveControls, EmptyBatch DEF EndScan, Controls, Active, Ended
  <2>2. CASE ~(c \in DryRun \/ batch[c] = <<>>)
    <3>1. Moves(c, "upsert", batch[c], written[c])
      BY <1>3, <1>w, <2>2 DEF EndScan, Moves
    <3> QED BY <1>3, <1>w, <3>1, MoveControls DEF EndScan, Controls, Active, Calls
  <2> QED BY <2>1, <2>2
<1>4. ASSUME NEW c \in Commands, UpsertRow(c) PROVE Controls'
  <2> DEFINE holding == [written[c] EXCEPT ![Head(batch[c]).bucket] = Head(batch[c]).value]
  <2>1. Head(batch[c]) \in Row /\ Tail(batch[c]) \in Seq(Row)
    BY <1>4, <1>w DEF UpsertRow
  <2>2. holding \in [Buckets -> Value]
    BY <1>w, <2>1 DEF Row, Value
  <2>3. Moves(c, pc[c], Tail(batch[c]), holding)
    BY <1>4, <1>w DEF UpsertRow, Moves, Controls
  <2> HIDE DEF holding
  <2> QED BY <1>4, <2>1, <2>2, <2>3, MoveControls DEF UpsertRow, Controls, Active
<1>5. ASSUME NEW c \in Commands, Commit(c) PROVE Controls'
  <2>1. Moves(c, IF c \in Seeders THEN "models" ELSE "done", <<>>, NoRows)
    BY <1>5, <1>w DEF Commit, Moves
  <2> QED BY <1>5, <1>r, <2>1, MoveControls, NoRowsTyped, EmptyBatch DEF Active, Ended, Calls
<1>6. ASSUME NEW c \in Commands, Fail(c) PROVE Controls'
  <2>1. Moves(c, "failed", <<>>, NoRows)
    BY <1>6 DEF Fail, Moves
  <2> QED BY <1>6, <2>1, MoveControls, NoRowsTyped, EmptyBatch DEF Active, Ended
<1>7. ASSUME NEW c \in Commands, StartSeed(c) PROVE Controls'
  <2>1. CASE c \in DryRun
    <3>1. Moves(c, "done", <<>>, written[c])
      BY <1>7, <1>w, <2>1 DEF StartSeed, Moves
    <3> QED BY <1>7, <1>w, <3>1, MoveControls, EmptyBatch DEF StartSeed, Controls, Active, Ended
  <2>2. CASE c \notin DryRun
    <3>1. Moves(c, "upsert", SeedRows, written[c])
      BY <1>7, <1>w, <2>2 DEF StartSeed, Moves
    <3> QED BY <1>7, <1>w, <1>r, <3>1, MoveControls, SeedRowsTyped
            DEF StartSeed, Controls, Active, Calls
  <2> QED BY <2>1, <2>2
<1>8. ASSUME NEW c \in Commands, InsertModel(c) PROVE Controls'
  <2>1. Moves(c, "summaries", batch[c], written[c]) /\ pc[c] = "models"
    BY <1>8, <1>w DEF InsertModel, Moves
  <2> QED BY <1>w, <1>r, <2>1, MoveControls DEF Controls, Active, Calls
<1>9. ASSUME NEW c \in Commands, InsertSummary(c) PROVE Controls'
  <2>1. Moves(c, "redis", SeedRows, written[c]) /\ pc[c] = "summaries"
    BY <1>9, <1>w DEF InsertSummary, Moves
  <2> QED BY <1>w, <1>r, <2>1, MoveControls, SeedRowsTyped DEF Controls, Active, Calls
<1>10. ASSUME NEW c \in Commands, WriteBucket(c) PROVE Controls'
  <2>1. /\ Moves(c, IF Len(batch[c]) = 1 THEN "weights" ELSE "redis", Tail(batch[c]), written[c])
        /\ pc[c] = "redis" /\ batch[c] # <<>>
    BY <1>10, <1>w DEF WriteBucket, Moves, Controls
  <2>2. /\ Tail(batch[c]) \in Seq(Row)
        /\ Len(batch[c]) = 1 => Tail(batch[c]) = <<>>
        /\ Len(batch[c]) # 1 => Tail(batch[c]) # <<>>
    BY <1>w, <2>1, BatchTail
  <2> QED BY <1>w, <1>r, <2>1, <2>2, MoveControls DEF Controls, Active, Calls
<1>11. ASSUME NEW c \in Commands, WriteWeights(c) PROVE Controls'
  <2>1. Moves(c, "done", batch[c], written[c]) /\ pc[c] = "weights"
    BY <1>11, <1>w DEF WriteWeights, Moves
  <2> QED BY <1>w, <2>1, MoveControls DEF Controls, Active, Ended
<1>12. ASSUME NEW c \in Commands, StartReset(c) PROVE Controls'
  <2>1. /\ Moves(c, IF c \in DryRun THEN "done" ELSE "truncate", batch[c], written[c])
        /\ pc[c] = "planned" /\ c \in Resetters
    BY <1>12, <1>w DEF StartReset, Moves
  <2> QED BY <1>w, <1>r, <2>1, MoveControls DEF Controls, Active, Ended, Calls
<1>13. ASSUME NEW c \in Commands, Truncate(c) PROVE Controls'
  <2>1. Moves(c, "find", batch[c], written[c]) /\ pc[c] = "truncate"
    BY <1>13, <1>w DEF Truncate, Moves
  <2> QED BY <1>w, <1>r, <2>1, MoveControls DEF Controls, Active, Calls
<1>14. ASSUME NEW c \in Commands, EndFind(c) PROVE Controls'
  <2>1. Moves(c, "delete", batch[c], written[c]) /\ pc[c] = "find"
    BY <1>14, <1>w DEF EndFind, Moves
  <2> QED BY <1>w, <1>r, <2>1, MoveControls DEF Controls, Active, Calls
<1>15. ASSUME NEW c \in Commands, DeleteKeys(c) PROVE Controls'
  <2>1. Moves(c, "done", batch[c], written[c]) /\ pc[c] = "delete"
    BY <1>15, <1>w DEF DeleteKeys, Moves
  <2> QED BY <1>w, <2>1, MoveControls DEF Controls, Active, Ended
<1>16. CASE Job \/ \E c \in Commands : \E k \in Keys : FindKey(c, k)
  BY <1>16 DEF Job, JobCounts, JobFlushes, FindKey, Controls
<1> QED BY <1>1, <1>2, <1>3, <1>4, <1>5, <1>6, <1>7, <1>8, <1>9, <1>10, <1>11, <1>12, <1>13,
           <1>14, <1>15, <1>16 DEF Next, Start, Step, AbortDeadlocked

-----------------------------------------------------------------------------
(* Redis and the tables                                                    *)

LEMMA HeldTyped ==
    ASSUME Types, NEW keys \in [Keys -> Value], RedisBecomes(keys)
    PROVE  redis' \in [Keys -> Value] /\ held' \in [Commands -> [Keys -> SUBSET Value]]
<1>1. \A c \in Commands :
         [k \in Keys |-> held[c][k] \cup {keys[k]}] \in [Keys -> SUBSET Value]
  BY DEF Types
<1> QED BY <1>1 DEF RedisBecomes, Types

LEMMA InitTypes == Init => Types
  BY DataAssumption DEF Init, Types, NoRows, NothingHeld, Value

LEMMA StepTypes == Types /\ Controls /\ Next => Types'
<1> SUFFICES ASSUME Types, Controls, Next PROVE Types'
  OBVIOUS
<1>b. \A b \in Buckets : b \in Keys
  BY DEF Keys
<1>h. \A c \in Commands : /\ BeginScan(c) => held' \in [Commands -> [Keys -> SUBSET Value]]
                          /\ Forget(c) => held' \in [Commands -> [Keys -> SUBSET Value]]
  <2>1. NothingHeld \in [Keys -> SUBSET Value] /\ [k \in Keys |-> {redis[k]}] \in [Keys -> SUBSET Value]
    BY DEF Types, NothingHeld
  <2> QED BY <2>1 DEF Types, BeginScan, Forget
<1>1. ASSUME NEW b \in Buckets, JobCounts(b) PROVE Types'
  <2>1. Base(b) \in Nat
    BY <1>b DEF Base, Types, Value
  <2>2. counted' \in [Buckets -> Value] /\ [redis EXCEPT ![b] = Base(b) + 1] \in [Keys -> Value]
    BY <1>1, <1>b, <2>1 DEF JobCounts, Types, Value
  <2> QED BY <1>1, <2>2, HeldTyped DEF JobCounts, tables, Types
<1>2. ASSUME NEW b \in Buckets, JobFlushes(b) PROVE Types'
  <2>1. [redis EXCEPT ![b] = counted[b]] \in [Keys -> Value]
    BY <1>2, <1>b DEF Types
  <2> QED BY <1>2, <2>1, HeldTyped DEF JobFlushes, tables, Types
<1>3. ASSUME NEW c \in Commands, Start(c) PROVE Types'
  BY <1>3, <1>h DEF Start, StartPersist, StartSeed, StartReset, tables, Types
<1>4. ASSUME NEW c \in Commands,
             (\E b \in Buckets : ReadBucket(c, b)) \/ EndScan(c) \/ UpsertRow(c)
               \/ InsertModel(c) \/ InsertSummary(c)
      PROVE  Types'
  <2>1. CASE (\E b \in Buckets : ReadBucket(c, b)) \/ UpsertRow(c)
    BY <2>1 DEF ReadBucket, UpsertRow, tables, Types
  <2>2. CASE EndScan(c)
    BY <2>2, <1>h DEF EndScan, tables, Types
  <2>3. CASE InsertModel(c) \/ InsertSummary(c)
    BY <2>3 DEF InsertModel, InsertSummary, Types
  <2> QED BY <1>4, <2>1, <2>2, <2>3
<1>5. ASSUME NEW c \in Commands, Commit(c) PROVE Types'
  <2>1. rows' \in [Buckets -> Value]
    BY <1>5 DEF Commit, Types, Controls
  <2> QED BY <1>5, <1>h, <2>1 DEF Commit, Types
<1>6. ASSUME NEW c \in Commands, WriteBucket(c) PROVE Types'
  <2>1. Head(batch[c]) \in Row
    BY <1>6 DEF WriteBucket, Controls
  <2>2. [redis EXCEPT ![Head(batch[c]).bucket] = Head(batch[c]).value] \in [Keys -> Value]
    BY <1>b, <2>1 DEF Types, Row, Value
  <2> QED BY <1>6, <2>2, HeldTyped DEF WriteBucket, tables, Types
<1>7. ASSUME NEW c \in Commands, WriteWeights(c) PROVE Types'
  <2>1. [redis EXCEPT ![Weights] = SeedValues[Weights]] \in [Keys -> Value]
    BY DataAssumption DEF Types, Keys, Value
  <2> QED BY <1>7, <2>1, HeldTyped DEF WriteWeights, tables, Types
<1>8. ASSUME NEW c \in Commands, Truncate(c) PROVE Types'
  BY <1>8, <1>h, NoRowsTyped DEF Truncate, Types
<1>9. ASSUME NEW c \in Commands, EndFind(c) \/ Fail(c) PROVE Types'
  BY <1>9, <1>h DEF EndFind, Fail, AfterFailure, tables, Types
<1>10. ASSUME NEW c \in Commands, NEW k \in Keys, FindKey(c, k) PROVE Types'
  BY <1>10 DEF FindKey, tables, Types
<1>11. ASSUME NEW c \in Commands, DeleteKeys(c) PROVE Types'
  <2>1. [k \in Keys |-> IF k \in found[c] THEN None ELSE redis[k]] \in [Keys -> Value]
    BY DEF Types, Value
  <2> QED BY <1>11, <2>1, HeldTyped DEF DeleteKeys, tables, Types
<1> QED BY <1>1, <1>2, <1>3, <1>4, <1>5, <1>6, <1>7, <1>8, <1>9, <1>10, <1>11
        DEF Next, Step, Job, AbortDeadlocked

StoreTypes == Types /\ Controls

LEMMA StoreTypesHold == Spec => []StoreTypes
<1>1. Init => StoreTypes
  BY InitTypes, InitControls DEF StoreTypes
<1>2. StoreTypes /\ [Next]_vars => StoreTypes'
  <2> SUFFICES ASSUME StoreTypes, [Next]_vars PROVE StoreTypes'
    OBVIOUS
  <2>1. CASE Next
    BY <2>1, StepTypes, StepControls DEF StoreTypes
  <2>2. CASE UNCHANGED vars
    BY <2>2 DEF vars, tables, StoreTypes, Types, Controls
  <2> QED BY <2>1, <2>2
<1> QED BY <1>1, <1>2, PTL DEF Spec

(* Every variable has its type, and a command holds rows only in its       *)
(* transaction of upserts (postgres_runtime.py, 95-156): the type          *)
(* invariant of the commands, for any number of them.                      *)
THEOREM TypeCorrect == Spec => []TypeOK
<1>1. StoreTypes => TypeOK
  <2> SUFFICES ASSUME StoreTypes PROVE TypeOK
    OBVIOUS
  <2>1. \A c \in Commands : written[c] # NoRows => pc[c] = "upsert"
    BY DEF StoreTypes, Controls
  <2> QED BY <2>1 DEF StoreTypes, Types, Controls, TypeOK
<1> QED BY <1>1, StoreTypesHold, PTL

-----------------------------------------------------------------------------
(* What a persist run has read                                             *)

Covers(rest, b) == \E i \in 1 .. Len(rest) : rest[i].bucket = b

(* From the beginning of its scan, a run owes and holds only values seen   *)
(* since; and before it commits, all buckets that were there throughout.   *)
WatchInv(c) ==
    pc[c] \in {"scan", "upsert"} =>
        /\ \A k \in Keys : redis[k] \in held[c][k]
        /\ \A i \in 1 .. Len(batch[c]) : batch[c][i].value \in held[c][batch[c][i].bucket]
        /\ \A b \in Buckets : written[c][b] # None => written[c][b] \in held[c][b]
        /\ pc[c] = "upsert" =>
              \A b \in Buckets :
                  None \notin held[c][b] => written[c][b] # None \/ Covers(batch[c], b)

LEMMA ReadIsCovered ==
    ASSUME NEW c, NEW b, Reads(c, b) # 0
    PROVE  Covers(batch[c], b)
<1> SUFFICES ASSUME ~Covers(batch[c], b) PROVE FALSE
  OBVIOUS
<1>1. {i \in 1 .. Len(batch[c]) : batch[c][i].bucket = b} = {}
  BY DEF Covers
<1> QED BY <1>1, FS_EmptySet DEF Reads

LEMMA AppendCases ==
    ASSUME NEW rest \in Seq(Row), NEW row \in Row
    PROVE  \A i \in 1 .. Len(Append(rest, row)) :
              \/ Append(rest, row)[i] = row
              \/ i \in 1 .. Len(rest) /\ Append(rest, row)[i] = rest[i]
<1>1. Len(rest) \in Nat /\ Len(Append(rest, row)) = Len(rest) + 1
  BY AppendProperties, LenProperties
<1>2. Append(rest, row)[Len(rest) + 1] = row
  BY AppendProperties
<1>3. \A i \in 1 .. Len(rest) : Append(rest, row)[i] = rest[i]
  BY AppendProperties
<1> QED BY <1>1, <1>2, <1>3

LEMMA TailCovers ==
    ASSUME NEW rest \in Seq(Row), rest # <<>>, NEW b, Covers(rest, b)
    PROVE  Head(rest).bucket = b \/ Covers(Tail(rest), b)
<1>1. PICK i \in 1 .. Len(rest) : rest[i].bucket = b
  BY DEF Covers
<1>2. CASE i = 1
  BY <1>1, <1>2, BatchTail
<1>3. CASE i # 1
  <2>1. i - 1 \in 1 .. Len(Tail(rest)) /\ Tail(rest)[i - 1] = rest[(i - 1) + 1]
    BY <1>1, <1>3, BatchTail
  <2>2. Tail(rest)[i - 1].bucket = b
    BY <1>1, <2>1
  <2> QED BY <2>1, <2>2 DEF Covers
<1> QED BY <1>2, <1>3

(* The steps of everyone else, who may change Redis under the run.         *)
LEMMA WatchFrame ==
    ASSUME Types, Controls, NEW c \in Persisters, WatchInv(c),
           pc'[c] = pc[c], batch'[c] = batch[c], written'[c] = written[c],
           (redis' = redis /\ held'[c] = held[c])
               \/ \E keys \in [Keys -> Value] : RedisBecomes(keys)
    PROVE  WatchInv(c)'
<1>b. c \in Commands /\ \A b \in Buckets : b \in Keys
  BY DEF Commands, Keys
<1>1. CASE redis' = redis /\ held'[c] = held[c]
  BY <1>1 DEF WatchInv, Covers
<1>2. CASE \E keys \in [Keys -> Value] : RedisBecomes(keys)
  <2> SUFFICES ASSUME pc[c] \in {"scan", "upsert"} PROVE WatchInv(c)'
    BY DEF WatchInv
  <2>1. PICK keys \in [Keys -> Value] : RedisBecomes(keys)
    BY <1>2
  <2>2. redis' = keys /\ held'[c] = [k \in Keys |-> held[c][k] \cup {keys[k]}]
    BY <1>b, <2>1 DEF RedisBecomes, Watching
  <2>3. \A k \in Keys : held[c][k] \subseteq held'[c][k] /\ redis'[k] \in held'[c][k]
    BY <2>2
  <2>4. \A b \in Buckets : written'[c][b] # None => written'[c][b] \in held'[c][b]
    BY <1>b, <2>3 DEF WatchInv
  <2>5. \A i \in 1 .. Len(batch[c]) : batch[c][i].value \in held'[c][batch[c][i].bucket]
    <3> SUFFICES ASSUME NEW i \in 1 .. Len(batch[c])
                 PROVE  batch[c][i].value \in held'[c][batch[c][i].bucket]
      OBVIOUS
    <3>1. batch[c][i].value \in held[c][batch[c][i].bucket]
      BY DEF WatchInv
    <3>2. batch[c] \in Seq(Row)
      BY <1>b DEF Controls
    <3>3. batch[c][i] \in Row
      BY <3>2, LenProperties
    <3>4. batch[c][i].bucket \in Keys
      BY <1>b, <3>3 DEF Row
    <3> QED BY <2>3, <3>1, <3>4
  <2> QED BY <1>b, <2>3, <2>4, <2>5 DEF WatchInv, Covers
<1> QED BY <1>1, <1>2
LEMMA StepWatch ==
    ASSUME Types, Controls, Next, NEW c \in Persisters, WatchInv(c)
    PROVE  WatchInv(c)'
<1>c. /\ c \in Commands /\ c \notin Seeders \cup Resetters
      /\ \A b \in Buckets : b \in Keys
      /\ pc[c] \in Active => pc[c] \in {"scan", "upsert"}
  BY CommandAssumption DEF Commands, Keys, Controls, Calls
<1>t. /\ batch[c] \in Seq(Row) /\ written[c] \in [Buckets -> Value] /\ redis \in [Keys -> Value]
      /\ \A i \in 1 .. Len(batch[c]) : batch[c][i] \in Row
  BY <1>c DEF Controls, Types
<1> USE DEF Goto
<1>1. CASE StartPersist(c)
  <2>1. batch'[c] = <<>> /\ written'[c] = NoRows /\ pc'[c] = "scan"
    BY <1>1, <1>c DEF StartPersist, Controls
  <2>2. redis' = redis /\ held'[c] = [k \in Keys |-> {redis[k]}]
    BY <1>1, <1>c DEF StartPersist, BeginScan, Types
  <2>3. \A b \in Buckets : written'[c][b] = None
    BY <2>1 DEF NoRows
  <2> QED BY <2>1, <2>2, <2>3 DEF WatchInv
<1>2. ASSUME NEW b \in Buckets, ReadBucket(c, b) PROVE WatchInv(c)'
  <2> DEFINE row == [bucket |-> b, value |-> redis[b]]
  <2>1. redis[b] \in Nat /\ redis[b] \in held[c][b]
    BY <1>2, <1>c DEF ReadBucket, Types, Value, WatchInv
  <2>2. row \in Row
    BY <2>1 DEF Row
  <2>3. /\ batch'[c] = Append(batch[c], row)
        /\ pc' = pc /\ written' = written /\ redis' = redis /\ held' = held /\ pc[c] = "scan"
    BY <1>2, <1>c DEF ReadBucket, Controls
  <2>4. row.value \in held[c][row.bucket]
    BY <2>1
  <2> HIDE DEF row
  <2>5. \A i \in 1 .. Len(batch'[c]) :
           batch'[c][i] = row \/ (i \in 1 .. Len(batch[c]) /\ batch'[c][i] = batch[c][i])
    <3> DEFINE longer == Append(batch[c], row)
    <3>1. \A i \in 1 .. Len(longer) :
             longer[i] = row \/ (i \in 1 .. Len(batch[c]) /\ longer[i] = batch[c][i])
      BY <1>t, <2>2, AppendCases
    <3>2. batch'[c] = longer
      BY <2>3
    <3> HIDE DEF longer
    <3> QED BY <3>1, <3>2
  <2>6. \A i \in 1 .. Len(batch'[c]) : batch'[c][i].value \in held[c][batch'[c][i].bucket]
    BY <2>3, <2>4, <2>5 DEF WatchInv
  <2> QED BY <2>3, <2>6 DEF WatchInv
<1>3. CASE EndScan(c)
  <2>1. CASE c \in DryRun \/ batch[c] = <<>>
    <3>1. pc'[c] = "done"
      BY <1>3, <1>c, <2>1 DEF EndScan, Controls
    <3> QED BY <3>1 DEF WatchInv
  <2>2. CASE ~(c \in DryRun \/ batch[c] = <<>>)
    <3>1. /\ batch' = batch /\ held' = held /\ redis' = redis /\ written' = written
          /\ pc[c] = "scan" /\ ScanMayEnd(c, {b \in Buckets : Reads(c, b) > 0}, Buckets)
      BY <1>3, <2>2 DEF EndScan
    <3>2. \A b \in Buckets : None \notin held[c][b] => Covers(batch[c], b)
      <4> SUFFICES ASSUME NEW b \in Buckets, None \notin held[c][b] PROVE Covers(batch[c], b)
        OBVIOUS
      <4>1. b \in {x \in Buckets : Reads(c, x) > 0}
        BY <3>1 DEF ScanMayEnd
      <4>2. Reads(c, b) # 0
        BY <4>1
      <4> QED BY <4>2, ReadIsCovered
    <3> QED BY <3>1, <3>2 DEF WatchInv, Covers
  <2> QED BY <2>1, <2>2
<1>4. CASE UpsertRow(c)
  <2> DEFINE row == Head(batch[c])
  <2>1. /\ row \in Row /\ row = batch[c][1] /\ Len(batch[c]) \in Nat \ {0}
        /\ \A i \in 1 .. Len(Tail(batch[c])) :
              /\ Tail(batch[c])[i] = batch[c][i + 1]
              /\ i + 1 \in 1 .. Len(batch[c])
    BY <1>4, <1>t, BatchTail DEF UpsertRow
  <2>2. /\ pc[c] = "upsert" /\ pc' = pc /\ redis' = redis /\ held' = held
        /\ batch[c] # <<>> /\ batch'[c] = Tail(batch[c])
        /\ written'[c] = [written[c] EXCEPT ![row.bucket] = row.value]
    BY <1>4, <1>c DEF UpsertRow, Controls
  <2>3. row.value \in held[c][row.bucket] /\ row.value # None /\ row.bucket \in Buckets
    BY <2>1, <2>2, DataAssumption DEF WatchInv, Row
  <2>4. \A i \in 1 .. Len(batch'[c]) : batch'[c][i].value \in held[c][batch'[c][i].bucket]
    BY <2>1, <2>2 DEF WatchInv
  <2>5. \A b \in Buckets : written'[c][b] # None => written'[c][b] \in held[c][b]
    BY <1>t, <2>2, <2>3 DEF WatchInv
  <2>6. \A b \in Buckets :
           None \notin held[c][b] => written'[c][b] # None \/ Covers(batch'[c], b)
    <3> SUFFICES ASSUME NEW b \in Buckets, None \notin held[c][b], written'[c][b] = None
                 PROVE  Covers(batch'[c], b)
      OBVIOUS
    <3>1. b # row.bucket /\ written[c][b] = None
      BY <1>t, <2>2, <2>3
    <3>2. Covers(batch[c], b)
      BY <2>2, <3>1 DEF WatchInv
    <3> QED BY <1>t, <2>2, <3>1, <3>2, TailCovers
  <2> HIDE DEF row
  <2> QED BY <2>2, <2>4, <2>5, <2>6, <1>c DEF WatchInv, Covers
<1>5. CASE Commit(c) \/ Fail(c)
  <2>1. pc'[c] \in {"done", "failed"}
    BY <1>5, <1>c DEF Commit, Fail, Controls
  <2> QED BY <2>1 DEF WatchInv
<1>6. ASSUME NEW d \in Commands \ {c},
             \/ Start(d) \/ Fail(d) \/ EndScan(d) \/ UpsertRow(d) \/ Commit(d)
             \/ InsertModel(d) \/ InsertSummary(d) \/ Truncate(d) \/ EndFind(d)
             \/ \E b \in Buckets : ReadBucket(d, b)
             \/ \E k \in Keys : FindKey(d, k)
      PROVE  WatchInv(c)'
  <2>1. pc'[c] = pc[c] /\ batch'[c] = batch[c] /\ written'[c] = written[c] /\ redis' = redis
    BY <1>6, <1>c DEF Start, StartPersist, StartSeed, StartReset, Fail, EndScan, UpsertRow, Commit,
       InsertModel, InsertSummary, Truncate, EndFind, ReadBucket, FindKey, Controls
  <2>2. held'[c] = held[c]
    BY <1>6, <1>c DEF Start, StartPersist, StartSeed, StartReset, Fail, EndScan, UpsertRow, Commit,
       InsertModel, InsertSummary, Truncate, EndFind, ReadBucket, FindKey, BeginScan, Forget, Types
  <2> QED BY <2>1, <2>2, WatchFrame
<1>7. ASSUME NEW d \in Commands \ {c}, WriteBucket(d) PROVE WatchInv(c)'
  <2>1. pc'[c] = pc[c] /\ batch'[c] = batch[c] /\ written'[c] = written[c]
    BY <1>7, <1>c DEF WriteBucket, Controls
  <2>2. Head(batch[d]) \in Row
    BY <1>7 DEF WriteBucket, Controls
  <2>3. [redis EXCEPT ![Head(batch[d]).bucket] = Head(batch[d]).value] \in [Keys -> Value]
    BY <1>t, <2>2 DEF Row, Value, Keys
  <2> QED BY <1>7, <2>1, <2>3, WatchFrame DEF WriteBucket
<1>8. ASSUME NEW d \in Commands \ {c}, WriteWeights(d) PROVE WatchInv(c)'
  <2>1. pc'[c] = pc[c] /\ batch'[c] = batch[c] /\ written'[c] = written[c]
    BY <1>8, <1>c DEF WriteWeights, Controls
  <2>2. [redis EXCEPT ![Weights] = SeedValues[Weights]] \in [Keys -> Value]
    BY DataAssumption, <1>t DEF Keys, Value
  <2> QED BY <1>8, <2>1, <2>2, WatchFrame DEF WriteWeights
<1>9. ASSUME NEW d \in Commands \ {c}, DeleteKeys(d) PROVE WatchInv(c)'
  <2>1. pc'[c] = pc[c] /\ batch'[c] = batch[c] /\ written'[c] = written[c]
    BY <1>9, <1>c DEF DeleteKeys, Controls
  <2>2. [k \in Keys |-> IF k \in found[d] THEN None ELSE redis[k]] \in [Keys -> Value]
    BY <1>t DEF Value
  <2> QED BY <1>9, <2>1, <2>2, WatchFrame DEF DeleteKeys
<1>10. ASSUME NEW b \in Buckets, JobCounts(b) PROVE WatchInv(c)'
  <2>1. Base(b) \in Nat
    BY <1>c DEF Base, Types, Value
  <2>2. [redis EXCEPT ![b] = Base(b) + 1] \in [Keys -> Value]
    <3>1. Base(b) + 1 \in Value
      BY <2>1 DEF Value
    <3> QED BY <1>t, <3>1
  <2> QED BY <1>10, <2>2, WatchFrame DEF JobCounts
<1>11. ASSUME NEW b \in Buckets, JobFlushes(b) PROVE WatchInv(c)'
  <2>1. [redis EXCEPT ![b] = counted[b]] \in [Keys -> Value]
    BY <1>t DEF Types
  <2> QED BY <1>11, <2>1, WatchFrame DEF JobFlushes
<1>12. ~StartSeed(c) /\ ~StartReset(c)
  BY <1>c DEF StartSeed, StartReset
<1>13. /\ ~InsertModel(c) /\ ~InsertSummary(c) /\ ~WriteBucket(c) /\ ~WriteWeights(c)
       /\ ~Truncate(c) /\ ~EndFind(c) /\ ~DeleteKeys(c)
       /\ \A k \in Keys : ~FindKey(c, k)
  BY <1>c DEF InsertModel, InsertSummary, WriteBucket, WriteWeights, Truncate, EndFind,
              DeleteKeys, FindKey, Active
<1>14. CASE Job
  BY <1>14, <1>10, <1>11 DEF Job
<1>15. ASSUME NEW d \in Commands, Start(d) \/ Step(d) \/ Fail(d) PROVE WatchInv(c)'
  <2>1. CASE d = c
    BY <1>15, <2>1, <1>1, <1>2, <1>3, <1>4, <1>5, <1>12, <1>13 DEF Start, Step
  <2>2. CASE d # c
    BY <1>15, <2>2, <1>6, <1>7, <1>8, <1>9 DEF Step
  <2> QED BY <2>1, <2>2
<1> QED BY <1>14, <1>15 DEF Next, AbortDeadlocked
WatchesHold == \A c \in Persisters : WatchInv(c)

LEMMA WatchesAlwaysHold == Spec => [](StoreTypes /\ WatchesHold)
<1>1. Init => StoreTypes /\ WatchesHold
  <2> SUFFICES ASSUME Init PROVE StoreTypes /\ WatchesHold
    OBVIOUS
  <2>1. \A c \in Commands : pc[c] \in {"none", "running", "planned"}
    BY DEF Init
  <2> QED BY <2>1, InitTypes, InitControls DEF StoreTypes, WatchesHold, WatchInv, Commands
<1>2. StoreTypes /\ WatchesHold /\ [Next]_vars => (StoreTypes /\ WatchesHold)'
  <2> SUFFICES ASSUME StoreTypes, WatchesHold, [Next]_vars
               PROVE  StoreTypes' /\ WatchesHold'
    OBVIOUS
  <2>1. CASE Next
    BY <2>1, StepTypes, StepControls, StepWatch DEF StoreTypes, WatchesHold
  <2>2. CASE UNCHANGED vars
    BY <2>2 DEF vars, tables, StoreTypes, Types, Controls, WatchesHold, WatchInv, Covers
  <2> QED BY <2>1, <2>2
<1> QED BY <1>1, <1>2, PTL DEF Spec

LEMMA RunEndsWithCurrentRows ==
    ASSUME Types, Controls, Next, NEW c \in Persisters \ DryRun, WatchInv(c),
           pc[c] \in Active, pc'[c] = "done", NEW b \in Buckets
    PROVE  \/ rows'[b] \in held[c][b] \ {None}
           \/ None \in held[c][b] /\ rows'[b] = rows[b]
<1>c. /\ c \in Commands /\ c \notin Seeders \cup Resetters
      /\ b \in Keys /\ pc[c] \in {"scan", "upsert"}
  BY CommandAssumption DEF Commands, Keys, Controls, Calls
<1>1. CASE EndScan(c)
  <2>1. batch[c] = <<>> /\ rows' = rows
    BY <1>1, <1>c DEF EndScan, Goto, Controls, tables
  <2>2. \A x \in Buckets : Reads(c, x) = 0
    <3>1. \A x \in Buckets : ~Covers(batch[c], x)
      BY <2>1 DEF Covers
    <3> QED BY <3>1, ReadIsCovered
  <2>3. {x \in Buckets : Reads(c, x) > 0} = {}
    BY <2>2
  <2> QED BY <1>1, <2>1, <2>3 DEF EndScan, ScanMayEnd
<1>2. CASE Commit(c)
  <2>1. /\ pc[c] = "upsert" /\ batch[c] = <<>>
        /\ rows'[b] = IF written[c][b] # None THEN written[c][b] ELSE rows[b]
    BY <1>2 DEF Commit, Holder
  <2>2. ~Covers(batch[c], b)
    BY <2>1 DEF Covers
  <2> QED BY <2>1, <2>2 DEF WatchInv
<1>3. ~Fail(c) /\ ~AbortDeadlocked(c) /\ ~Start(c)
  BY <1>c DEF AbortDeadlocked, Fail, Goto, Start, StartPersist, StartSeed, StartReset, Controls
<1>4. /\ ~UpsertRow(c) /\ ~InsertModel(c) /\ ~InsertSummary(c) /\ ~WriteBucket(c) /\ ~WriteWeights(c)
      /\ ~Truncate(c) /\ ~EndFind(c) /\ ~DeleteKeys(c)
      /\ \A k \in Keys : ~FindKey(c, k)
      /\ \A x \in Buckets : ~ReadBucket(c, x)
  BY <1>c DEF UpsertRow, InsertModel, InsertSummary, WriteBucket, WriteWeights, Truncate, EndFind,
              DeleteKeys, FindKey, ReadBucket, Active
<1>5. ASSUME NEW d \in Commands \ {c}, Start(d) \/ Step(d) \/ Fail(d) PROVE FALSE
  <2>1. pc'[c] = pc[c]
    BY <1>5, <1>c DEF Start, StartPersist, StartSeed, StartReset, Step, EndScan, UpsertRow, Commit,
       InsertModel, InsertSummary, WriteBucket, WriteWeights, Truncate, EndFind, DeleteKeys,
       ReadBucket, FindKey, Fail, Goto, Controls
  <2> QED BY <1>c, <2>1
<1>6. ~Job
  BY <1>c DEF Job, JobCounts, JobFlushes
<1> QED BY <1>1, <1>2, <1>3, <1>4, <1>5, <1>6 DEF Next, Step, AbortDeadlocked

(* Whatever else goes on, what a persist run commits Redis has held since  *)
(* the run began, and no bucket that was there all along is left out       *)
(* (persist_redis_buckets_service.py, 41-55).                              *)
THEOREM PersistedCurrent == Spec => PersistedWasCurrent
<1>1. StoreTypes /\ WatchesHold /\ [Next]_vars =>
         [\A c \in Persisters \ DryRun :
             pc[c] \in Active /\ pc'[c] = "done" =>
                 \A b \in Buckets :
                     \/ rows'[b] \in held[c][b] \ {None}
                     \/ None \in held[c][b] /\ rows'[b] = rows[b]]_vars
  BY RunEndsWithCurrentRows DEF StoreTypes, WatchesHold
<1> QED BY <1>1, WatchesAlwaysHold, PTL DEF Spec, PersistedWasCurrent
-----------------------------------------------------------------------------
(* What a reset and a seed make of the stores                              *)

EmptyTables == rows = NoRows /\ models = 0 /\ summaries = 0
EmptyRedis == \A b \in Buckets : redis[b] = None

(* A reset alone: since TRUNCATE the tables are empty, and since its scan  *)
(* began nothing has come into Redis.                                      *)
ResetAlone(c) ==
    /\ c \in Resetters /\ pc[c] \in {"truncate", "find", "delete"}
    /\ \A d \in Commands \ {c} : pc[d] \notin Active
    /\ pc[c] # "truncate" => EmptyTables
    /\ pc[c] = "find" => \A k \in Keys : held[c][k] = {redis[k]}
    /\ pc[c] = "delete" => \A k \in Keys : redis[k] # None => k \in found[c]

(* What a command owes and holds is from the seed dataset.                 *)
SeedOnly(c) ==
    /\ \A b \in Buckets : written[c][b] \in {None, SeedValues[b]}
    /\ \A i \in 1 .. Len(batch[c]) : batch[c][i].value = SeedValues[batch[c][i].bucket]

SeedRowsIn == \A b \in Buckets : rows[b] = SeedValues[b]
SeedTables == SeedRowsIn /\ models = 1 /\ summaries = 1

(* How far a seed into empty stores has come.                              *)
SeedStage(c) ==
    /\ pc[c] = "upsert" =>
          /\ EmptyRedis /\ models = 0 /\ summaries = 0
          /\ \A b \in Buckets : written[c][b] = SeedValues[b] \/ Covers(batch[c], b)
    /\ pc[c] = "models" => EmptyRedis /\ SeedRowsIn /\ models = 0 /\ summaries = 0
    /\ pc[c] = "summaries" => EmptyRedis /\ SeedRowsIn /\ models = 1 /\ summaries = 0
    /\ pc[c] = "redis" =>
          /\ SeedTables
          /\ \A b \in Buckets : redis[b] = SeedValues[b] \/ Covers(batch[c], b)
    /\ pc[c] = "weights" => SeedTables /\ \A b \in Buckets : redis[b] = SeedValues[b]

SeedStores ==
    /\ \A b \in Buckets :
          /\ rows[b] \in {None, SeedValues[b]}
          /\ redis[b] # None => redis[b] = SeedValues[b] /\ SeedTables
    /\ redis[Weights] = None

ResettingInv == restored = "resetting" => \E c \in Commands : ResetAlone(c)

ResetInv ==
    restored = "reset" =>
        /\ EmptyTables /\ \A k \in Keys : redis[k] = None
        /\ \A c \in Commands :
              pc[c] \in Active => c \in Persisters /\ pc[c] = "scan" /\ batch[c] = <<>>

SeedingInv ==
    restored = "seeding" =>
        /\ SeedStores
        /\ \A c \in Commands : SeedOnly(c)
        /\ \A c \in Commands : pc[c] \in Active => c \in Persisters \cup Seeders
        /\ \A c, d \in Seeders : pc[c] \in Active /\ pc[d] \in Active => c = d
        /\ \A c \in Seeders : SeedStage(c)

SeededInv ==
    restored = "seeded" =>
        /\ SeedTables /\ redis = SeedValues
        /\ \A c \in Commands : SeedOnly(c) /\ (pc[c] \in Active => c \in Persisters)

RestoredInv == ResettingInv /\ ResetInv /\ SeedingInv /\ SeededInv
LEMMA CommandKinds ==
    \A c \in Commands :
        /\ c \in Persisters \cup Seeders \cup Resetters
        /\ c \in Persisters => c \notin Seeders \cup Resetters
        /\ c \in Seeders => c \notin Resetters
        /\ c # RealtimeJob
  BY CommandAssumption DEF Commands

(* A dry run of a seed or a reset ends where it starts.                    *)
LEMMA DryRunEnds ==
    ASSUME Types, Controls, NEW c \in DryRun, c \in Commands, StartSeed(c) \/ StartReset(c)
    PROVE  /\ pc[c] = "planned" /\ pc' = [pc EXCEPT ![c] = "done"]
           /\ batch' = batch /\ restored' = restored
           /\ UNCHANGED <<redis, counted, tables, written, found, held>>
<1>1. [batch EXCEPT ![c] = <<>>] = batch
  <2>1. pc[c] = "planned" => batch[c] = <<>>
    BY DEF Controls
  <2>2. pc[c] = "planned"
    BY DEF StartSeed, StartReset
  <2> QED BY <2>1, <2>2 DEF Controls
<1> QED BY <1>1 DEF StartSeed, StartReset, Goto

LEMMA StepResetting ==
    ASSUME Types, Controls, ResettingInv, Next, restored' = "resetting"
    PROVE  \E c \in Commands : ResetAlone(c)'
<1> USE DEF Goto
<1>1. ASSUME NEW c \in Commands, StartReset(c), c \notin DryRun
      PROVE  \E d \in Commands : ResetAlone(d)'
  <2>1. /\ c \in Resetters /\ pc' = [pc EXCEPT ![c] = "truncate"]
        /\ pc'[c] = "truncate"
        /\ \A d \in Commands : pc[d] \notin Active
    BY <1>1 DEF StartReset, Quiet, Controls
  <2>2. \A d \in Commands \ {c} : pc'[d] \notin Active
    BY <2>1 DEF Controls
  <2>3. ResetAlone(c)'
    BY <2>1, <2>2 DEF ResetAlone
  <2> QED BY <2>3
<1>2. CASE restored # "resetting"
  <2>1. \E c \in Commands : StartReset(c) /\ c \notin DryRun
    BY <1>2 DEF Next, Start, Step, Job, StartPersist, StartSeed, StartReset, Fail, AbortDeadlocked,
       AfterFailure, EndScan, UpsertRow, Commit, InsertModel, InsertSummary, WriteBucket, WriteWeights,
       Truncate, EndFind, DeleteKeys, FindKey, ReadBucket, JobCounts, JobFlushes
  <2> QED BY <2>1, <1>1
<1>3. CASE restored = "resetting"
  <2>1. PICK c \in Commands : ResetAlone(c)
    BY <1>3 DEF ResettingInv
  <2>2. /\ c \in Resetters /\ pc[c] \in {"truncate", "find", "delete"}
        /\ \A d \in Commands \ {c} : pc[d] \notin Active
    BY <2>1 DEF ResetAlone
  <2>3. ASSUME NEW d \in DryRun, d \in Commands, StartSeed(d) \/ StartReset(d)
        PROVE  ResetAlone(c)'
    <3>1. /\ pc[d] = "planned" /\ pc' = [pc EXCEPT ![d] = "done"]
          /\ UNCHANGED <<redis, rows, models, summaries, found, held>>
      BY <2>3, DryRunEnds DEF tables
    <3>2. pc'[c] = pc[c] /\ \A e \in Commands \ {c} : pc'[e] \notin Active
      BY <2>2, <3>1 DEF Controls, Active
    <3> QED BY <2>1, <3>1, <3>2 DEF ResetAlone, EmptyTables
  <2>4. CASE Truncate(c)
    <3>1. /\ rows' = NoRows /\ models' = 0 /\ summaries' = 0
          /\ pc' = [pc EXCEPT ![c] = "find"] /\ redis' = redis
          /\ held'[c] = [k \in Keys |-> {redis[k]}]
      BY <2>4 DEF Truncate, BeginScan, Types
    <3>2. pc'[c] = "find" /\ \A e \in Commands \ {c} : pc'[e] \notin Active
      BY <2>2, <3>1 DEF Controls
    <3> QED BY <2>2, <3>1, <3>2 DEF ResetAlone, EmptyTables
  <2>5. ASSUME NEW k \in Keys, FindKey(c, k) PROVE ResetAlone(c)'
    BY <2>1, <2>5 DEF FindKey, ResetAlone, EmptyTables, tables
  <2>6. CASE EndFind(c)
    <3>1. /\ pc[c] = "find" /\ pc' = [pc EXCEPT ![c] = "delete"] /\ found' = found
          /\ UNCHANGED <<redis, rows, models, summaries>>
          /\ \A k \in Keys : None \notin held[c][k] => k \in found[c]
      BY <2>6 DEF EndFind, ScanMayEnd, tables
    <3>2. pc'[c] = "delete" /\ \A e \in Commands \ {c} : pc'[e] \notin Active
      BY <2>2, <3>1 DEF Controls
    <3>3. \A k \in Keys : redis[k] # None => k \in found[c]
      BY <2>1, <3>1 DEF ResetAlone
    <3> QED BY <2>1, <3>1, <3>2, <3>3 DEF ResetAlone, EmptyTables
  <2>7. \A d \in Commands \ {c} : ~Step(d) /\ ~Fail(d)
    <3> SUFFICES ASSUME NEW d \in Commands \ {c}, Step(d) \/ Fail(d) PROVE pc[d] \in Active
      BY <2>2
    <3> QED BY DEF Step, Fail, EndScan, UpsertRow, Commit, InsertModel, InsertSummary, WriteBucket,
               WriteWeights, Truncate, EndFind, DeleteKeys, FindKey, ReadBucket, Active
  <2>8. /\ ~EndScan(c) /\ ~UpsertRow(c) /\ ~Commit(c) /\ ~InsertModel(c) /\ ~InsertSummary(c)
        /\ ~WriteBucket(c) /\ ~WriteWeights(c) /\ ~Start(c)
        /\ \A b \in Buckets : ~ReadBucket(c, b)
    BY <2>2 DEF EndScan, UpsertRow, Commit, InsertModel, InsertSummary, WriteBucket,
                WriteWeights, ReadBucket, Start, StartPersist, StartSeed, StartReset
  <2>9. ~DeleteKeys(c) /\ ~Fail(c) /\ ~Job /\ \A d \in Commands : ~StartPersist(d)
    BY <1>3, <2>2 DEF DeleteKeys, Fail, AfterFailure, Job, JobCounts, JobFlushes, StartPersist
  <2>10. \A d \in Commands : StartSeed(d) => d \in DryRun
    BY <1>3 DEF StartSeed
  <2>11. \A d \in Commands : StartReset(d) => d \in DryRun
    <3>1. c \in Commands /\ pc[c] \in Active
      BY <2>2 DEF Active
    <3>2. ~Quiet
      BY <3>1 DEF Quiet
    <3> QED BY <3>2 DEF StartReset
  <2> QED BY <2>3, <2>4, <2>5, <2>6, <2>7, <2>8, <2>9, <2>10, <2>11
          DEF Next, Start, Step, AbortDeadlocked
<1> QED BY <1>2, <1>3
LEMMA StepReset ==
    ASSUME Types, Controls, ResettingInv, ResetInv, Next, restored' = "reset"
    PROVE  ResetInv'
<1> USE DEF Goto
<1>b. Weights \in Keys /\ \A b \in Buckets : b \in Keys
  BY DEF Keys
<1>1. CASE restored # "reset"
  <2>1. PICK c \in Commands : DeleteKeys(c) /\ restored = "resetting"
    BY <1>1 DEF Next, Start, Step, Job, StartPersist, StartSeed, StartReset, Fail, AbortDeadlocked,
       AfterFailure, EndScan, UpsertRow, Commit, InsertModel, InsertSummary, WriteBucket, WriteWeights,
       Truncate, EndFind, DeleteKeys, FindKey, ReadBucket, JobCounts, JobFlushes
  <2>2. PICK d \in Commands : ResetAlone(d)
    BY <2>1 DEF ResettingInv
  <2>3. d = c
    BY <2>1, <2>2 DEF ResetAlone, DeleteKeys, Active
  <2>4. /\ EmptyTables /\ \A k \in Keys : redis[k] # None => k \in found[c]
        /\ pc[c] = "delete" /\ \A e \in Commands \ {c} : pc[e] \notin Active
    BY <2>1, <2>2, <2>3 DEF ResetAlone, DeleteKeys
  <2>5. /\ redis' = [k \in Keys |-> IF k \in found[c] THEN None ELSE redis[k]]
        /\ UNCHANGED <<rows, models, summaries>> /\ pc' = [pc EXCEPT ![c] = "done"]
    BY <2>1 DEF DeleteKeys, RedisBecomes, tables
  <2>6. \A k \in Keys : redis'[k] = None
    BY <2>4, <2>5
  <2>7. \A e \in Commands : pc'[e] \notin Active
    BY <2>4, <2>5 DEF Controls, Active
  <2> QED BY <2>4, <2>5, <2>6, <2>7 DEF ResetInv, EmptyTables
<1>2. CASE restored = "reset"
  <2>1. /\ EmptyTables /\ \A k \in Keys : redis[k] = None
        /\ \A c \in Commands :
              pc[c] \in Active => c \in Persisters /\ pc[c] = "scan" /\ batch[c] = <<>>
    BY <1>2 DEF ResetInv
  <2>2. ASSUME NEW c \in DryRun, c \in Commands, StartSeed(c) \/ StartReset(c)
        PROVE ResetInv'
    <3>1. /\ pc' = [pc EXCEPT ![c] = "done"] /\ batch' = batch
          /\ UNCHANGED <<redis, rows, models, summaries>>
      BY <2>2, DryRunEnds DEF tables
    <3> QED BY <2>1, <3>1 DEF ResetInv, EmptyTables, Controls, Active
  <2>3. ASSUME NEW c \in Commands, StartPersist(c) PROVE ResetInv'
    <3>1. /\ pc' = [pc EXCEPT ![c] = "scan"] /\ batch' = batch
          /\ UNCHANGED <<redis, rows, models, summaries>> /\ c \in Persisters
          /\ batch[c] = <<>>
      BY <2>3 DEF StartPersist, tables, Controls
    <3> QED BY <2>1, <3>1 DEF ResetInv, EmptyTables, Controls
  <2>4. ASSUME NEW c \in Commands, EndScan(c) PROVE ResetInv'
    <3>1. pc[c] = "scan" /\ batch[c] = <<>>
      BY <2>1, <2>4 DEF EndScan, Active
    <3>2. /\ pc' = [pc EXCEPT ![c] = "done"] /\ batch' = [batch EXCEPT ![c] = <<>>]
          /\ UNCHANGED <<redis, rows, models, summaries>>
      BY <2>4, <3>1 DEF EndScan, tables
    <3> QED BY <2>1, <3>1, <3>2 DEF ResetInv, EmptyTables, Controls, Active
  <2>5. ASSUME NEW c \in Commands, Fail(c) PROVE ResetInv'
    <3>1. /\ pc' = [pc EXCEPT ![c] = "failed"] /\ batch' = [batch EXCEPT ![c] = <<>>]
          /\ UNCHANGED <<redis, rows, models, summaries>>
      BY <2>5 DEF Fail, tables
    <3> QED BY <2>1, <3>1 DEF ResetInv, EmptyTables, Controls, Active
  <2>6. \A c \in Commands :
           /\ ~UpsertRow(c) /\ ~Commit(c) /\ ~InsertModel(c) /\ ~InsertSummary(c) /\ ~WriteBucket(c)
           /\ ~WriteWeights(c) /\ ~Truncate(c) /\ ~EndFind(c) /\ ~DeleteKeys(c)
           /\ \A k \in Keys : ~FindKey(c, k)
           /\ \A b \in Buckets : ~ReadBucket(c, b)
    BY <2>1, <1>b DEF UpsertRow, Commit, InsertModel, InsertSummary, WriteBucket,
       WriteWeights, Truncate, EndFind, DeleteKeys, FindKey, ReadBucket, Active
  <2>7. ~Job
    BY DEF Job, JobCounts, JobFlushes
  <2>8. \A c \in Commands : /\ StartSeed(c) => c \in DryRun
                            /\ StartReset(c) => c \in DryRun
    BY <1>2 DEF StartSeed, StartReset
  <2> QED BY <2>2, <2>3, <2>4, <2>5, <2>6, <2>7, <2>8 DEF Next, Start, Step, AbortDeadlocked
<1> QED BY <1>1, <1>2
LEMMA SeedRowsCover == \A b \in Buckets : Covers(SeedRows, b)
  BY SeedRowsTyped, DataAssumption DEF Covers

LEMMA EndedHasNothing ==
    ASSUME Types, Controls, NEW c \in Commands, pc[c] \notin Active
    PROVE  batch[c] = <<>> /\ \A b \in Buckets : written[c][b] = None
<1>1. pc[c] \notin {"scan", "upsert", "redis"}
  BY DEF Active
<1>2. written[c] = NoRows
  BY <1>1 DEF Controls
<1> QED BY <1>1, <1>2 DEF Controls, NoRows

LEMMA SeedOnlyFrame ==
    ASSUME NEW c, SeedOnly(c), batch'[c] = batch[c], written'[c] = written[c]
    PROVE  SeedOnly(c)'
  BY DEF SeedOnly

(* Whoever is not at a call of the seed is at no stage of it.              *)
LEMMA NotAtAStage ==
    ASSUME NEW c, pc'[c] \notin Active
    PROVE  SeedStage(c)'
  BY DEF SeedStage, Active

LEMMA SeedStageFrame ==
    ASSUME NEW c, SeedStage(c), pc'[c] = pc[c], batch'[c] = batch[c], written'[c] = written[c],
           redis' = redis, models' = models, summaries' = summaries, SeedRowsIn => SeedRowsIn'
    PROVE  SeedStage(c)'
  BY DEF SeedStage, SeedTables, EmptyRedis, Covers

(* A run that reads what the seed wrote owes what the seed wrote.          *)
LEMMA ReadsSeed ==
    ASSUME Types, Controls, NEW c \in Commands, SeedOnly(c),
           NEW b \in Buckets, redis[b] = SeedValues[b], ReadBucket(c, b)
    PROVE  SeedOnly(c)'
<1>1. redis[b] \in Nat /\ batch[c] \in Seq(Row)
  BY DEF ReadBucket, Types, Controls, Value, Keys
<1>2. [bucket |-> b, value |-> redis[b]] \in Row
  BY <1>1 DEF Row
<1>3. PICK row \in Row : row = [bucket |-> b, value |-> redis[b]]
  BY <1>2
<1>4. /\ batch'[c] = Append(batch[c], row) /\ written'[c] = written[c]
      /\ row.value = SeedValues[row.bucket]
  BY <1>3 DEF ReadBucket, Controls
<1>5. \A i \in 1 .. Len(batch'[c]) : batch'[c][i].value = SeedValues[batch'[c][i].bucket]
  <2> DEFINE longer == Append(batch[c], row)
  <2>1. \A i \in 1 .. Len(longer) :
           longer[i] = row \/ (i \in 1 .. Len(batch[c]) /\ longer[i] = batch[c][i])
    BY <1>1, AppendCases
  <2>2. batch'[c] = longer
    BY <1>4
  <2> HIDE DEF longer
  <2> QED BY <1>4, <2>1, <2>2 DEF SeedOnly
<1> QED BY <1>4, <1>5 DEF SeedOnly

LEMMA HeadOfSeed ==
    ASSUME Controls, NEW c \in Commands, SeedOnly(c), batch[c] # <<>>
    PROVE  /\ Head(batch[c]) \in Row /\ Head(batch[c]).bucket \in Buckets
           /\ Head(batch[c]).value = SeedValues[Head(batch[c]).bucket]
           /\ \A i \in 1 .. Len(Tail(batch[c])) :
                 Tail(batch[c])[i].value = SeedValues[Tail(batch[c])[i].bucket]
<1>1. batch[c] \in Seq(Row)
  BY DEF Controls
<1>2. /\ Head(batch[c]) = batch[c][1] /\ Len(batch[c]) \in Nat \ {0} /\ Head(batch[c]) \in Row
      /\ \A i \in 1 .. Len(Tail(batch[c])) :
            Tail(batch[c])[i] = batch[c][i + 1] /\ i + 1 \in 1 .. Len(batch[c])
  BY <1>1, BatchTail
<1> QED BY <1>2 DEF SeedOnly, Row

LEMMA UpsertsSeed ==
    ASSUME Controls, NEW c \in Commands, SeedOnly(c), UpsertRow(c)
    PROVE  SeedOnly(c)'
<1>1. /\ batch[c] # <<>> /\ batch'[c] = Tail(batch[c])
      /\ written'[c] = [written[c] EXCEPT ![Head(batch[c]).bucket] = Head(batch[c]).value]
      /\ written[c] \in [Buckets -> Value]
  BY DEF UpsertRow, Controls
<1> QED BY <1>1, HeadOfSeed DEF SeedOnly

(* A seed begins with reset stores.                                        *)
LEMMA SeedBegins ==
    ASSUME Types, Controls, ResetInv, NEW c \in Commands, StartSeed(c),
           restored = "reset", restored' = "seeding"
    PROVE  SeedingInv'
<1>1. /\ c \in Seeders /\ pc' = [pc EXCEPT ![c] = "upsert"] /\ batch' = [batch EXCEPT ![c] = SeedRows]
      /\ UNCHANGED <<redis, rows, models, summaries, written>>
      /\ \A d \in Commands : pc[d] \notin Active
  BY DEF StartSeed, Goto, tables, Quiet
<1>2. EmptyTables /\ \A k \in Keys : redis[k] = None
  BY DEF ResetInv
<1>3. /\ pc'[c] = "upsert" /\ batch'[c] = SeedRows /\ written'[c] = written[c]
      /\ \A d \in Commands \ {c} : pc'[d] = pc[d] /\ batch'[d] = batch[d] /\ written'[d] = written[d]
  BY <1>1 DEF Controls
<1>4. SeedStores'
  BY <1>1, <1>2 DEF SeedStores, EmptyTables, NoRows, Keys
<1>5. \A d \in Commands : SeedOnly(d)'
  <2> SUFFICES ASSUME NEW d \in Commands PROVE SeedOnly(d)'
    OBVIOUS
  <2>1. batch[d] = <<>> /\ \A b \in Buckets : written[d][b] = None
    BY <1>1, EndedHasNothing
  <2>2. CASE d = c
    BY <1>3, <2>1, <2>2, SeedRowsTyped DEF SeedOnly
  <2>3. CASE d # c
    BY <1>3, <2>1, <2>3 DEF SeedOnly
  <2> QED BY <2>2, <2>3
<1>6. \A d \in Commands : pc'[d] \in Active => d = c
  BY <1>1, <1>3
<1>7. \A d \in Seeders : d \in Commands
  BY DEF Commands
<1>8. SeedStage(c)'
  <2>1. \A b \in Buckets : Covers(batch'[c], b)
    BY <1>3, SeedRowsCover
  <2>2. EmptyRedis' /\ models' = 0 /\ summaries' = 0
    BY <1>1, <1>2 DEF EmptyRedis, EmptyTables, Keys
  <2> QED BY <1>3, <2>1, <2>2 DEF SeedStage
<1>9. \A d \in Seeders : SeedStage(d)'
  BY <1>6, <1>7, <1>8, NotAtAStage
<1> QED BY <1>1, <1>4, <1>5, <1>6, <1>7, <1>9 DEF SeedingInv

LEMMA SeedingPersistRun ==
    ASSUME Types, Controls, SeedingInv, restored = "seeding", NEW c \in Persisters,
           \/ StartPersist(c) \/ EndScan(c) \/ UpsertRow(c) \/ Commit(c) \/ Fail(c)
           \/ \E b \in Buckets : ReadBucket(c, b)
    PROVE  SeedingInv'
<1>c. /\ c \in Commands /\ c \notin Seeders \cup Resetters
      /\ \A d \in Seeders : d \in Commands
      /\ \A b \in Buckets : b \in Keys
  BY CommandKinds DEF Commands, Keys
<1>t. batch[c] \in Seq(Row) /\ written[c] \in [Buckets -> Value] /\ SeedOnly(c)
  BY <1>c DEF Controls, SeedingInv
<1> USE DEF Goto
<1>1. /\ redis' = redis /\ models' = models /\ summaries' = summaries
      /\ \A d \in Commands \ {c} :
            pc'[d] = pc[d] /\ batch'[d] = batch[d] /\ written'[d] = written[d]
  BY <1>c DEF StartPersist, EndScan, UpsertRow, Commit, Fail, ReadBucket, tables, Controls
<1>2. \A b \in Buckets : rows'[b] = rows[b] \/ rows'[b] = SeedValues[b]
  <2>1. CASE Commit(c)
    BY <1>t, <2>1 DEF Commit, Holder, SeedOnly
  <2>2. CASE ~Commit(c)
    BY <2>2 DEF StartPersist, EndScan, UpsertRow, Fail, ReadBucket, tables
  <2> QED BY <2>1, <2>2
<1>3. SeedRowsIn => SeedRowsIn'
  BY <1>2 DEF SeedRowsIn
<1>4. SeedStores'
  BY <1>1, <1>2, <1>3 DEF SeedingInv, SeedStores, SeedTables
<1>5. SeedOnly(c)'
  <2>1. ASSUME NEW b \in Buckets, ReadBucket(c, b) PROVE SeedOnly(c)'
    <3>1. redis[b] = SeedValues[b]
      BY <2>1 DEF ReadBucket, SeedingInv, SeedStores
    <3> QED BY <1>c, <1>t, <2>1, <3>1, ReadsSeed
  <2>2. CASE UpsertRow(c)
    BY <1>c, <1>t, <2>2, UpsertsSeed
  <2>3. CASE StartPersist(c)
    <3>1. batch' = batch /\ written' = written
      BY <2>3 DEF StartPersist
    <3> QED BY <1>t, <3>1, SeedOnlyFrame
  <2>4. CASE EndScan(c)
    <3>1. written'[c] = written[c] /\ (batch'[c] = batch[c] \/ batch'[c] = <<>>)
      BY <1>c, <2>4 DEF EndScan, Controls
    <3> QED BY <1>t, <3>1 DEF SeedOnly
  <2>5. CASE Commit(c) \/ Fail(c)
    <3>1. batch'[c] = <<>> /\ written'[c] = NoRows
      BY <1>c, <2>5 DEF Commit, Fail, Controls
    <3> QED BY <3>1 DEF SeedOnly, NoRows
  <2> QED BY <2>1, <2>2, <2>3, <2>4, <2>5
<1>6. \A d \in Commands : SeedOnly(d)'
  BY <1>1, <1>5, SeedOnlyFrame DEF SeedingInv
<1>7. \A d \in Commands : pc'[d] \in Active => d \in Persisters \cup Seeders
  BY <1>1 DEF SeedingInv
<1>8. \A d, e \in Seeders : pc'[d] \in Active /\ pc'[e] \in Active => d = e
  BY <1>1, <1>c DEF SeedingInv
<1>9. \A d \in Seeders : SeedStage(d)'
  BY <1>1, <1>3, <1>c, SeedStageFrame DEF SeedingInv
<1> QED BY <1>4, <1>6, <1>7, <1>8, <1>9 DEF SeedingInv
LEMMA SeedingSeed ==
    ASSUME Types, Controls, SeedingInv, restored = "seeding", NEW c \in Seeders, pc[c] \in Active,
           \/ UpsertRow(c) \/ Commit(c) \/ InsertModel(c) \/ InsertSummary(c)
           \/ WriteBucket(c) \/ Fail(c)
    PROVE  SeedingInv'
<1>c. /\ c \in Commands /\ c \notin Persisters \cup Resetters
      /\ \A d \in Seeders : d \in Commands
      /\ \A b \in Buckets : b \in Keys /\ b # Weights
      /\ \A b \in Buckets : SeedValues[b] # None
  BY CommandKinds, DataAssumption DEF Commands, Keys
<1>t. batch[c] \in Seq(Row) /\ written[c] \in [Buckets -> Value] /\ SeedOnly(c) /\ SeedStage(c)
  BY <1>c DEF Controls, SeedingInv
<1> USE DEF Goto
<1>1. \A d \in Commands \ {c} :
         pc'[d] = pc[d] /\ batch'[d] = batch[d] /\ written'[d] = written[d]
  BY <1>c DEF UpsertRow, Commit, InsertModel, InsertSummary, WriteBucket, Fail, tables, Controls
<1>2. \A d \in Seeders \ {c} : pc'[d] \notin Active
  BY <1>1, <1>c DEF SeedingInv
<1>3. SUFFICES SeedStores' /\ SeedOnly(c)' /\ SeedStage(c)'
  <2>1. \A d \in Commands : SeedOnly(d)'
    BY <1>1, <1>3, SeedOnlyFrame DEF SeedingInv
  <2>2. \A d \in Commands : pc'[d] \in Active => d \in Persisters \cup Seeders
    BY <1>1 DEF SeedingInv
  <2>3. \A d \in Seeders : SeedStage(d)'
    BY <1>2, <1>3, NotAtAStage
  <2> QED BY <1>2, <1>3, <2>1, <2>2, <2>3 DEF SeedingInv
<1>h. batch[c] # <<>> =>
         /\ Head(batch[c]) \in Row /\ Head(batch[c]).bucket \in Buckets
         /\ Head(batch[c]).value = SeedValues[Head(batch[c]).bucket]
         /\ \A i \in 1 .. Len(Tail(batch[c])) :
               Tail(batch[c])[i].value = SeedValues[Tail(batch[c])[i].bucket]
  BY <1>c, <1>t, HeadOfSeed
<1>4. CASE UpsertRow(c)
  <2>1. /\ pc[c] = "upsert" /\ pc' = pc /\ batch[c] # <<>> /\ batch'[c] = Tail(batch[c])
        /\ written'[c] = [written[c] EXCEPT ![Head(batch[c]).bucket] = Head(batch[c]).value]
        /\ UNCHANGED <<redis, rows, models, summaries>>
    BY <1>c, <1>4 DEF UpsertRow, tables, Controls
  <2>2. SeedOnly(c)'
    BY <1>c, <1>t, <1>4, UpsertsSeed
  <2>3. \A b \in Buckets : written'[c][b] = SeedValues[b] \/ Covers(batch'[c], b)
    <3> SUFFICES ASSUME NEW b \in Buckets, written'[c][b] # SeedValues[b]
                 PROVE  Covers(batch'[c], b)
      OBVIOUS
    <3>1. b # Head(batch[c]).bucket /\ written[c][b] # SeedValues[b]
      BY <1>t, <1>h, <2>1
    <3>2. Covers(batch[c], b)
      BY <1>t, <2>1, <3>1 DEF SeedStage
    <3> QED BY <1>t, <2>1, <3>1, <3>2, TailCovers
  <2>4. SeedStage(c)'
    BY <1>t, <2>1, <2>3 DEF SeedStage, EmptyRedis
  <2>5. SeedStores'
    BY <2>1 DEF SeedingInv, SeedStores, SeedTables, SeedRowsIn
  <2> QED BY <2>2, <2>4, <2>5
<1>5. CASE Commit(c)
  <2>1. /\ pc[c] = "upsert" /\ pc'[c] = "models" /\ batch[c] = <<>> /\ batch'[c] = <<>>
        /\ written'[c] = NoRows /\ UNCHANGED <<redis, models, summaries>>
        /\ rows' = [b \in Buckets |-> IF written[c][b] # None THEN written[c][b] ELSE rows[b]]
    BY <1>c, <1>5 DEF Commit, Holder, Controls
  <2>2. \A b \in Buckets : written[c][b] = SeedValues[b]
    BY <1>t, <2>1 DEF SeedStage, Covers
  <2>3. \A b \in Buckets : rows'[b] = SeedValues[b]
    BY <1>c, <2>1, <2>2
  <2>4. EmptyRedis /\ models = 0 /\ summaries = 0
    BY <1>t, <2>1 DEF SeedStage
  <2> QED BY <2>1, <2>3, <2>4 DEF SeedingInv, SeedStores, SeedOnly, SeedStage, SeedRowsIn,
             EmptyRedis, NoRows
<1>6. CASE InsertModel(c)
  <2>1. /\ pc[c] = "models" /\ pc'[c] = "summaries" /\ models' = models + 1
        /\ UNCHANGED <<redis, rows, summaries, batch, written>>
    BY <1>c, <1>6 DEF InsertModel, Controls
  <2>2. EmptyRedis /\ SeedRowsIn /\ models = 0 /\ summaries = 0
    BY <1>t, <2>1 DEF SeedStage
  <2> QED BY <1>t, <2>1, <2>2 DEF SeedingInv, SeedStores, SeedOnly, SeedStage, SeedRowsIn, EmptyRedis
<1>7. CASE InsertSummary(c)
  <2>1. /\ pc[c] = "summaries" /\ pc'[c] = "redis" /\ summaries' = summaries + 1
        /\ UNCHANGED <<redis, rows, models, written>> /\ batch'[c] = SeedRows
    BY <1>c, <1>7 DEF InsertSummary, Controls
  <2>2. EmptyRedis /\ SeedRowsIn /\ models = 1 /\ summaries = 0
    BY <1>t, <2>1 DEF SeedStage
  <2>3. SeedTables' /\ EmptyRedis'
    BY <2>1, <2>2 DEF SeedTables, SeedRowsIn, EmptyRedis
  <2>4. SeedOnly(c)'
    BY <1>t, <2>1, SeedRowsTyped DEF SeedOnly
  <2>5. SeedStage(c)'
    BY <2>1, <2>3, SeedRowsCover DEF SeedStage
  <2>6. SeedStores'
    BY <2>1, <2>2 DEF SeedingInv, SeedStores, SeedRowsIn, EmptyRedis
  <2> QED BY <2>4, <2>5, <2>6
<1>8. CASE WriteBucket(c)
  <2>1. /\ pc[c] = "redis" /\ batch[c] # <<>> /\ batch'[c] = Tail(batch[c])
        /\ redis' = [redis EXCEPT ![Head(batch[c]).bucket] = Head(batch[c]).value]
        /\ pc'[c] = IF Len(batch[c]) = 1 THEN "weights" ELSE "redis"
        /\ UNCHANGED <<rows, models, summaries, written>>
    BY <1>c, <1>8 DEF WriteBucket, RedisBecomes, tables, Controls
  <2>2. SeedTables /\ SeedTables'
    BY <1>t, <2>1 DEF SeedStage, SeedTables, SeedRowsIn
  <2>3. \A b \in Buckets : redis'[b] = SeedValues[b] \/ Covers(batch'[c], b)
    <3> SUFFICES ASSUME NEW b \in Buckets, redis'[b] # SeedValues[b]
                 PROVE  Covers(batch'[c], b)
      OBVIOUS
    <3>1. b # Head(batch[c]).bucket /\ redis[b] # SeedValues[b]
      BY <1>h, <1>c, <2>1 DEF Types
    <3>2. Covers(batch[c], b)
      BY <1>t, <2>1, <3>1 DEF SeedStage
    <3> QED BY <1>t, <2>1, <3>1, <3>2, TailCovers
  <2>4. Len(batch[c]) = 1 => batch'[c] = <<>>
    BY <1>t, <2>1, BatchTail
  <2>5. SeedStage(c)'
    <3>1. CASE Len(batch[c]) = 1
      <4>1. \A b \in Buckets : redis'[b] = SeedValues[b]
        BY <2>3, <2>4, <3>1 DEF Covers
      <4> QED BY <2>1, <2>2, <3>1, <4>1 DEF SeedStage
    <3>2. CASE Len(batch[c]) # 1
      BY <2>1, <2>2, <2>3, <3>2 DEF SeedStage
    <3> QED BY <3>1, <3>2
  <2>6. SeedOnly(c)'
    BY <1>t, <1>h, <2>1 DEF SeedOnly
  <2>7. SeedStores'
    <3>1. \A b \in Buckets : redis'[b] \in {redis[b], SeedValues[b]}
      BY <1>h, <1>c, <2>1 DEF Types
    <3>2. redis'[Weights] = redis[Weights]
      BY <1>h, <1>c, <2>1 DEF Types
    <3> QED BY <2>1, <2>2, <3>1, <3>2 DEF SeedingInv, SeedStores
  <2> QED BY <2>5, <2>6, <2>7
<1>9. CASE Fail(c)
  <2>1. /\ pc'[c] = "failed" /\ batch'[c] = <<>> /\ written'[c] = NoRows
        /\ UNCHANGED <<redis, rows, models, summaries>>
    BY <1>c, <1>9 DEF Fail, tables, Controls
  <2> QED BY <2>1 DEF SeedingInv, SeedStores, SeedTables, SeedRowsIn, SeedOnly, SeedStage, NoRows
<1> QED BY <1>4, <1>5, <1>6, <1>7, <1>8, <1>9

LEMMA StepSeeding ==
    ASSUME Types, Controls, ResetInv, SeedingInv, Next, restored' = "seeding"
    PROVE  SeedingInv'
<1>c. \A c \in Seeders \cup Persisters : c \in Commands
  BY DEF Commands
<1>1. CASE restored # "seeding"
  <2>1. PICK c \in Commands : StartSeed(c) /\ restored = "reset"
    BY <1>1 DEF Next, Start, Step, Job, StartPersist, StartSeed, StartReset, Fail, AbortDeadlocked,
       AfterFailure, EndScan, UpsertRow, Commit, InsertModel, InsertSummary, WriteBucket, WriteWeights,
       Truncate, EndFind, DeleteKeys, FindKey, ReadBucket, JobCounts, JobFlushes
  <2> QED BY <2>1, SeedBegins
<1>2. CASE restored = "seeding"
  <2>1. ASSUME NEW c \in DryRun, c \in Commands, StartSeed(c) \/ StartReset(c)
        PROVE  SeedingInv'
    <3>1. /\ pc' = [pc EXCEPT ![c] = "done"] /\ batch' = batch
          /\ UNCHANGED <<redis, rows, models, summaries, written>>
      BY <2>1, DryRunEnds DEF tables
    <3>2. \A d \in Commands : pc'[d] \notin Active \/ pc'[d] = pc[d]
      BY <3>1 DEF Controls, Active
    <3>3. \A d \in Seeders : SeedStage(d)'
      <4> SUFFICES ASSUME NEW d \in Seeders PROVE SeedStage(d)'
        OBVIOUS
      <4>1. CASE pc'[d] \notin Active
        BY <4>1, NotAtAStage
      <4>2. CASE pc'[d] = pc[d]
        BY <1>2, <3>1, <4>2, SeedStageFrame DEF SeedingInv, SeedRowsIn
      <4> QED BY <1>c, <3>2, <4>1, <4>2
    <3>4. \A d \in Commands : SeedOnly(d)'
      BY <1>2, <3>1, SeedOnlyFrame DEF SeedingInv
    <3>5. SeedStores'
      BY <1>2, <3>1 DEF SeedingInv, SeedStores, SeedTables, SeedRowsIn
    <3> QED BY <1>2, <1>c, <3>2, <3>3, <3>4, <3>5 DEF SeedingInv
  <2>2. ASSUME NEW c \in Commands, Step(c) \/ Fail(c) PROVE SeedingInv'
    <3>1. pc[c] \in Active /\ c \in Persisters \cup Seeders
      <4>1. pc[c] \in Active
        BY <2>2 DEF Step, Fail, EndScan, UpsertRow, Commit, InsertModel, InsertSummary, WriteBucket,
               WriteWeights, Truncate, EndFind, DeleteKeys, FindKey, ReadBucket, Active
      <4> QED BY <1>2, <4>1 DEF SeedingInv
    <3>2. CASE c \in Persisters
      <4>1. pc[c] \in {"scan", "upsert"}
        BY <3>1, <3>2 DEF Controls, Calls
      <4>2. \/ StartPersist(c) \/ EndScan(c) \/ UpsertRow(c) \/ Commit(c) \/ Fail(c)
            \/ \E b \in Buckets : ReadBucket(c, b)
        BY <2>2, <4>1 DEF Step, InsertModel, InsertSummary, WriteBucket,
               WriteWeights, Truncate, EndFind, DeleteKeys, FindKey
      <4> QED BY <1>2, <3>2, <4>2, SeedingPersistRun
    <3>3. CASE c \in Seeders
      <4>1. pc[c] \in {"upsert", "models", "summaries", "redis", "weights"}
        BY <3>1, <3>3, CommandKinds DEF Controls, Calls
      <4>2. ~WriteWeights(c)
        BY <1>2 DEF WriteWeights
      <4>3. \/ UpsertRow(c) \/ Commit(c) \/ InsertModel(c) \/ InsertSummary(c)
            \/ WriteBucket(c) \/ Fail(c)
        BY <2>2, <4>1, <4>2 DEF Step, EndScan, ReadBucket, Truncate, EndFind, DeleteKeys, FindKey
      <4> QED BY <1>2, <3>1, <3>3, <4>3, SeedingSeed
    <3> QED BY <3>1, <3>2, <3>3
  <2>3. ASSUME NEW c \in Commands, StartPersist(c) PROVE SeedingInv'
    <3>1. c \in Persisters
      BY <2>3 DEF StartPersist
    <3> QED BY <1>2, <2>3, <3>1, SeedingPersistRun
  <2>4. \A c \in Commands : /\ StartSeed(c) => c \in DryRun
                            /\ StartReset(c) => c \in DryRun
    BY <1>2 DEF StartSeed, StartReset
  <2>5. ~Job
    BY DEF Job, JobCounts, JobFlushes
  <2> QED BY <2>1, <2>2, <2>3, <2>4, <2>5 DEF Next, Start, AbortDeadlocked
<1> QED BY <1>1, <1>2
(* The model is published: the seed has ended.                             *)
LEMMA SeedEnds ==
    ASSUME Types, Controls, SeedingInv, restored = "seeding",
           NEW c \in Commands, WriteWeights(c)
    PROVE  SeededInv'
<1>1. /\ pc[c] = "weights" /\ pc' = [pc EXCEPT ![c] = "done"]
      /\ redis' = [redis EXCEPT ![Weights] = SeedValues[Weights]]
      /\ UNCHANGED <<rows, models, summaries, batch, written>>
  BY DEF WriteWeights, Goto, RedisBecomes, tables
<1>2. c \in Seeders
  BY <1>1, CommandKinds DEF Controls, Calls, Active
<1>3. SeedTables /\ \A b \in Buckets : redis[b] = SeedValues[b]
  BY <1>1, <1>2 DEF SeedingInv, SeedStage
<1>4. redis' = SeedValues
  <2>1. \A k \in Keys : redis'[k] = SeedValues[k]
    BY <1>1, <1>3, DataAssumption DEF Types, Keys
  <2>2. redis' \in [Keys -> Value] /\ SeedValues \in [Keys -> Nat]
    BY <1>1, DataAssumption DEF Types, Keys, Value
  <2> QED BY <2>1, <2>2
<1>5. \A d \in Commands : pc'[d] \in Active => d \in Persisters
  <2> SUFFICES ASSUME NEW d \in Commands, pc'[d] \in Active PROVE d \in Persisters
    OBVIOUS
  <2>1. d # c /\ pc[d] \in Active /\ pc[c] \in Active
    BY <1>1 DEF Controls, Active
  <2> QED BY <1>2, <2>1 DEF SeedingInv
<1>6. \A d \in Commands : SeedOnly(d)'
  BY <1>1, SeedOnlyFrame DEF SeedingInv
<1>7. SeedTables'
  BY <1>1, <1>3 DEF SeedTables, SeedRowsIn
<1> QED BY <1>4, <1>5, <1>6, <1>7 DEF SeededInv

(* A persist run that is still busy writes what the seed has written.      *)
LEMMA SeededPersistRun ==
    ASSUME Types, Controls, SeededInv, restored = "seeded", NEW c \in Persisters,
           \/ StartPersist(c) \/ EndScan(c) \/ UpsertRow(c) \/ Commit(c) \/ Fail(c)
           \/ \E b \in Buckets : ReadBucket(c, b)
    PROVE  SeededInv'
<1>c. c \in Commands /\ \A b \in Buckets : b \in Keys
  BY DEF Commands, Keys
<1>t. batch[c] \in Seq(Row) /\ written[c] \in [Buckets -> Value] /\ SeedOnly(c)
  BY <1>c DEF Controls, SeededInv
<1> USE DEF Goto
<1>1. /\ redis' = redis /\ models' = models /\ summaries' = summaries
      /\ \A d \in Commands \ {c} :
            pc'[d] = pc[d] /\ batch'[d] = batch[d] /\ written'[d] = written[d]
  BY <1>c DEF StartPersist, EndScan, UpsertRow, Commit, Fail, ReadBucket, tables, Controls
<1>2. SeedRowsIn'
  <2>1. CASE Commit(c)
    BY <1>t, <2>1 DEF Commit, Holder, SeedOnly, SeededInv, SeedTables, SeedRowsIn
  <2>2. CASE ~Commit(c)
    BY <2>2 DEF StartPersist, EndScan, UpsertRow, Fail, ReadBucket, tables, SeededInv, SeedTables,
                SeedRowsIn
  <2> QED BY <2>1, <2>2
<1>3. SeedTables'
  BY <1>1, <1>2 DEF SeededInv, SeedTables
<1>4. SeedOnly(c)'
  <2>1. ASSUME NEW b \in Buckets, redis[b] = SeedValues[b], ReadBucket(c, b) PROVE SeedOnly(c)'
    BY <1>c, <1>t, <2>1, ReadsSeed
  <2>2. CASE UpsertRow(c)
    BY <1>c, <1>t, <2>2, UpsertsSeed
  <2>3. CASE StartPersist(c)
    <3>1. batch' = batch /\ written' = written
      BY <2>3 DEF StartPersist
    <3> QED BY <1>t, <3>1, SeedOnlyFrame
  <2>4. CASE EndScan(c)
    <3>1. written'[c] = written[c] /\ (batch'[c] = batch[c] \/ batch'[c] = <<>>)
      BY <1>c, <2>4 DEF EndScan, Controls
    <3> QED BY <1>t, <3>1 DEF SeedOnly
  <2>5. CASE Commit(c) \/ Fail(c)
    <3>1. batch'[c] = <<>> /\ written'[c] = NoRows
      BY <1>c, <2>5 DEF Commit, Fail, Controls
    <3> QED BY <3>1 DEF SeedOnly, NoRows
  <2>6. \A b \in Buckets : redis[b] = SeedValues[b]
    BY DEF SeededInv
  <2> QED BY <2>1, <2>2, <2>3, <2>4, <2>5, <2>6
<1>5. \A d \in Commands : SeedOnly(d)'
  BY <1>1, <1>4, SeedOnlyFrame DEF SeededInv
<1>6. \A d \in Commands : pc'[d] \in Active => d \in Persisters
  BY <1>1 DEF SeededInv
<1> QED BY <1>1, <1>3, <1>5, <1>6 DEF SeededInv

LEMMA StepSeeded ==
    ASSUME Types, Controls, SeedingInv, SeededInv, Next, restored' = "seeded"
    PROVE  SeededInv'
<1>1. CASE restored # "seeded"
  <2>1. PICK c \in Commands : WriteWeights(c) /\ restored = "seeding"
    BY <1>1 DEF Next, Start, Step, Job, StartPersist, StartSeed, StartReset, Fail, AbortDeadlocked,
       AfterFailure, EndScan, UpsertRow, Commit, InsertModel, InsertSummary, WriteBucket, WriteWeights,
       Truncate, EndFind, DeleteKeys, FindKey, ReadBucket, JobCounts, JobFlushes
  <2> QED BY <2>1, SeedEnds
<1>2. CASE restored = "seeded"
  <2>1. ASSUME NEW c \in DryRun, c \in Commands, StartSeed(c) \/ StartReset(c)
        PROVE  SeededInv'
    <3>1. /\ pc' = [pc EXCEPT ![c] = "done"] /\ batch' = batch
          /\ UNCHANGED <<redis, rows, models, summaries, written>>
      BY <2>1, DryRunEnds DEF tables
    <3>2. \A d \in Commands : pc'[d] \notin Active \/ pc'[d] = pc[d]
      BY <3>1 DEF Controls, Active
    <3>3. \A d \in Commands : SeedOnly(d)'
      BY <1>2, <3>1, SeedOnlyFrame DEF SeededInv
    <3> QED BY <1>2, <3>1, <3>2, <3>3 DEF SeededInv, SeedTables, SeedRowsIn
  <2>2. ASSUME NEW c \in Commands, Step(c) \/ Fail(c) PROVE SeededInv'
    <3>1. pc[c] \in Active
      BY <2>2 DEF Step, Fail, EndScan, UpsertRow, Commit, InsertModel, InsertSummary, WriteBucket,
               WriteWeights, Truncate, EndFind, DeleteKeys, FindKey, ReadBucket, Active
    <3>2. c \in Persisters
      BY <1>2, <3>1 DEF SeededInv
    <3>3. pc[c] \in {"scan", "upsert"}
      BY <3>1, <3>2 DEF Controls, Calls
    <3>4. \/ StartPersist(c) \/ EndScan(c) \/ UpsertRow(c) \/ Commit(c) \/ Fail(c)
          \/ \E b \in Buckets : ReadBucket(c, b)
      BY <2>2, <3>3 DEF Step, InsertModel, InsertSummary, WriteBucket,
             WriteWeights, Truncate, EndFind, DeleteKeys, FindKey
    <3> QED BY <1>2, <3>2, <3>4, SeededPersistRun
  <2>3. ASSUME NEW c \in Commands, StartPersist(c) PROVE SeededInv'
    <3>1. c \in Persisters
      BY <2>3 DEF StartPersist
    <3> QED BY <1>2, <2>3, <3>1, SeededPersistRun
  <2>4. \A c \in Commands : /\ StartSeed(c) => c \in DryRun
                            /\ StartReset(c) => c \in DryRun
    BY <1>2 DEF StartSeed, StartReset
  <2>5. ~Job
    BY DEF Job, JobCounts, JobFlushes
  <2> QED BY <2>1, <2>2, <2>3, <2>4, <2>5 DEF Next, Start, AbortDeadlocked
<1> QED BY <1>1, <1>2

LEMMA RestoredAlwaysHolds == Spec => [](StoreTypes /\ RestoredInv)
<1>1. Init => StoreTypes /\ RestoredInv
  BY InitTypes, InitControls DEF Init, StoreTypes, RestoredInv, ResettingInv, ResetInv, SeedingInv,
     SeededInv
<1>2. StoreTypes /\ RestoredInv /\ [Next]_vars => (StoreTypes /\ RestoredInv)'
  <2> SUFFICES ASSUME StoreTypes, RestoredInv, [Next]_vars PROVE StoreTypes' /\ RestoredInv'
    OBVIOUS
  <2>1. CASE Next
    <3>1. StoreTypes'
      BY <2>1, StepTypes, StepControls DEF StoreTypes
    <3>2. ResettingInv'
      BY <2>1, StepResetting DEF StoreTypes, RestoredInv, ResettingInv
    <3>3. ResetInv'
      <4>1. CASE restored' = "reset"
        BY <2>1, <4>1, StepReset DEF StoreTypes, RestoredInv
      <4> QED BY <4>1 DEF ResetInv
    <3>4. SeedingInv'
      <4>1. CASE restored' = "seeding"
        BY <2>1, <4>1, StepSeeding DEF StoreTypes, RestoredInv
      <4> QED BY <4>1 DEF SeedingInv
    <3>5. SeededInv'
      <4>1. CASE restored' = "seeded"
        BY <2>1, <4>1, StepSeeded DEF StoreTypes, RestoredInv
      <4> QED BY <4>1 DEF SeededInv
    <3> QED BY <3>1, <3>2, <3>3, <3>4, <3>5 DEF RestoredInv
  <2>2. CASE UNCHANGED vars
    BY <2>2 DEF vars, tables, StoreTypes, Types, Controls, RestoredInv, ResettingInv, ResetInv,
       SeedingInv, SeededInv, ResetAlone, EmptyTables, EmptyRedis, SeedOnly, SeedRowsIn, SeedTables,
       SeedStage, SeedStores, Covers
  <2> QED BY <2>1, <2>2
<1> QED BY <1>1, <1>2, PTL DEF Spec

(* A reset alone and then a seed alone leave empty stores and then the     *)
(* seed dataset, in both stores, whatever failed or overlapped before and  *)
(* whichever persist run is still busy (seed_service.py, 84-101).          *)
THEOREM StateIsKnown == Spec => []KnownState
<1>1. RestoredInv => KnownState
  BY DEF RestoredInv, ResetInv, SeededInv, SeedTables, SeedRowsIn, EmptyTables, KnownState
<1> QED BY <1>1, RestoredAlwaysHolds, PTL

(* A seed into reset stores shows a bucket in Redis only when PostgreSQL   *)
(* has it, the model and the summary, and publishes the model last, also   *)
(* when it fails half-way (seed_service.py, 84-88).                        *)
THEOREM RedisFollows == Spec => []RedisFollowsPostgres
<1>1. RestoredInv => RedisFollowsPostgres
  BY DEF RestoredInv, SeedingInv, SeedStores, SeedTables, SeedRowsIn, RedisFollowsPostgres
<1> QED BY <1>1, RestoredAlwaysHolds, PTL

=============================================================================
