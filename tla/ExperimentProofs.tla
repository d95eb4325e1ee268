-------------------------- MODULE ExperimentProofs --------------------------
(***************************************************************************)
(* Proofs about Experiment, for every set of definitions, every batch of   *)
(* traffic, every number of phases and every content of the stores.        *)
(***************************************************************************)
EXTENDS Experiment, SumProofs

-----------------------------------------------------------------------------
(* The invariant, by the part of the state it is about                     *)

(* Where the runner is, and how many phases that takes: those of a preload *)
(* are over when the processors start, the others begin after that.        *)
PhaseInv ==
    /\ definition \in Definitions /\ definition \in Definition
    /\ dryRun \in DryRunValues /\ dryRun \in BOOLEAN
    /\ pc \in Stages
    /\ phases \in 0 .. Phases
    /\ index \in 0 .. Len(Batch)
    /\ pc \in Setup => phases = 0
    /\ pc \in {"start", "started", "warm"} =>
          phases = IF definition.preload THEN Phases ELSE 0
    /\ pc \in {"phase", "publish", "flush"} => phases < Phases
    /\ pc \in {"settle", "final"} => phases = Phases

(* Which processors still have to be stopped: all that were started until  *)
(* the runner begins to stop them, then those that may not have exited.    *)
ManagedInv ==
    /\ started \subseteq Processors /\ exitedEarly \subseteq started
    /\ stopAborted \in BOOLEAN
    /\ managed \in Seq(started)
    /\ IsInjective(managed)
    /\ process \in [Processors -> {"none", "starting", "running", "exited"}]
    /\ \A p \in exitedEarly : process[p] = "exited"
    /\ pc \in Setup \cup Measuring =>
          \A p \in started : \E i \in DOMAIN managed : managed[i] = p
    /\ \A p \in started :
          process[p] = "exited" \/ \E i \in DOMAIN managed : managed[i] = p
    /\ pc \in Setup \/ dryRun => started = {}
    /\ \A p \in definition.enabled : p \in started \/ process[p] = "none"
    /\ pc \in {"wait", "killed"} => managed # <<>>
    /\ pc \in Recording => managed = <<>>
    /\ pc = "ended" /\ ~stopAborted => managed = <<>>

(* What has been decided and written down at each stage.                   *)
ResultInv ==
    /\ before \in Snapshots \cup {None} /\ final \in Snapshots \cup {None}
    /\ passed \in BOOLEAN \cup {None}
    /\ artifact \in Artifact \cup {None}
    /\ rows \in Seq(BOOLEAN)
    /\ raised \in BOOLEAN
    /\ pc \in Setup \cup Measuring \cup {"final", "failed"} => passed = None
    /\ pc \in Recording \/ (pc \in Stopping /\ ~raised) => passed \in BOOLEAN
    /\ pc \notin Recording \cup {"ended"} \/ pc = "artifact" => artifact = None
    /\ pc \in {"insert", "rewrite"} => artifact # None /\ artifact.passed = passed
    /\ pc = "insert" => ~dryRun
    /\ pc = "rewrite" /\ ~dryRun => rows = <<passed>>
    /\ pc \notin {"rewrite", "ended"} => rows = <<>>
    /\ rows # <<>> => /\ ~dryRun /\ rows = <<passed>>
                      /\ artifact # None /\ artifact.passed = passed
    /\ IF outcome \in {"complete", "gates_failed"}
       THEN /\ pc = "ended" /\ passed \in BOOLEAN
            /\ passed = (outcome = "complete")
            /\ artifact # None /\ artifact.passed = passed
            /\ ~dryRun => artifact.row = 1 /\ rows = <<passed>>
       ELSE outcome = None \/ (outcome = "error" /\ pc = "ended")

(* A gate is only evaluated when every processor has come so far.          *)
HealthInv ==
    /\ pc = "final" => exitedEarly = {}
    /\ passed = TRUE => exitedEarly = {} /\ pc \notin Measuring

Realtime == "realtime_ctr"

(* No position is behind the last record, neither the job's nor that of    *)
(* its last checkpoint, which goes with the process.                       *)
StoreTypes ==
    /\ buffered \in Counts /\ topic \in Counts /\ consumed \in Counts
    /\ \A record \in Records : consumed[record] <= topic[record]
    /\ counted \in [Keys -> Bucket] /\ published \in Buckets
    /\ loaded \subseteq Keys /\ dirty \subseteq Keys
    /\ checkpoint \in Checkpoint \cup {None}
    /\ checkpoint # None =>
          /\ process[Realtime] = "running"
          /\ checkpoint.loaded \subseteq loaded
          /\ \A record \in Records : checkpoint.consumed[record] <= topic[record]
    /\ restores \in 0 .. MaxRestores /\ recounted \in Counts
    /\ scan \in Scans \cup {None}
    /\ models \in Nat

Inv == PhaseInv /\ ManagedInv /\ ResultInv /\ HealthInv /\ StoreTypes

-----------------------------------------------------------------------------
(* Phases                                                                  *)

(* The experiment measures its own realtime job on empty topics.           *)
Controlled == ~dryRun /\ definition.cleanTopics /\ definition.traffic

(* No step changes the experiment.                                        *)
LEMMA OptionsKept ==
    ASSUME [Next]_vars
    PROVE  UNCHANGED <<options, Phases, Batch, Controlled>>
<1> USE DEF options, Phases, Batch, Controlled
<1>1. CASE CleanTopics \/ ResetValues \/ SeedValues \/ BeforeSnapshot \/ StartProcessor
           \/ AllStarted \/ CheckStarted \/ BeginPhase \/ Publish \/ FinishPhase
  BY <1>1 DEF CleanTopics, ResetValues, SeedValues, BeforeSnapshot, StartProcessor,
     AllStarted, CheckStarted, BeginPhase, Publish, FinishPhase
<1>2. CASE Settle \/ FinalSnapshot \/ FailureSnapshot \/ StopProcessor \/ ProcessorStopped
           \/ KillProcessor \/ AllStopped \/ WriteArtifact \/ InsertResult
           \/ RewriteArtifact \/ GiveUp
  BY <1>2 DEF Settle, FinalSnapshot, FailureSnapshot, StopProcessor, ProcessorStopped,
     KillProcessor, AllStopped, WriteArtifact, InsertResult, RewriteArtifact, GiveUp,
     StopRaises, Raise
<1>3. CASE Broker \/ Processes
  BY <1>3 DEF Broker, Deliver, LoseRecord, Processes, ProcessorRuns, ProcessorExits,
     Consume, PublishBucket, CompleteCheckpoint, RestoreJob, InsertModel, runner
<1>4. CASE UNCHANGED vars
  BY <1>4 DEF vars, runner
<1>5. CASE BeginScan \/ \E k \in Keys : ReadBucket(k)
  <2>1. UNCHANGED <<definition, dryRun>>
    BY <1>5 DEF BeginScan, ReadBucket
  <2> QED BY <2>1
<1> QED BY <1>1, <1>2, <1>3, <1>4, <1>5 DEF Next, Run

(* What the definition says of the traffic.                                *)
LEMMA TrafficTyped ==
    ASSUME definition \in Definition
    PROVE  /\ Phases \in Nat \ {0}
           /\ Batch \in Seq(Records) /\ Len(Batch) \in Nat
  BY DEF Phases, Batch, Definition

LEMMA InitPhase == Init => PhaseInv
<1> SUFFICES ASSUME Init PROVE PhaseInv
  OBVIOUS
<1>1. definition \in Definitions /\ definition \in Definition
  BY ConfigAssumption DEF Init
<1>2. Phases \in Nat \ {0} /\ Len(Batch) \in Nat
  BY <1>1, TrafficTyped
<1> QED BY <1>1, <1>2, ConfigAssumption
        DEF Init, PhaseInv, Stages, Setup, Measuring, Stopping, Recording

LEMMA StepPhase == PhaseInv /\ Next => PhaseInv'
<1> SUFFICES ASSUME PhaseInv, Next PROVE PhaseInv'
  OBVIOUS
<1>t. /\ Phases \in Nat \ {0} /\ Len(Batch) \in Nat
      /\ UNCHANGED <<Phases, Batch>>
  BY TrafficTyped, OptionsKept DEF PhaseInv
<1> USE ConfigAssumption, <1>t DEF PhaseInv, Stages, Setup, Measuring, Stopping, Recording,
        options, position, stopping, result
<1>1. CASE CleanTopics \/ ResetValues \/ SeedValues \/ BeforeSnapshot
  BY <1>1 DEF CleanTopics, ResetValues, SeedValues, BeforeSnapshot
<1>s. CASE BeginScan \/ \E k \in Keys : ReadBucket(k)
  BY <1>s DEF BeginScan, ReadBucket
<1>2. CASE StartProcessor \/ AllStarted
  BY <1>2 DEF StartProcessor, AllStarted
<1>3. CASE CheckStarted
  BY <1>3 DEF CheckStarted, ContinueIfHealthy
<1>4. CASE BeginPhase
  BY <1>4 DEF BeginPhase, ContinueIfHealthy
<1>5. CASE Publish
  BY <1>5 DEF Publish
<1>6. CASE FinishPhase
  BY <1>6 DEF FinishPhase
<1>7. CASE Settle
  BY <1>7 DEF Settle, ContinueIfHealthy
<1>8. CASE FinalSnapshot \/ FailureSnapshot
  BY <1>8 DEF FinalSnapshot, FailureSnapshot, AfterMeasuring
<1>9. CASE StopProcessor \/ ProcessorStopped \/ KillProcessor \/ AllStopped
  BY <1>9 DEF StopProcessor, ProcessorStopped, KillProcessor, AllStopped
<1>10. CASE WriteArtifact \/ InsertResult \/ RewriteArtifact
  BY <1>10 DEF WriteArtifact, InsertResult, RewriteArtifact
<1>11. CASE GiveUp
  BY <1>11 DEF GiveUp, StopRaises, Raise
<1>12. CASE Broker \/ Processes
  BY <1>12 DEF Broker, Deliver, LoseRecord, Processes, ProcessorRuns, ProcessorExits,
     Consume, PublishBucket, CompleteCheckpoint, RestoreJob, InsertModel, runner
<1> QED BY <1>1, <1>2, <1>3, <1>4, <1>5, <1>6, <1>7, <1>8, <1>9, <1>10, <1>11, <1>12,
           <1>s DEF Next, Run

-----------------------------------------------------------------------------
(* Results                                                                 *)

LEMMA InitResult == Init => ResultInv
<1> SUFFICES ASSUME Init PROVE ResultInv
  OBVIOUS
<1>1. pc \in {"before", "clean"} /\ rows = <<>> /\ artifact = None /\ passed = None
      /\ outcome = None /\ before = None /\ final = None /\ raised = FALSE
  BY DEF Init
<1>2. outcome \notin {"complete", "gates_failed"}
  BY <1>1, ConfigAssumption
<1>3. rows \in Seq(BOOLEAN)
  BY <1>1
<1>4. /\ pc \notin Recording \cup {"ended"} /\ pc \notin {"insert", "rewrite", "ended"}
      /\ pc \notin Stopping
  BY <1>1 DEF Recording, Stopping
<1>5. /\ before \in Snapshots \cup {None} /\ final \in Snapshots \cup {None}
      /\ passed \in BOOLEAN \cup {None} /\ artifact \in Artifact \cup {None}
      /\ raised \in BOOLEAN
  BY <1>1
<1> QED BY <1>1, <1>2, <1>3, <1>4, <1>5, Zenon DEF ResultInv

LEMMA GatesBoolean == ASSUME NEW after PROVE Gates(after) \in BOOLEAN
  BY DEF Gates

LEMMA TwoKinds ==
    /\ CountOfKind["impression"] = "impressions" /\ CountOfKind["click"] = "clicks"
    /\ Kinds = {"impression", "click"}
    /\ \A kind \in Kinds : kind = "impression" \/ kind = "click"
  BY DEF CountOfKind, Kinds

LEMMA TotalsTyped ==
    ASSUME NEW kind \in Kinds
    PROVE  /\ \A b \in Bucket : Total(b, kind) \in Nat
           /\ \A s \in Snapshots : Total(s, kind) \in Nat /\ s.twice[kind] \in Nat
           /\ \A s \in Scans : s.again[kind] \in Nat
  BY TwoKinds DEF Total, Bucket, Snapshots, Scans

LEMMA SumNat ==
    ASSUME NEW f, NEW S, IsFiniteSet(S), \A x \in S : f[x] \in Nat
    PROVE  SumFunctionOnSet(f, S) \in Nat
<1> DEFINE zero == [x \in S |-> 0]
<1>1. SumFunctionOnSet(f, S) \in Int
  BY SumInt
<1>2. SumFunctionOnSet(zero, S) = 0 * Cardinality(S) /\ 0 * Cardinality(S) = 0
  BY SumConstant, FS_CardinalityType
<1>3. \A x \in S : zero[x] \in Int /\ f[x] \in Int /\ zero[x] <= f[x]
  OBVIOUS
<1> HIDE DEF zero
<1>4. SumFunctionOnSet(zero, S) <= SumFunctionOnSet(f, S)
  BY <1>3, SumMonotonic
<1> QED BY <1>1, <1>2, <1>4

(* The records of a kind, and the buckets of a scan, are sums over Keys.   *)
PerKey(counts, kind) == [k \in Keys |-> counts[[key |-> k, kind |-> kind]]]
FirstRead(kind) ==
    [k \in Keys |-> IF scan.first[k] = None THEN 0 ELSE Total(scan.first[k], kind)]

LEMMA SumsOverKeys ==
    ASSUME NEW counts, NEW kind
    PROVE  /\ OfKind(counts, kind) = SumFunctionOnSet(PerKey(counts, kind), Keys)
           /\ ScanTotal(kind) = SumFunctionOnSet(FirstRead(kind), Keys) + scan.again[kind]
  BY DEF OfKind, ScanTotal, PerKey, FirstRead, SumFunction

LEMMA OfKindTyped ==
    ASSUME NEW counts \in Counts, NEW kind \in Kinds
    PROVE  /\ OfKind(counts, kind) \in Nat
           /\ \A k \in Keys : PerKey(counts, kind)[k] \in Nat
<1>1. \A k \in Keys : PerKey(counts, kind)[k] \in Nat
  BY DEF PerKey, Counts, Records
<1> QED BY <1>1, SumNat, SumsOverKeys, ConfigAssumption

LEMMA FirstReadTyped ==
    ASSUME scan \in Scans, NEW kind \in Kinds
    PROVE  /\ \A k \in Keys : FirstRead(kind)[k] \in Nat
           /\ SumFunctionOnSet(FirstRead(kind), Keys) \in Nat
           /\ ScanTotal(kind) \in Nat /\ scan.again[kind] \in Nat
<1>1. \A k \in Keys : scan.first[k] = None \/ scan.first[k] \in Bucket
  BY DEF Scans, Buckets
<1>2. \A k \in Keys : FirstRead(kind)[k] \in Nat
  BY <1>1, TotalsTyped DEF FirstRead
<1>3. SumFunctionOnSet(FirstRead(kind), Keys) \in Nat
  BY <1>2, SumNat, ConfigAssumption
<1>4. scan.again[kind] \in Nat
  BY TotalsTyped
<1> QED BY <1>2, <1>3, <1>4, SumsOverKeys

LEMMA SnapshotTyped == StoreTypes /\ scan # None => Snapshot \in Snapshots
<1> SUFFICES ASSUME StoreTypes, scan # None PROVE Snapshot \in Snapshots
  OBVIOUS
<1>1. scan \in Scans /\ recounted \in Counts /\ models \in Nat
  BY DEF StoreTypes
<1>2. \A kind \in Kinds : /\ ScanTotal(kind) \in Nat
                          /\ OfKind(recounted, kind) + scan.again[kind] \in Nat
  BY <1>1, FirstReadTyped, OfKindTyped
<1> QED BY <1>1, <1>2, TwoKinds DEF Snapshot, Snapshots

LEMMA StepResult == PhaseInv /\ ResultInv /\ StoreTypes /\ Next => ResultInv'
<1> SUFFICES ASSUME PhaseInv, ResultInv, StoreTypes, Next PROVE ResultInv'
  OBVIOUS
<1>a. dryRun \in BOOLEAN /\ pc \in Stages
  BY DEF PhaseInv
<1> USE <1>a, ConfigAssumption DEF ResultInv, Stages, Setup, Measuring, Stopping,
        Recording, options, result, snapshots
<1>1. CASE CleanTopics \/ ResetValues \/ SeedValues
  BY <1>1 DEF CleanTopics, ResetValues, SeedValues
<1>2. CASE BeforeSnapshot
  BY <1>2, SnapshotTyped DEF BeforeSnapshot, EndScan
<1>s. CASE BeginScan \/ \E k \in Keys : ReadBucket(k)
  <2>1. UNCHANGED <<dryRun, pc, before, final, passed, artifact, rows, raised, outcome>>
    BY <1>s DEF BeginScan, ReadBucket
  <2> QED BY <2>1
<1>3. CASE StartProcessor \/ AllStarted \/ CheckStarted
  BY <1>3 DEF StartProcessor, AllStarted, CheckStarted, ContinueIfHealthy
<1>4. CASE BeginPhase \/ Publish \/ FinishPhase \/ Settle
  BY <1>4 DEF BeginPhase, Publish, FinishPhase, Settle, ContinueIfHealthy
<1>5. CASE FinalSnapshot
  BY <1>5, SnapshotTyped, GatesBoolean DEF FinalSnapshot, EndScan, AfterMeasuring
<1>6. CASE FailureSnapshot
  BY <1>6, SnapshotTyped DEF FailureSnapshot, EndScan, AfterMeasuring
<1>7. CASE StopProcessor \/ ProcessorStopped \/ KillProcessor
  BY <1>7 DEF StopProcessor, ProcessorStopped, KillProcessor
<1>8. CASE AllStopped
  BY <1>8 DEF AllStopped
<1>9. CASE WriteArtifact
  <2>1. /\ artifact' = [passed |-> passed, row |-> None] /\ passed \in BOOLEAN
        /\ artifact' \in Artifact
    BY <1>9 DEF WriteArtifact, Artifact
  <2>2. artifact' # None /\ artifact'.passed = passed
    BY <2>1
  <2> QED BY <1>9, <2>1, <2>2 DEF WriteArtifact
<1>10. CASE InsertResult
  BY <1>10 DEF InsertResult
<1>11. CASE RewriteArtifact
  <2>1. rows = IF dryRun THEN <<>> ELSE <<passed>>
    BY <1>11 DEF RewriteArtifact
  <2>2. /\ passed \in BOOLEAN /\ artifact'.passed = passed
        /\ artifact' \in Artifact /\ (~dryRun => artifact'.row = 1)
    BY <1>11, <2>1 DEF RewriteArtifact, Artifact
  <2>3. passed = (outcome' = "complete") /\ outcome' \in {"complete", "gates_failed"}
    BY <1>11, <2>2 DEF RewriteArtifact
  <2>4. artifact' # None
    BY <2>2
  <2> QED BY <1>11, <2>1, <2>2, <2>3, <2>4 DEF RewriteArtifact
<1>12. CASE GiveUp
  <2>1. CASE StopRaises
    BY <1>12, <2>1 DEF StopRaises
  <2>2. CASE Raise
    BY <1>12, <2>2 DEF Raise
  <2> QED BY <1>12, <2>1, <2>2 DEF GiveUp
<1>13. CASE Broker \/ Processes
  BY <1>13 DEF Broker, Deliver, LoseRecord, Processes, ProcessorRuns, ProcessorExits,
     Consume, PublishBucket, CompleteCheckpoint, RestoreJob, InsertModel, runner
<1> QED BY <1>1, <1>2, <1>3, <1>4, <1>5, <1>6, <1>7, <1>8, <1>9, <1>10, <1>11, <1>12,
           <1>13, <1>s DEF Next, Run

-----------------------------------------------------------------------------
(* Processors                                                              *)

LEMMA AppendManaged ==
    ASSUME NEW S, NEW s \in Seq(S), IsInjective(s), NEW x, x \notin S
    PROVE  /\ Append(s, x) \in Seq(S \cup {x}) /\ IsInjective(Append(s, x))
           /\ \E i \in DOMAIN Append(s, x) : Append(s, x)[i] = x
           /\ \A i \in DOMAIN s : i \in DOMAIN Append(s, x) /\ Append(s, x)[i] = s[i]
<1> DEFINE t == Append(s, x)
<1>1. /\ t \in Seq(S \cup {x}) /\ Len(s) \in Nat /\ DOMAIN s = 1 .. Len(s)
      /\ DOMAIN t = 1 .. (Len(s) + 1) /\ t[Len(s) + 1] = x
      /\ \A i \in 1 .. Len(s) : t[i] = s[i] /\ s[i] \in S
  OBVIOUS
<1>2. IsInjective(t)
  <2> SUFFICES ASSUME NEW i \in DOMAIN t, NEW j \in DOMAIN t, t[i] = t[j] PROVE i = j
    BY DEF IsInjective
  <2>1. \A k \in 1 .. Len(s) : t[k] # x
    BY <1>1
  <2>2. CASE i \in 1 .. Len(s) /\ j \in 1 .. Len(s)
    BY <1>1, <2>2 DEF IsInjective
  <2>3. CASE i \notin 1 .. Len(s) \/ j \notin 1 .. Len(s)
    BY <1>1, <2>1, <2>3
  <2> QED BY <2>2, <2>3
<1>3. Len(s) + 1 \in DOMAIN t
  BY <1>1
<1> QED BY <1>1, <1>2, <1>3

LEMMA TailManaged ==
    ASSUME NEW S, NEW s \in Seq(S), IsInjective(s), s # <<>>
    PROVE  /\ Head(s) \in S /\ Tail(s) \in Seq(S) /\ IsInjective(Tail(s))
           /\ \A i \in DOMAIN s :
                 s[i] = Head(s) \/ \E j \in DOMAIN Tail(s) : Tail(s)[j] = s[i]
<1>1. /\ Tail(s) \in Seq(S) /\ Len(s) \in Nat \ {0} /\ DOMAIN s = 1 .. Len(s)
      /\ DOMAIN Tail(s) = 1 .. (Len(s) - 1) /\ Head(s) = s[1]
      /\ \A j \in 1 .. (Len(s) - 1) : Tail(s)[j] = s[j + 1]
      /\ Head(s) \in S
  OBVIOUS
<1>2. IsInjective(Tail(s))
  BY <1>1 DEF IsInjective
<1>3. ASSUME NEW i \in DOMAIN s, s[i] # Head(s)
      PROVE  \E j \in DOMAIN Tail(s) : Tail(s)[j] = s[i]
  <2>1. i - 1 \in DOMAIN Tail(s) /\ Tail(s)[i - 1] = s[i]
    BY <1>1, <1>3
  <2> QED BY <2>1
<1> QED BY <1>1, <1>2, <1>3

LEMMA InitManaged == Init => ManagedInv
<1> SUFFICES ASSUME Init PROVE ManagedInv
  OBVIOUS
<1>1. /\ managed = <<>> /\ started = {} /\ exitedEarly = {} /\ stopAborted = FALSE
      /\ pc \in {"before", "clean"}
      /\ process \in [Processors -> {"none", "starting", "running", "exited"}]
  BY DEF Init
<1>2. managed \in Seq(started) /\ IsInjective(managed)
  BY <1>1 DEF IsInjective
<1>3. \A p \in definition.enabled : process[p] = "none"
  BY ConfigAssumption DEF Init, Definition
<1> QED BY <1>1, <1>2, <1>3 DEF ManagedInv

(* Only the stage changes, and not to one that claims more of managed.     *)
LEMMA StageOnly ==
    ASSUME ManagedInv, UNCHANGED <<options, managed, started, exitedEarly, process,
                                   stopAborted>>,
           pc' \in Setup \cup Measuring => pc \in Setup \cup Measuring,
           pc' \in Setup => pc \in Setup,
           pc' \in {"wait", "killed"} \cup Recording \cup {"ended"} =>
              pc' = pc \/ (pc' \in {"wait", "killed"} /\ managed # <<>>)
              \/ (pc' \in Recording \cup {"ended"} /\ managed = <<>>)
    PROVE  ManagedInv'
  BY DEF ManagedInv, Recording, IsInjective, options

LEMMA OneMore ==
    ASSUME ManagedInv, NEW p \in Processors, p \notin started, ~dryRun, pc = "start",
           process' = [process EXCEPT ![p] = "starting"],
           managed' = Append(managed, p), started' = started \cup {p},
           UNCHANGED <<options, pc, exitedEarly, stopAborted>>
    PROVE  ManagedInv'
<1>1. managed \in Seq(started) /\ IsInjective(managed) /\ p \notin started
  BY DEF ManagedInv
<1>2. /\ managed' \in Seq(started') /\ IsInjective(managed')
      /\ \E k \in DOMAIN managed' : managed'[k] = p
      /\ \A k \in DOMAIN managed : k \in DOMAIN managed' /\ managed'[k] = managed[k]
  <2>1. /\ Append(managed, p) \in Seq(started \cup {p}) /\ IsInjective(Append(managed, p))
        /\ \E i \in DOMAIN Append(managed, p) : Append(managed, p)[i] = p
        /\ \A i \in DOMAIN managed :
              i \in DOMAIN Append(managed, p) /\ Append(managed, p)[i] = managed[i]
    <3>1. ASSUME NEW x, x \notin started
          PROVE  /\ Append(managed, x) \in Seq(started \cup {x})
                 /\ IsInjective(Append(managed, x))
                 /\ \E i \in DOMAIN Append(managed, x) : Append(managed, x)[i] = x
                 /\ \A i \in DOMAIN managed :
                       i \in DOMAIN Append(managed, x) /\ Append(managed, x)[i] = managed[i]
      BY <1>1, <3>1, AppendManaged
    <3> QED BY <1>1, <3>1
  <2> QED BY <2>1
<1>3. \A q \in started' : \E k \in DOMAIN managed' : managed'[k] = q
  BY <1>2 DEF ManagedInv, Setup, Measuring
<1>4. /\ process' \in [Processors -> {"none", "starting", "running", "exited"}]
      /\ \A q \in exitedEarly : process'[q] = "exited"
  BY DEF ManagedInv
<1>5. started' \subseteq Processors /\ exitedEarly' \subseteq started'
  BY DEF ManagedInv
<1>6. \A q \in definition.enabled : q \in started' \/ process'[q] = "none"
  BY DEF ManagedInv
<1> QED BY <1>2, <1>3, <1>4, <1>5, <1>6 DEF ManagedInv, Setup, Measuring, Recording, options

LEMMA StopOne ==
    ASSUME ManagedInv, UNCHANGED <<options, started, exitedEarly, process, stopAborted>>,
           managed # <<>>, process[Head(managed)] = "exited", managed' = Tail(managed),
           pc' = "stop"
    PROVE  ManagedInv'
<1>1. /\ Tail(managed) \in Seq(started) /\ IsInjective(Tail(managed))
      /\ \A i \in DOMAIN managed :
            managed[i] = Head(managed)
            \/ \E j \in DOMAIN Tail(managed) : Tail(managed)[j] = managed[i]
  BY TailManaged DEF ManagedInv
<1>2. \A p \in started :
         process[p] = "exited" \/ \E j \in DOMAIN Tail(managed) : Tail(managed)[j] = p
  BY <1>1 DEF ManagedInv
<1> QED BY <1>1, <1>2 DEF ManagedInv, Setup, Measuring, Recording, options

LEMMA StepManaged == PhaseInv /\ ManagedInv /\ Next => ManagedInv'
<1> SUFFICES ASSUME PhaseInv, ManagedInv, Next PROVE ManagedInv'
  OBVIOUS
<1>a. dryRun \in BOOLEAN /\ (dryRun => managed = <<>>)
  <2>1. dryRun => managed \in Seq({})
    BY DEF ManagedInv
  <2> QED BY <2>1 DEF PhaseInv
<1> USE <1>a DEF Setup, Measuring, Stopping, Recording, options, stopping, environment
<1>1. CASE CleanTopics \/ ResetValues \/ SeedValues \/ BeforeSnapshot
  BY <1>1, StageOnly DEF CleanTopics, ResetValues, SeedValues, BeforeSnapshot
<1>s. CASE BeginScan \/ \E k \in Keys : ReadBucket(k)
  BY <1>s, StageOnly DEF BeginScan, ReadBucket
<1>2. CASE StartProcessor
  <2>1. PICK i \in DOMAIN StartOrder :
          /\ StartOrder[i] \in ToStart
          /\ process' = [process EXCEPT ![StartOrder[i]] = "starting"]
          /\ managed' = Append(managed, StartOrder[i])
          /\ started' = started \cup {StartOrder[i]}
    BY <1>2 DEF StartProcessor
  <2>2. StartOrder[i] \in Processors /\ StartOrder[i] \notin started
    BY <2>1 DEF StartOrder, Processors, ToStart
  <2> QED BY <1>2, <2>1, <2>2, OneMore DEF StartProcessor
<1>3. CASE AllStarted \/ CheckStarted
  BY <1>3, StageOnly DEF AllStarted, CheckStarted, ContinueIfHealthy
<1>4. CASE BeginPhase \/ Publish \/ FinishPhase \/ Settle
  BY <1>4, StageOnly DEF BeginPhase, Publish, FinishPhase, Settle, ContinueIfHealthy
<1>5. CASE FinalSnapshot \/ FailureSnapshot
  BY <1>5, StageOnly DEF FinalSnapshot, FailureSnapshot, AfterMeasuring
<1>6. CASE StopProcessor
  <2>1. CASE process[Head(managed)] = "exited"
    BY <1>6, <2>1, StopOne DEF StopProcessor
  <2>2. CASE process[Head(managed)] # "exited"
    BY <1>6, <2>2, StageOnly DEF StopProcessor
  <2> QED BY <2>1, <2>2
<1>7. CASE ProcessorStopped
  <2>1. managed # <<>>
    BY <1>7 DEF ProcessorStopped, ManagedInv
  <2> QED BY <1>7, <2>1, StopOne DEF ProcessorStopped
<1>8. CASE KillProcessor
  <2>1. managed # <<>>
    BY <1>8 DEF KillProcessor, ManagedInv
  <2> QED BY <1>8, <2>1, StageOnly DEF KillProcessor
<1>9. CASE AllStopped
  BY <1>9, StageOnly DEF AllStopped
<1>10. CASE WriteArtifact \/ InsertResult \/ RewriteArtifact
  <2>1. managed = <<>>
    BY <1>10 DEF WriteArtifact, InsertResult, RewriteArtifact, ManagedInv
  <2> QED BY <1>10, <2>1, StageOnly DEF WriteArtifact, InsertResult, RewriteArtifact
<1>11. CASE StopRaises
  BY <1>11 DEF StopRaises, ManagedInv, IsInjective
<1>12. CASE Raise
  <2>1. pc \in Recording \/ dryRun => managed = <<>>
    BY DEF ManagedInv
  <2> QED BY <1>12, <2>1, StageOnly DEF Raise
<1>13. CASE Broker
  BY <1>13, StageOnly DEF Broker, Deliver, LoseRecord, runner
<1>14. ASSUME NEW p \in Processors, ProcessorRuns(p) PROVE ManagedInv'
  <2>1. /\ process' \in [Processors -> {"none", "starting", "running", "exited"}]
        /\ \A q \in Processors : process[q] = "exited" => process'[q] = "exited"
    BY <1>14 DEF ProcessorRuns, ManagedInv
  <2> QED BY <1>14, <2>1 DEF ProcessorRuns, ManagedInv, runner, IsInjective
<1>15. ASSUME NEW p \in Processors, ProcessorExits(p) PROVE ManagedInv'
  <2>1. /\ process' \in [Processors -> {"none", "starting", "running", "exited"}]
        /\ \A q \in Processors : process[q] = "exited" => process'[q] = "exited"
        /\ process'[p] = "exited"
    BY <1>15 DEF ProcessorExits, ManagedInv
  <2>2. /\ exitedEarly' \subseteq started /\ \A q \in exitedEarly' : process'[q] = "exited"
    BY <1>15, <2>1 DEF ProcessorExits, ManagedInv
  <2> QED BY <1>15, <2>1, <2>2 DEF ProcessorExits, ManagedInv, runner, IsInjective
<1>16. CASE \/ \E record \in Records : Consume(record)
            \/ \E k \in Keys : PublishBucket(k)
            \/ CompleteCheckpoint \/ RestoreJob \/ InsertModel
  BY <1>16, StageOnly DEF Consume, PublishBucket, CompleteCheckpoint, RestoreJob,
     InsertModel, runner
<1> QED BY <1>1, <1>2, <1>3, <1>4, <1>5, <1>6, <1>7, <1>8, <1>9, <1>10, <1>11, <1>12,
           <1>13, <1>14, <1>15, <1>16, <1>s DEF Next, Run, GiveUp, Processes

-----------------------------------------------------------------------------
(* Health                                                                  *)

LEMMA InitHealth == Init => HealthInv
  BY ConfigAssumption DEF Init, HealthInv

LEMMA StepHealth == PhaseInv /\ ManagedInv /\ ResultInv /\ HealthInv /\ Next => HealthInv'
<1> SUFFICES ASSUME PhaseInv, ManagedInv, ResultInv, HealthInv, Next PROVE HealthInv'
  OBVIOUS
<1>a. /\ pc \in Setup \cup Measuring \cup {"final", "failed"} => passed # TRUE
      /\ (pc = "final" => exitedEarly = {})
      /\ (passed = TRUE => exitedEarly = {} /\ pc \notin Measuring)
      /\ dryRun \in BOOLEAN
  BY ConfigAssumption DEF ResultInv, HealthInv, PhaseInv
<1> USE <1>a DEF HealthInv, Setup, Measuring, options, position, stopping, result,
        snapshots, environment
<1>1. CASE CleanTopics \/ ResetValues \/ SeedValues \/ BeforeSnapshot
  BY <1>1 DEF CleanTopics, ResetValues, SeedValues, BeforeSnapshot
<1>s. CASE BeginScan \/ \E k \in Keys : ReadBucket(k)
  BY <1>s DEF BeginScan, ReadBucket
<1>2. CASE StartProcessor \/ AllStarted \/ CheckStarted
  BY <1>2 DEF StartProcessor, AllStarted, CheckStarted, ContinueIfHealthy
<1>3. CASE BeginPhase \/ Publish \/ FinishPhase
  BY <1>3 DEF BeginPhase, Publish, FinishPhase, ContinueIfHealthy
<1>4. CASE Settle
  <2>1. dryRun \/ Healthy => exitedEarly = {}
    BY <1>4 DEF Settle, ManagedInv, Healthy
  <2> QED BY <1>4, <2>1 DEF Settle, ContinueIfHealthy
<1>5. CASE FinalSnapshot \/ FailureSnapshot
  BY <1>5 DEF FinalSnapshot, FailureSnapshot, AfterMeasuring
<1>6. CASE StopProcessor \/ ProcessorStopped \/ KillProcessor \/ AllStopped
  BY <1>6 DEF StopProcessor, ProcessorStopped, KillProcessor, AllStopped
<1>7. CASE WriteArtifact \/ InsertResult \/ RewriteArtifact
  BY <1>7 DEF WriteArtifact, InsertResult, RewriteArtifact
<1>8. CASE GiveUp
  BY <1>8 DEF GiveUp, StopRaises, Raise, Stopping, Recording
<1>9. CASE Broker
  BY <1>9 DEF Broker, Deliver, LoseRecord, runner
<1>10. CASE Processes
  <2>1. UNCHANGED <<pc, passed>> /\ (pc \in Measuring \/ UNCHANGED exitedEarly)
    BY <1>10 DEF Processes, ProcessorRuns, ProcessorExits, Consume, PublishBucket,
       CompleteCheckpoint, RestoreJob, InsertModel, runner
  <2> QED BY <2>1
<1> QED BY <1>1, <1>2, <1>3, <1>4, <1>5, <1>6, <1>7, <1>8, <1>9, <1>10,
           <1>s DEF Next, Run, GiveUp

-----------------------------------------------------------------------------
(* The broker, the buckets and the scan                                    *)

LEMMA StoreFacts ==
    ASSUME StoreTypes
    PROVE  /\ Job!Empty \in Bucket
           /\ \A k \in Keys : counted[k] \in Bucket /\ Job!Seen(k) \in Bucket
           /\ \A k \in Keys : published[k] # None =>
                                 published[k] \in Bucket /\ Job!Seen(k) = published[k]
           /\ \A k \in Keys : published[k] = None => Job!Seen(k) = Job!Empty
<1>1. /\ counted \in [Keys -> Bucket]
      /\ \A k \in Keys : published[k] = None \/ published[k] \in Bucket
  BY DEF StoreTypes, Buckets
<1> QED BY <1>1 DEF Job!Seen, Job!Empty, Bucket

LEMMA NothingCounted == NoRecords \in Counts /\ \A r \in Records : NoRecords[r] = 0
  BY DEF NoRecords, Counts

LEMMA RecordMoved ==
    ASSUME NEW counts \in Counts, NEW record \in Records
    PROVE  /\ [counts EXCEPT ![record] = @ + 1] \in Counts
           /\ counts[record] > 0 => [counts EXCEPT ![record] = @ - 1] \in Counts
           /\ counts[record] \in Nat
  BY DEF Counts

LEMMA InitStores == Init => StoreTypes
<1> SUFFICES ASSUME Init PROVE StoreTypes
  OBVIOUS
<1>1. published \in Buckets /\ topic \in Counts
  BY ConfigAssumption DEF Init
<1>2. counted \in [Keys -> Bucket]
  BY <1>1 DEF Init, Buckets, Job!Seen, Job!Empty, Bucket
<1>3. /\ buffered \in Counts /\ consumed = topic /\ models \in Nat
      /\ loaded = {} /\ dirty = {} /\ checkpoint = None /\ scan = None
      /\ restores \in 0 .. MaxRestores /\ recounted \in Counts
  BY NothingCounted, ConfigAssumption DEF Init
<1>4. \A record \in Records : consumed[record] <= topic[record]
  BY <1>1, <1>3 DEF Counts
<1> QED BY <1>1, <1>2, <1>3, <1>4 DEF StoreTypes

LEMMA BucketsSet ==
    ASSUME NEW values \in Buckets, SetBuckets(values)
    PROVE  published' \in Buckets /\ counted' \in [Keys -> Bucket]
<1>1. \A k \in Keys : values[k] = None \/ values[k] \in Bucket
  BY DEF Buckets
<1>2. Job!Empty \in Bucket
  BY DEF Job!Empty, Bucket
<1> QED BY <1>1, <1>2 DEF SetBuckets

(* One bucket is counted in, by one.                                       *)
LEMMA BucketCounted ==
    ASSUME StoreTypes, NEW k \in Keys, Job!Count(k)
    PROVE  /\ counted' \in [Keys -> Bucket]
           /\ \A q \in Keys \ {k} : counted'[q] = counted[q]
           /\ \E kind \in Kinds :
                 /\ Total(counted'[k], kind) = Total(counted[k], kind) + 1
                 /\ \A other \in Kinds \ {kind} :
                       Total(counted'[k], other) = Total(counted[k], other)
<1> DEFINE b == counted[k]
<1>1. /\ b \in [impressions : Nat, clicks : Nat] /\ b.clicks <= b.impressions
      /\ DOMAIN counted = Keys /\ counted \in [Keys -> Bucket]
  BY DEF StoreTypes, Bucket
<1>2. CASE counted' = [counted EXCEPT ![k].impressions = @ + 1]
  <2>1. counted'[k] = [b EXCEPT !.impressions = b.impressions + 1]
    BY <1>1, <1>2
  <2>2. /\ counted'[k] \in Bucket /\ counted'[k].impressions = b.impressions + 1
        /\ counted'[k].clicks = b.clicks
    BY <1>1, <2>1 DEF Bucket
  <2>3. \A q \in Keys \ {k} : counted'[q] = counted[q]
    BY <1>1, <1>2
  <2>4. counted' \in [Keys -> Bucket]
    BY <1>1, <1>2, <2>2, <2>3
  <2>5. /\ Total(counted'[k], "impression") = Total(b, "impression") + 1
        /\ \A other \in Kinds \ {"impression"} : Total(counted'[k], other) = Total(b, other)
    BY <2>2, TwoKinds DEF Total
  <2> QED BY <2>3, <2>4, <2>5, TwoKinds
<1>3. CASE /\ b.clicks < b.impressions
           /\ counted' = [counted EXCEPT ![k].clicks = @ + 1]
  <2>1. counted'[k] = [b EXCEPT !.clicks = b.clicks + 1]
    BY <1>1, <1>3
  <2>2. /\ counted'[k] \in Bucket /\ counted'[k].impressions = b.impressions
        /\ counted'[k].clicks = b.clicks + 1
    BY <1>1, <1>3, <2>1 DEF Bucket
  <2>3. \A q \in Keys \ {k} : counted'[q] = counted[q]
    BY <1>1, <1>3
  <2>4. counted' \in [Keys -> Bucket]
    BY <1>1, <1>3, <2>2, <2>3
  <2>5. /\ Total(counted'[k], "click") = Total(b, "click") + 1
        /\ \A other \in Kinds \ {"click"} : Total(counted'[k], other) = Total(b, other)
    BY <2>2, TwoKinds DEF Total
  <2> QED BY <2>3, <2>4, <2>5, TwoKinds
<1> QED BY <1>2, <1>3 DEF Job!Count

(* A bucket is read.                                                       *)
LEMMA ScanTyped ==
    ASSUME StoreTypes, NEW k \in Keys, ReadBucket(k)
    PROVE  scan' \in Scans
<1>1. scan \in Scans /\ published[k] \in Bucket /\ MaxRepeats \in Nat
  BY StoreFacts, ConfigAssumption DEF StoreTypes, ReadBucket
<1>2. CASE scan.first[k] = None
  <2>1. scan' = [scan EXCEPT !.first[k] = published[k]]
    BY <1>2 DEF ReadBucket
  <2>2. [scan.first EXCEPT ![k] = published[k]] \in Buckets
    BY <1>1 DEF Scans, Buckets
  <2>3. scan' = [scan EXCEPT !.first = [scan.first EXCEPT ![k] = published[k]]]
    BY <2>1, <1>1 DEF Scans
  <2> QED BY <1>1, <2>2, <2>3 DEF Scans
<1>3. CASE scan.first[k] # None
  <2> DEFINE more == [kind \in Kinds |-> scan.again[kind] + Total(published[k], kind)]
  <2>1. /\ scan.repeats < MaxRepeats
        /\ scan' = [scan EXCEPT !.repeats = scan.repeats + 1, !.again = more]
    BY <1>1, <1>3 DEF ReadBucket, Scans
  <2>2. more \in [Kinds -> Nat]
    BY <1>1, TotalsTyped
  <2> HIDE DEF more
  <2>3. scan.repeats + 1 \in 0 .. MaxRepeats
    BY <1>1, <2>1 DEF Scans
  <2> QED BY <1>1, <2>1, <2>2, <2>3 DEF Scans
<1> QED BY <1>2, <1>3

(* What a restore leaves: a bucket of the checkpoint as it was there, with *)
(* its position, any other as it is in Redis.                              *)
LEMMA Restored ==
    ASSUME StoreTypes, RestoreJob, PhaseInv
    PROVE  /\ restores' \in 0 .. MaxRestores
           /\ loaded' \subseteq Keys /\ dirty' \subseteq Keys
           /\ checkpoint # None => loaded' = checkpoint.loaded
           /\ checkpoint = None => loaded' = {}
           /\ consumed' \in Counts
           /\ \A record \in Records : consumed'[record] <= topic[record]
           /\ checkpoint # None => consumed' = checkpoint.consumed
           /\ counted' \in [Keys -> Bucket]
           /\ \A k \in Keys \ loaded' : counted'[k] = Job!Seen(k)
           /\ \A k \in loaded' : counted'[k] = checkpoint.counted[k]
           /\ recounted' \in Counts
           /\ \A record \in Records :
                 /\ recounted[record] <= recounted'[record]
                 /\ record.key \notin loaded' =>
                       consumed[record] + recounted[record]
                         <= consumed'[record] + recounted'[record]
<1>1. /\ loaded' = LastCheckpoint.loaded /\ dirty' = LastCheckpoint.dirty
      /\ consumed' = LastCheckpoint.consumed
      /\ counted' = [k \in Keys |-> IF k \in loaded' THEN LastCheckpoint.counted[k]
                                    ELSE Job!Seen(k)]
      /\ recounted' = [record \in Records |->
            IF record.key \notin loaded' /\ consumed'[record] < consumed[record]
            THEN recounted[record] + (consumed[record] - consumed'[record])
            ELSE recounted[record]]
      /\ restores < MaxRestores /\ restores' = restores + 1
  BY DEF RestoreJob
<1>2. /\ consumed \in Counts /\ topic \in Counts /\ recounted \in Counts
      /\ checkpoint \in Checkpoint \cup {None} /\ restores \in 0 .. MaxRestores
      /\ \A k \in Keys : Job!Seen(k) \in Bucket
      /\ MaxRestores \in Nat
  BY StoreFacts, ConfigAssumption DEF StoreTypes
<1>3. /\ loaded' \subseteq Keys /\ dirty' \subseteq Keys /\ consumed' \in Counts
      /\ \A record \in Records : consumed'[record] <= topic[record]
      /\ checkpoint # None => /\ loaded' = checkpoint.loaded
                              /\ consumed' = checkpoint.consumed
      /\ checkpoint = None => loaded' = {}
      /\ \A k \in loaded' : /\ LastCheckpoint.counted[k] = checkpoint.counted[k]
                            /\ LastCheckpoint.counted[k] \in Bucket
  <2>1. CASE checkpoint # None
    <3>1. LastCheckpoint = checkpoint /\ checkpoint \in Checkpoint
      BY <1>2, <2>1 DEF LastCheckpoint
    <3>2. \A record \in Records : checkpoint.consumed[record] <= topic[record]
      BY <2>1 DEF StoreTypes
    <3> QED BY <1>1, <2>1, <3>1, <3>2 DEF Checkpoint
  <2>2. CASE checkpoint = None
    <3>1. LastCheckpoint = [counted |-> counted, loaded |-> {}, dirty |-> {},
                            consumed |-> StartingOffsets]
      BY <2>2 DEF LastCheckpoint
    <3>2. loaded' = {} /\ dirty' = {} /\ consumed' = StartingOffsets
      BY <1>1, <3>1
    <3>3. StartingOffsets \in {NoRecords, topic}
      BY DEF StartingOffsets
    <3>4. \A record \in Records : topic[record] \in Nat
      BY <1>2 DEF Counts
    <3>5. \A record \in Records : consumed'[record] <= topic[record]
      BY <3>2, <3>3, <3>4, NothingCounted
    <3> QED BY <1>2, <2>2, <3>2, <3>3, <3>5, NothingCounted
  <2> QED BY <2>1, <2>2
<1>4. /\ counted' \in [Keys -> Bucket]
      /\ \A k \in Keys \ loaded' : counted'[k] = Job!Seen(k)
      /\ \A k \in loaded' : counted'[k] = checkpoint.counted[k]
  BY <1>1, <1>2, <1>3
<1>5. \A record \in Records :
         /\ consumed[record] \in Nat /\ consumed'[record] \in Nat
         /\ recounted[record] \in Nat
  BY <1>2, <1>3 DEF Counts
<1>6. \A record \in Records :
         /\ recounted'[record] \in Nat
         /\ recounted[record] <= recounted'[record]
         /\ record.key \notin loaded' =>
               consumed[record] + recounted[record] <= consumed'[record] + recounted'[record]
  BY <1>1, <1>5
<1>7. recounted' \in Counts
  BY <1>1, <1>6 DEF Counts
<1>8. restores' \in 0 .. MaxRestores
  BY <1>1, <1>2
<1> QED BY <1>3, <1>4, <1>6, <1>7, <1>8

LEMMA StepStores == PhaseInv /\ ManagedInv /\ StoreTypes /\ Next => StoreTypes'
<1> SUFFICES ASSUME PhaseInv, ManagedInv, StoreTypes, Next PROVE StoreTypes'
  OBVIOUS
<1>a. \A r \in Records : consumed[r] \in Nat /\ topic[r] \in Nat
  BY DEF StoreTypes, Counts
<1> USE DEF keyedState, restarts
<1>1. CASE CleanTopics
  <2>1. CASE definition.cleanTopics
    <3>1. process[Realtime] = "none"
      BY <1>1, <2>1, SetupAssumption
      DEF CleanTopics, PhaseInv, ManagedInv, Setup, Realtime
    <3>2. checkpoint = None
      BY <3>1 DEF StoreTypes
    <3>3. \A r \in Records : NoRecords[r] <= NoRecords[r]
      BY NothingCounted
    <3> QED BY <1>1, <2>1, <3>2, <3>3, NothingCounted DEF CleanTopics, StoreTypes
  <2>2. CASE ~definition.cleanTopics
    BY <1>1, <2>2 DEF CleanTopics, StoreTypes
  <2> QED BY <2>1, <2>2
<1>2. CASE ResetValues
  <2>1. [k \in Keys |-> None] \in Buckets
    BY DEF Buckets
  <2>2. published' \in Buckets /\ counted' \in [Keys -> Bucket] /\ models' \in Nat
    BY <1>2, <2>1, BucketsSet DEF ResetValues, StoreTypes
  <2> QED BY <1>2, <2>2 DEF ResetValues, StoreTypes, kafka
<1>3. CASE SeedValues
  <2>1. [k \in Keys |-> IF Seeded[k] = None THEN published[k] ELSE Seeded[k]] \in Buckets
    BY ConfigAssumption DEF Buckets, StoreTypes
  <2>2. published' \in Buckets /\ counted' \in [Keys -> Bucket] /\ models' \in Nat
    BY <1>3, <2>1, BucketsSet DEF SeedValues, StoreTypes
  <2> QED BY <1>3, <2>2 DEF SeedValues, StoreTypes, kafka
<1>4. CASE /\ UNCHANGED <<kafka, job, models>>
           /\ process'[Realtime] = process[Realtime] \/ checkpoint = None
           /\ scan' \in Scans \cup {None}
  BY <1>4 DEF StoreTypes, kafka, job
<1>s. CASE BeginScan \/ \E k \in Keys : ReadBucket(k)
  <2>1. CASE BeginScan
    <3>1. [k \in Keys |-> None] \in Buckets /\ 0 \in 0 .. MaxRepeats
      BY ConfigAssumption DEF Buckets
    <3>2. /\ scan' = [due |-> {k \in Keys : published[k] # None},
                      first |-> [k \in Keys |-> None],
                      again |-> [kind \in Kinds |-> 0], repeats |-> 0]
          /\ UNCHANGED <<kafka, job, models, process>>
      BY <2>1 DEF BeginScan, environment
    <3>3. scan' \in Scans
      BY <3>1, <3>2 DEF Scans
    <3> QED BY <1>4, <3>2, <3>3
  <2>2. ASSUME NEW k \in Keys, ReadBucket(k) PROVE StoreTypes'
    <3>1. scan' \in Scans /\ UNCHANGED <<kafka, job, models, process>>
      BY <2>2, ScanTyped DEF ReadBucket, environment
    <3> QED BY <1>4, <3>1
  <2> QED BY <1>s, <2>1, <2>2
<1>5. CASE Publish
  <2>1. Batch[index + 1] \in Records
    BY <1>5, TrafficTyped DEF Publish, PhaseInv
  <2> QED BY <1>5, <2>1, RecordMoved DEF Publish, StoreTypes, job
<1>6. ASSUME NEW record \in Records, Deliver(record) PROVE StoreTypes'
  <2>1. buffered' \in Counts /\ topic' \in Counts /\ topic'[record] = topic[record] + 1
        /\ \A r \in Records : topic[r] <= topic'[r] /\ topic'[r] \in Nat
    BY <1>6, <1>a, RecordMoved DEF Deliver, StoreTypes, Counts
  <2>2. UNCHANGED <<process, job, models, scan>>
    BY <1>6 DEF Deliver, runner
  <2>3. checkpoint # None => \A r \in Records : checkpoint.consumed[r] \in Nat
    BY DEF StoreTypes, Checkpoint, Counts
  <2>4. /\ \A r \in Records : consumed'[r] <= topic'[r]
        /\ checkpoint' # None => \A r \in Records : checkpoint'.consumed[r] <= topic'[r]
    BY <1>a, <2>1, <2>2, <2>3 DEF StoreTypes, job
  <2> QED BY <2>1, <2>2, <2>4 DEF StoreTypes, job
<1>7. ASSUME NEW record \in Records, LoseRecord(record) PROVE StoreTypes'
  BY <1>7, RecordMoved DEF LoseRecord, StoreTypes, job, runner
<1>8. ASSUME NEW p \in Processors, ProcessorRuns(p) PROVE StoreTypes'
  <2>1. consumed' \in {consumed, NoRecords, topic}
    BY <1>8 DEF ProcessorRuns, StartingOffsets
  <2>2. consumed' \in Counts /\ \A r \in Records : consumed'[r] <= topic[r]
    BY <1>a, <2>1, NothingCounted DEF StoreTypes
  <2>3. checkpoint = None \/ process'[Realtime] = process[Realtime]
    BY <1>8 DEF ProcessorRuns, StoreTypes, ManagedInv
  <2> QED BY <1>8, <2>2, <2>3 DEF ProcessorRuns, StoreTypes, kafka, runner
<1>9. ASSUME NEW p \in Processors, ProcessorExits(p) PROVE StoreTypes'
  <2>1. CASE p = Realtime
    BY <1>9, <2>1, StoreFacts
    DEF ProcessorExits, LoseKeyedState, StoreTypes, kafka, runner, Realtime
  <2>2. CASE p # Realtime
    <3>1. process'[Realtime] = process[Realtime]
      BY <1>9, <2>2 DEF ProcessorExits, ManagedInv
    <3> QED BY <1>4, <1>9, <2>2, <3>1 DEF ProcessorExits, StoreTypes, runner, Realtime
  <2> QED BY <2>1, <2>2
<1>10. ASSUME NEW record \in Records, Consume(record) PROVE StoreTypes'
  <2>1. consumed' \in Counts /\ \A r \in Records : consumed'[r] <= topic[r]
    BY <1>10, <1>a, RecordMoved DEF Consume, StoreTypes, Counts
  <2>2. record.key \in Keys
    BY DEF Records
  <2>3. counted' \in [Keys -> Bucket] /\ published' \in Buckets
    <3>1. CASE UNCHANGED <<counted, published>>
      BY <3>1 DEF StoreTypes
    <3>2. CASE Job!CountOnly(record.key)
      BY <2>2, <3>2, BucketCounted DEF Job!CountOnly, StoreTypes
    <3>3. CASE Job!CountAndPublish(record.key)
      <4>1. counted' \in [Keys -> Bucket]
        BY <2>2, <3>3, BucketCounted DEF Job!CountAndPublish
      <4> QED BY <2>2, <3>3, <4>1 DEF Job!CountAndPublish, StoreTypes, Buckets
    <3> QED BY <1>10, <3>1, <3>2, <3>3 DEF Consume
  <2>4. loaded' \subseteq Keys /\ dirty' \subseteq Keys /\ loaded \subseteq loaded'
    BY <1>10, <2>2 DEF Consume, StoreTypes
  <2> QED BY <1>10, <2>1, <2>3, <2>4 DEF Consume, StoreTypes, kafka, runner
<1>11. ASSUME NEW k \in Keys, PublishBucket(k) PROVE StoreTypes'
  <2>1. published' \in Buckets
    BY <1>11, StoreFacts DEF PublishBucket, StoreTypes, Buckets
  <2> QED BY <1>11, <2>1 DEF PublishBucket, StoreTypes, kafka, runner
<1>12. CASE InsertModel
  BY <1>12 DEF InsertModel, StoreTypes, kafka, job, runner
<1>13. CASE CompleteCheckpoint
  <2>1. checkpoint' = [counted |-> counted, loaded |-> loaded, dirty |-> dirty,
                       consumed |-> consumed]
    BY <1>13 DEF CompleteCheckpoint
  <2>2. checkpoint' \in Checkpoint
    BY <2>1 DEF StoreTypes, Checkpoint
  <2>3. checkpoint'.loaded = loaded /\ checkpoint'.consumed = consumed
    BY <2>1
  <2> QED BY <1>13, <2>2, <2>3 DEF CompleteCheckpoint, StoreTypes, kafka, runner, Realtime
<1>14. CASE RestoreJob
  BY <1>14, Restored DEF RestoreJob, StoreTypes, kafka, runner
<1>15. CASE StartProcessor
  <2>1. PICK i \in DOMAIN StartOrder :
          /\ StartOrder[i] \in definition.enabled \ started
          /\ process' = [process EXCEPT ![StartOrder[i]] = "starting"]
    BY <1>15 DEF StartProcessor, ToStart
  <2>2. process'[Realtime] = process[Realtime] \/ process[Realtime] = "none"
    BY <2>1 DEF ManagedInv
  <2>3. UNCHANGED <<kafka, job, models, scan>>
    BY <1>15 DEF StartProcessor
  <2>4. checkpoint = None \/ process'[Realtime] = process[Realtime]
    BY <2>2 DEF StoreTypes
  <2> QED BY <1>4, <2>3, <2>4 DEF StoreTypes
<1>16. CASE BeforeSnapshot \/ FinalSnapshot \/ FailureSnapshot \/ GiveUp
  BY <1>4, <1>16 DEF BeforeSnapshot, FinalSnapshot, FailureSnapshot, EndScan, GiveUp,
     StopRaises, Raise, environment, StoreTypes
<1>17. CASE AllStarted \/ CheckStarted \/ BeginPhase \/ FinishPhase \/ Settle
  BY <1>4, <1>17 DEF AllStarted, CheckStarted, BeginPhase, FinishPhase, Settle,
     environment, StoreTypes
<1>18. CASE StopProcessor \/ ProcessorStopped \/ KillProcessor \/ AllStopped
            \/ WriteArtifact \/ InsertResult \/ RewriteArtifact
  BY <1>4, <1>18 DEF StopProcessor, ProcessorStopped, KillProcessor, AllStopped,
     WriteArtifact, InsertResult, RewriteArtifact, environment, StoreTypes
<1> QED BY <1>1, <1>2, <1>3, <1>5, <1>6, <1>7, <1>8, <1>9, <1>10, <1>11, <1>12, <1>13,
           <1>14, <1>15, <1>16, <1>17, <1>18, <1>s DEF Next, Run, Broker, Processes

-----------------------------------------------------------------------------
(* Delivery                                                                *)

(* n phases have produced so many events of the kind.                      *)
Produced(batch, n, kind) == n * BatchCount(batch, kind)
BatchPrefix(batch, n, kind) == Cardinality({i \in 1 .. n : batch[i].kind = kind})

Handed(kind) ==
    Produced(Batch, phases, kind)
    + (IF pc = "publish" THEN BatchPrefix(Batch, index, kind)
       ELSE IF pc = "flush" THEN BatchCount(Batch, kind) ELSE 0)

(* What is not in Redis yet is in the job, while it runs.                  *)
JobInv == process[Realtime] # "running" => \A k \in Keys : counted[k] = Job!Seen(k)

(* The first scan reads stores nobody writes.                              *)
ScanInv ==
    scan # None =>
        /\ pc \in {"before", "final", "failed"}
        /\ Controlled /\ pc = "before" =>
              \A k \in Keys : /\ published[k] # None => k \in scan.due
                              /\ scan.first[k] \in {None, published[k]}

(* A record in the topics was in the producer's buffer, and that is empty  *)
(* between the phases.                                                     *)
TrafficInv ==
    Controlled =>
        /\ pc \in Setup => buffered = NoRecords
        /\ pc \in {"reset", "seed", "before"} => topic = NoRecords
        /\ pc \in Measuring \cup {"final"} =>
              /\ pc \notin {"publish", "flush"} => buffered = NoRecords
              /\ \A kind \in Kinds : OfKind(topic, kind) + OfKind(buffered, kind) <= Handed(kind)

InRedis(r) == Total(Job!Seen(r.key), r.kind)
InCheckpoint(r) == checkpoint # None /\ r.key \in checkpoint.loaded

(* Every copy of a bucket, in Redis, in the job, in its checkpoint and in  *)
(* the scan, holds at most what was there before (base), one for each      *)
(* record up to the position the copy belongs to, and one for each record  *)
(* a restore had counted again.  Redis may be ahead of the job where that  *)
(* went back to a checkpoint, but not where it was loaded from Redis.      *)
Covered(base, r) ==
    /\ InRedis(r) <= base[r] + topic[r] + recounted[r]
    /\ process[Realtime] \in {"none", "starting"} =>
          Counted(r) <= base[r] /\ InRedis(r) <= base[r]
    /\ process[Realtime] = "running" =>
          /\ Counted(r) <= base[r] + consumed[r] + recounted[r]
          /\ InCheckpoint(r) \/ InRedis(r) <= base[r] + consumed[r] + recounted[r]
    /\ InCheckpoint(r) =>
          Total(checkpoint.counted[r.key], r.kind)
             <= base[r] + checkpoint.consumed[r] + recounted[r]
    /\ scan # None /\ scan.first[r.key] # None =>
          Total(scan.first[r.key], r.kind) <= base[r] + topic[r] + recounted[r]

(* What was there before is in the first snapshot.                         *)
CountedInv ==
    Controlled /\ pc \in Measuring \cup {"final"} =>
        /\ before \in Snapshots
        /\ \E base \in Counts :
              /\ \A kind \in Kinds : OfKind(base, kind) <= Total(before, kind)
              /\ \A r \in Records : Covered(base, r)

(* The gates leave no more room for a record that was lost than for one    *)
(* that the last snapshot has twice.                                       *)
DeliveredInv ==
    Controlled /\ definition.matchImpressions /\ definition.matchClicks /\ passed = TRUE =>
        /\ pc \notin Setup /\ buffered = NoRecords
        /\ \A kind \in Kinds :
              /\ OfKind(topic, kind) <= Produced(Batch, Phases, kind)
              /\ Produced(Batch, Phases, kind) <= OfKind(topic, kind) + final.twice[kind]

(* During its setup a controlled experiment has no realtime job yet.       *)
LEMMA NoJobYet ==
    ASSUME PhaseInv, ManagedInv, StoreTypes, Controlled, pc \in Setup
    PROVE  process[Realtime] = "none" /\ checkpoint = None
<1>1. process[Realtime] = "none"
  BY SetupAssumption DEF PhaseInv, ManagedInv, Controlled, Realtime
<1> QED BY <1>1 DEF StoreTypes

LEMMA SeenKept ==
    ASSUME UNCHANGED published PROVE \A k \in Keys : Job!Seen(k)' = Job!Seen(k)
  BY DEF Job!Seen, Job!Empty

LEMMA InitJob == Init => JobInv
  BY DEF Init, JobInv

LEMMA JobUntouched ==
    ASSUME JobInv, UNCHANGED <<counted, published>>,
           process'[Realtime] # "running" => process[Realtime] # "running"
    PROVE  JobInv'
  BY SeenKept DEF JobInv

LEMMA StepJob == ManagedInv /\ JobInv /\ Next => JobInv'
<1> SUFFICES ASSUME ManagedInv, JobInv, Next PROVE JobInv'
  OBVIOUS
<1> USE DEF stopping, environment, job, keyedState, restarts
<1>1. CASE CleanTopics \/ BeginScan \/ (\E k \in Keys : ReadBucket(k)) \/ BeforeSnapshot
  BY <1>1, JobUntouched DEF CleanTopics, BeginScan, ReadBucket, BeforeSnapshot
<1>2. CASE ResetValues \/ SeedValues
  <2>1. PICK values : SetBuckets(values) \/ UNCHANGED <<counted, published>>
    BY <1>2 DEF ResetValues, SeedValues
  <2>2. CASE SetBuckets(values)
    <3>1. \A k \in Keys : counted'[k] = Job!Seen(k)'
      BY <2>2 DEF SetBuckets, Job!Seen, Job!Empty
    <3> QED BY <3>1 DEF JobInv
  <2>3. CASE UNCHANGED <<counted, published>>
    BY <1>2, <2>3, JobUntouched DEF ResetValues, SeedValues
  <2> QED BY <2>1, <2>2, <2>3
<1>3. CASE StartProcessor
  <2>1. PICK i \in DOMAIN StartOrder :
          /\ StartOrder[i] \in definition.enabled \ started
          /\ process' = [process EXCEPT ![StartOrder[i]] = "starting"]
    BY <1>3 DEF StartProcessor, ToStart
  <2>2. process'[Realtime] = process[Realtime] \/ process[Realtime] = "none"
    BY <2>1 DEF ManagedInv
  <2> QED BY <1>3, <2>2, JobUntouched DEF StartProcessor
<1>4. CASE AllStarted \/ CheckStarted \/ BeginPhase \/ Publish \/ FinishPhase
  BY <1>4, JobUntouched DEF AllStarted, CheckStarted, BeginPhase, Publish, FinishPhase
<1>5. CASE Settle \/ FinalSnapshot \/ FailureSnapshot \/ WriteArtifact \/ InsertResult
           \/ RewriteArtifact
  BY <1>5, JobUntouched DEF Settle, FinalSnapshot, FailureSnapshot, WriteArtifact,
     InsertResult, RewriteArtifact
<1>6. CASE StopProcessor \/ ProcessorStopped \/ KillProcessor \/ AllStopped
  BY <1>6, JobUntouched DEF StopProcessor, ProcessorStopped, KillProcessor, AllStopped
<1>7. CASE GiveUp
  BY <1>7, JobUntouched DEF GiveUp, StopRaises, Raise
<1>8. CASE Broker
  BY <1>8, JobUntouched DEF Broker, Deliver, LoseRecord
<1>9. ASSUME NEW p \in Processors, ProcessorRuns(p) PROVE JobInv'
  <2>1. process'[Realtime] = "running" \/ process'[Realtime] = process[Realtime]
    BY <1>9 DEF ProcessorRuns, ManagedInv
  <2> QED BY <1>9, <2>1, JobUntouched DEF ProcessorRuns
<1>10. ASSUME NEW p \in Processors, ProcessorExits(p) PROVE JobInv'
  <2>1. CASE p = Realtime
    <3>1. UNCHANGED published /\ \A k \in Keys : counted'[k] = Job!Seen(k)
      BY <1>10, <2>1 DEF ProcessorExits, LoseKeyedState, Realtime
    <3> QED BY <3>1, SeenKept DEF JobInv
  <2>2. CASE p # Realtime
    <3>1. UNCHANGED <<counted, published>> /\ process'[Realtime] = process[Realtime]
      BY <1>10, <2>2 DEF ProcessorExits, Realtime, ManagedInv
    <3> QED BY <3>1, JobUntouched
  <2> QED BY <2>1, <2>2
<1>11. CASE \/ \E record \in Records : Consume(record)
            \/ \E k \in Keys : PublishBucket(k)
            \/ CompleteCheckpoint \/ RestoreJob
  BY <1>11 DEF Consume, PublishBucket, CompleteCheckpoint, RestoreJob, JobInv, Realtime
<1>12. CASE InsertModel
  BY <1>12, JobUntouched DEF InsertModel
<1> QED BY <1>1, <1>2, <1>3, <1>4, <1>5, <1>6, <1>7, <1>8, <1>9, <1>10, <1>11, <1>12
        DEF Next, Run, Processes

LEMMA InitScan == Init => ScanInv
  BY DEF Init, ScanInv

LEMMA ScanUntouched ==
    ASSUME ScanInv, UNCHANGED <<pc, scan, Controlled>>,
           Controlled /\ pc = "before" => UNCHANGED published
    PROVE  ScanInv'
  BY DEF ScanInv

LEMMA StepScan == PhaseInv /\ ManagedInv /\ StoreTypes /\ ScanInv /\ Next => ScanInv'
<1> SUFFICES ASSUME PhaseInv, ManagedInv, StoreTypes, ScanInv, Next PROVE ScanInv'
  OBVIOUS
<1>k. UNCHANGED Controlled
  BY OptionsKept
<1>p. Controlled /\ pc = "before" => process[Realtime] = "none"
  BY NoJobYet DEF Setup
<1> USE <1>k DEF stopping, environment, job, keyedState, restarts
<1>0. CASE scan' = None
  BY <1>0 DEF ScanInv
<1>1. CASE CleanTopics \/ ResetValues \/ SeedValues
  <2>1. scan = None /\ UNCHANGED scan
    BY <1>1 DEF CleanTopics, ResetValues, SeedValues, ScanInv
  <2> QED BY <1>0, <2>1
<1>2. CASE BeginScan
  <2>1. /\ pc \in {"before", "final", "failed"} /\ UNCHANGED <<pc, published>>
        /\ scan' = [due |-> {k \in Keys : published[k] # None},
                    first |-> [k \in Keys |-> None],
                    again |-> [kind \in Kinds |-> 0], repeats |-> 0]
    BY <1>2 DEF BeginScan
  <2>2. \A k \in Keys : /\ published[k] # None => k \in scan'.due
                        /\ scan'.first[k] = None
    BY <2>1
  <2> QED BY <2>1, <2>2 DEF ScanInv
<1>3. ASSUME NEW k \in Keys, ReadBucket(k) PROVE ScanInv'
  <2>1. UNCHANGED <<pc, published>> /\ scan # None /\ scan \in Scans
    BY <1>3 DEF ReadBucket, StoreTypes
  <2>2. /\ scan'.due = scan.due
        /\ \A q \in Keys : scan'.first[q] = scan.first[q] \/ scan'.first[q] = published[q]
    BY <1>3, <2>1 DEF ReadBucket, Scans, Buckets
  <2> QED BY <2>1, <2>2 DEF ScanInv
<1>4. CASE BeforeSnapshot \/ FinalSnapshot \/ FailureSnapshot \/ Raise
  BY <1>0, <1>4 DEF BeforeSnapshot, FinalSnapshot, FailureSnapshot, EndScan, Raise
<1>5. CASE StartProcessor \/ AllStarted \/ CheckStarted \/ BeginPhase \/ Publish
           \/ FinishPhase \/ Settle
  <2>1. scan = None /\ UNCHANGED scan
    BY <1>5 DEF StartProcessor, AllStarted, CheckStarted, BeginPhase, Publish,
       FinishPhase, Settle, ScanInv
  <2> QED BY <1>0, <2>1
<1>6. CASE StopProcessor \/ ProcessorStopped \/ KillProcessor \/ AllStopped \/ StopRaises
  <2>1. scan = None /\ UNCHANGED scan
    BY <1>6 DEF StopProcessor, ProcessorStopped, KillProcessor, AllStopped, StopRaises,
       ScanInv, Stopping
  <2> QED BY <1>0, <2>1
<1>7. CASE WriteArtifact \/ InsertResult \/ RewriteArtifact
  <2>1. scan = None /\ UNCHANGED scan
    BY <1>7 DEF WriteArtifact, InsertResult, RewriteArtifact, ScanInv
  <2> QED BY <1>0, <2>1
<1>8. CASE Broker \/ CompleteCheckpoint \/ RestoreJob \/ InsertModel
  BY <1>8, ScanUntouched DEF Broker, Deliver, LoseRecord, CompleteCheckpoint, RestoreJob,
     InsertModel, runner
<1>9. CASE \E p \in Processors : ProcessorRuns(p) \/ ProcessorExits(p)
  BY <1>9, ScanUntouched DEF ProcessorRuns, ProcessorExits, LoseKeyedState, runner
<1>10. CASE (\E record \in Records : Consume(record)) \/ \E k \in Keys : PublishBucket(k)
  BY <1>10, <1>p, ScanUntouched DEF Consume, PublishBucket, runner, Realtime
<1> QED BY <1>1, <1>2, <1>3, <1>4, <1>5, <1>6, <1>7, <1>8, <1>9, <1>10
        DEF Next, Run, GiveUp, Processes

(* No record, and one record more or less among those of a kind.           *)
LEMMA OfKindNone == \A kind \in Kinds : OfKind(NoRecords, kind) = 0
<1> SUFFICES ASSUME NEW kind \in Kinds PROVE OfKind(NoRecords, kind) = 0
  OBVIOUS
<1>1. \A k \in Keys : PerKey(NoRecords, kind)[k] = 0
  BY NothingCounted DEF PerKey, Records
<1>2. SumFunctionOnSet(PerKey(NoRecords, kind), Keys) = 0 * Cardinality(Keys)
  BY <1>1, SumOfEqual, ConfigAssumption
<1> QED BY <1>2, SumsOverKeys, FS_CardinalityType, ConfigAssumption

LEMMA OfKindChanged ==
    ASSUME NEW counts \in Counts, NEW record \in Records, NEW kind \in Kinds, NEW more,
           DOMAIN more = Records, \A r \in Records : more[r] \in Int,
           \A r \in Records \ {record} : more[r] = counts[r]
    PROVE  OfKind(more, kind)
             = OfKind(counts, kind)
               + (IF record.kind = kind THEN more[record] - counts[record] ELSE 0)
<1> DEFINE f == PerKey(counts, kind)
           g == PerKey(more, kind)
           k == record.key
<1>1. /\ k \in Keys /\ IsFiniteSet(Keys)
      /\ \A q \in Keys : [key |-> q, kind |-> kind] \in Records
      /\ \A q \in Keys \ {k} : [key |-> q, kind |-> kind] # record
      /\ record = [key |-> k, kind |-> record.kind]
  BY ConfigAssumption DEF Records
<1>2. /\ \A q \in Keys : f[q] \in Int /\ g[q] \in Int
      /\ \A q \in Keys \ {k} : f[q] = g[q]
  BY <1>1 DEF PerKey, Counts
<1>3. g[k] - f[k] = IF record.kind = kind THEN more[record] - counts[record] ELSE 0
  <2>1. f[k] = counts[[key |-> k, kind |-> kind]] /\ g[k] = more[[key |-> k, kind |-> kind]]
    BY <1>1 DEF PerKey
  <2>2. CASE record.kind = kind
    BY <1>1, <2>1, <2>2
  <2>3. CASE record.kind # kind
    <3>1. [key |-> k, kind |-> kind] # record
      BY <2>3
    <3>2. f[k] = g[k]
      BY <1>1, <2>1, <3>1
    <3> QED BY <1>1, <1>2, <2>3, <3>2
  <2> QED BY <2>2, <2>3
<1> HIDE DEF f, g, k
<1>4. SumFunctionOnSet(g, Keys) = SumFunctionOnSet(f, Keys) + (g[k] - f[k])
  BY <1>1, <1>2, SumChanged
<1> QED BY <1>3, <1>4, SumsOverKeys DEF f, g

LEMMA OfKindMoved ==
    ASSUME NEW counts \in Counts, NEW record \in Records, NEW kind \in Kinds
    PROVE  /\ OfKind([counts EXCEPT ![record] = @ + 1], kind)
                = OfKind(counts, kind) + (IF record.kind = kind THEN 1 ELSE 0)
           /\ OfKind([counts EXCEPT ![record] = @ - 1], kind)
                = OfKind(counts, kind) - (IF record.kind = kind THEN 1 ELSE 0)
<1> DEFINE more == [counts EXCEPT ![record] = @ + 1]
           less == [counts EXCEPT ![record] = @ - 1]
<1>1. /\ DOMAIN more = Records /\ \A r \in Records : more[r] \in Int
      /\ \A r \in Records \ {record} : more[r] = counts[r]
      /\ more[record] - counts[record] = 1
  BY DEF Counts
<1>2. /\ DOMAIN less = Records /\ \A r \in Records : less[r] \in Int
      /\ \A r \in Records \ {record} : less[r] = counts[r]
      /\ less[record] - counts[record] = -1
  BY DEF Counts
<1>3. OfKind(counts, kind) \in Nat
  BY OfKindTyped
<1> HIDE DEF more, less
<1>4. OfKind(more, kind)
        = OfKind(counts, kind)
          + (IF record.kind = kind THEN more[record] - counts[record] ELSE 0)
  BY <1>1, OfKindChanged
<1>5. OfKind(less, kind)
        = OfKind(counts, kind)
          + (IF record.kind = kind THEN less[record] - counts[record] ELSE 0)
  BY <1>2, OfKindChanged
<1>6. OfKind(more, kind) = OfKind(counts, kind) + (IF record.kind = kind THEN 1 ELSE 0)
  BY <1>1, <1>4
<1>7. OfKind(less, kind) = OfKind(counts, kind) - (IF record.kind = kind THEN 1 ELSE 0)
  BY <1>2, <1>3, <1>5
<1> QED BY <1>6, <1>7 DEF more, less

LEMMA PrefixCounts ==
    ASSUME NEW batch \in Seq(Records), NEW kind \in Kinds
    PROVE  /\ BatchPrefix(batch, 0, kind) = 0
           /\ BatchPrefix(batch, Len(batch), kind) = BatchCount(batch, kind)
           /\ \A n \in 0 .. Len(batch) : BatchPrefix(batch, n, kind) \in Nat
           /\ \A n \in 0 .. (Len(batch) - 1) :
                 BatchPrefix(batch, n + 1, kind)
                   = BatchPrefix(batch, n, kind) + (IF batch[n + 1].kind = kind THEN 1 ELSE 0)
<1>1. Len(batch) \in Nat /\ DOMAIN batch = 1 .. Len(batch)
  OBVIOUS
<1>2. ASSUME NEW n \in Nat
      PROVE  IsFiniteSet({i \in 1 .. n : batch[i].kind = kind})
  <2>1. IsFiniteSet(1 .. n)
    BY FS_Interval
  <2> QED BY <2>1, FS_Subset
<1>3. \A n \in Nat : BatchPrefix(batch, n, kind) \in Nat
  BY <1>2, FS_CardinalityType DEF BatchPrefix
<1>4. ASSUME NEW n \in 0 .. (Len(batch) - 1)
      PROVE  BatchPrefix(batch, n + 1, kind)
               = BatchPrefix(batch, n, kind) + (IF batch[n + 1].kind = kind THEN 1 ELSE 0)
  <2> DEFINE S == {i \in 1 .. n : batch[i].kind = kind}
  <2>1. n \in Nat /\ n + 1 \notin S /\ IsFiniteSet(S)
    BY <1>1, <1>2
  <2>2. CASE batch[n + 1].kind = kind
    <3>1. {i \in 1 .. (n + 1) : batch[i].kind = kind} = S \cup {n + 1}
      BY <2>1, <2>2
    <3> QED BY <2>1, <2>2, <3>1, FS_AddElement DEF BatchPrefix
  <2>3. CASE batch[n + 1].kind # kind
    <3>1. {i \in 1 .. (n + 1) : batch[i].kind = kind} = S
      BY <2>1, <2>3
    <3>2. BatchPrefix(batch, n, kind) \in Nat
      BY <1>3, <2>1
    <3>3. BatchPrefix(batch, n + 1, kind) = BatchPrefix(batch, n, kind)
      BY <3>1 DEF BatchPrefix
    <3> QED BY <2>3, <3>2, <3>3
  <2> QED BY <2>2, <2>3
<1>5. BatchPrefix(batch, 0, kind) = 0
  <2>1. {i \in 1 .. 0 : batch[i].kind = kind} = {}
    OBVIOUS
  <2> QED BY <2>1, FS_EmptySet DEF BatchPrefix
<1>6. BatchPrefix(batch, Len(batch), kind) = BatchCount(batch, kind)
  BY <1>1 DEF BatchPrefix, BatchCount
<1> QED BY <1>1, <1>3, <1>4, <1>5, <1>6

LEMMA PhaseProduced ==
    ASSUME NEW batch \in Seq(Records), NEW kind \in Kinds
    PROVE  /\ BatchCount(batch, kind) \in Nat /\ Produced(batch, 0, kind) = 0
           /\ \A n \in Nat : /\ Produced(batch, n, kind) \in Nat
                             /\ Produced(batch, n + 1, kind) = Produced(batch, n, kind) + BatchCount(batch, kind)
<1>1. BatchCount(batch, kind) \in Nat
  <2>1. Len(batch) \in 0 .. Len(batch)
    BY ConfigAssumption
  <2> QED BY <2>1, PrefixCounts
<1> QED BY <1>1 DEF Produced

(* What has been handed to the producer, by stage.                         *)
LEMMA HandedTyped ==
    ASSUME PhaseInv, NEW kind \in Kinds PROVE Handed(kind) \in Nat
<1>1. phases \in Nat /\ index \in 0 .. Len(Batch) /\ Batch \in Seq(Records)
  BY TrafficTyped DEF PhaseInv
<1>2. /\ Produced(Batch, phases, kind) \in Nat /\ BatchCount(Batch, kind) \in Nat
      /\ BatchPrefix(Batch, index, kind) \in Nat
  BY <1>1, PhaseProduced, PrefixCounts
<1> QED BY <1>2 DEF Handed

LEMMA InitTraffic == Init => TrafficInv
  BY DEF Init, TrafficInv, Controlled, Setup, Measuring

(* Neither the producer nor the broker moves a record.                     *)
LEMMA TrafficUntouched ==
    ASSUME TrafficInv, UNCHANGED <<Controlled, buffered, topic>>,
           Controlled /\ pc' \in Setup =>
              /\ pc \in Setup
              /\ pc' \in {"reset", "seed", "before"} => pc \in {"reset", "seed", "before"},
           Controlled /\ pc' \in Measuring \cup {"final"} =>
              /\ pc \in Measuring \cup {"final"}
              /\ pc' \notin {"publish", "flush"} => pc \notin {"publish", "flush"}
              /\ \A kind \in Kinds : Handed(kind)' = Handed(kind)
    PROVE  TrafficInv'
  BY DEF TrafficInv, Setup, Measuring

LEMMA StepTraffic == PhaseInv /\ StoreTypes /\ TrafficInv /\ Next => TrafficInv'
<1> SUFFICES ASSUME PhaseInv, StoreTypes, TrafficInv, Next, Controlled PROVE TrafficInv'
  BY OptionsKept DEF TrafficInv
<1>k. UNCHANGED <<Controlled, Phases, Batch>>
  BY OptionsKept
<1>b. Batch \in Seq(Records) /\ Len(Batch) \in Nat /\ phases \in Nat
  BY TrafficTyped DEF PhaseInv
<1>h. \A kind \in Kinds :
         /\ Handed(kind) \in Nat /\ Produced(Batch, 0, kind) = 0 /\ BatchCount(Batch, kind) \in Nat
         /\ Produced(Batch, phases, kind) \in Nat
         /\ Produced(Batch, phases + 1, kind) = Produced(Batch, phases, kind) + BatchCount(Batch, kind)
         /\ OfKind(topic, kind) \in Nat /\ OfKind(buffered, kind) \in Nat
         /\ OfKind(NoRecords, kind) = 0
  <2>1. topic \in Counts /\ buffered \in Counts
    BY DEF StoreTypes
  <2> QED BY <1>b, <2>1, HandedTyped, PhaseProduced, OfKindTyped, OfKindNone
<1> USE <1>k DEF Setup, Measuring, options, position, stopping, result, environment, kafka
<1>1. CASE CleanTopics
  <2>1. topic' = NoRecords
    BY <1>1 DEF CleanTopics, Controlled
  <2> QED BY <1>1, <2>1 DEF CleanTopics, TrafficInv
<1>s. CASE BeginScan \/ \E k \in Keys : ReadBucket(k)
  <2>1. UNCHANGED <<pc, phases, index, buffered, topic>>
    BY <1>s DEF BeginScan, ReadBucket
  <2>2. \A kind \in Kinds : Handed(kind)' = Handed(kind)
    BY <2>1 DEF Handed
  <2> QED BY <2>1, <2>2, TrafficUntouched
<1>2. CASE ResetValues \/ SeedValues
  BY <1>2, TrafficUntouched DEF ResetValues, SeedValues
<1>3. CASE BeforeSnapshot
  <2>1. /\ pc = "before" /\ pc' \in {"phase", "start"} /\ buffered = NoRecords
        /\ topic = NoRecords /\ phases = 0 /\ UNCHANGED <<buffered, topic, phases>>
    BY <1>3 DEF BeforeSnapshot, TrafficInv, PhaseInv
  <2>2. \A kind \in Kinds : Handed(kind)' = 0
    BY <1>h, <2>1 DEF Handed
  <2> QED BY <1>h, <2>1, <2>2 DEF TrafficInv
<1>4. CASE StartProcessor \/ AllStarted \/ CheckStarted \/ Settle
  <2>1. /\ UNCHANGED <<phases, index, buffered, topic>>
        /\ pc \in {"start", "started", "warm", "settle"}
        /\ pc' \in {"start", "started", "warm", "settle", "phase", "final", "failed"}
    BY <1>4 DEF StartProcessor, AllStarted, CheckStarted, Settle, ContinueIfHealthy
  <2>2. \A kind \in Kinds : Handed(kind)' = Handed(kind)
    BY <1>h, <2>1 DEF Handed
  <2> QED BY <2>1, <2>2, TrafficUntouched
<1>5. CASE BeginPhase
  <2>1. /\ pc = "phase" /\ pc' \in {"publish", "failed"} /\ index' = 0
        /\ buffered = NoRecords /\ UNCHANGED <<phases, buffered, topic>>
    BY <1>5 DEF BeginPhase, ContinueIfHealthy, TrafficInv, Controlled
  <2>2. \A kind \in Kinds : pc' = "publish" => Handed(kind)' = Handed(kind)
    BY <1>h, <2>1, <1>b, PrefixCounts DEF Handed
  <2> QED BY <2>1, <2>2 DEF TrafficInv
<1>6. CASE Publish
  <2>1. /\ pc = "publish" /\ index \in 0 .. (Len(Batch) - 1) /\ Len(Batch) \in Nat
        /\ index' = index + 1
        /\ pc' = IF index + 1 = Len(Batch) THEN "flush" ELSE "publish"
        /\ buffered' = [buffered EXCEPT ![Batch[index + 1]] = @ + 1]
        /\ UNCHANGED <<phases, topic>>
    BY <1>6, <1>b DEF Publish, PhaseInv
  <2>2. \A kind \in Kinds :
           OfKind(buffered', kind)
             = OfKind(buffered, kind) + (IF Batch[index + 1].kind = kind THEN 1 ELSE 0)
    <3>1. Batch[index + 1] \in Records /\ buffered \in Counts
      BY <1>b, <2>1 DEF StoreTypes
    <3> QED BY <2>1, <3>1, OfKindMoved
  <2>3. \A kind \in Kinds :
           Handed(kind)' = Handed(kind) + (IF Batch[index + 1].kind = kind THEN 1 ELSE 0)
    <3> SUFFICES ASSUME NEW kind \in Kinds
                 PROVE  Handed(kind)'
                          = Handed(kind) + (IF Batch[index + 1].kind = kind THEN 1 ELSE 0)
      OBVIOUS
    <3> DEFINE one == IF Batch[index + 1].kind = kind THEN 1 ELSE 0
    <3>1. /\ BatchPrefix(Batch, index + 1, kind) = BatchPrefix(Batch, index, kind) + one
          /\ BatchPrefix(Batch, index, kind) \in Nat /\ one \in Nat
      BY <2>1, <1>b, PrefixCounts
    <3>2. Handed(kind) = Produced(Batch, phases, kind) + BatchPrefix(Batch, index, kind)
      BY <2>1 DEF Handed
    <3>3. Handed(kind)' = Produced(Batch, phases, kind) + BatchPrefix(Batch, index + 1, kind)
      BY <2>1, <1>b, PrefixCounts DEF Handed
    <3> HIDE DEF one
    <3>4. Handed(kind)' = Handed(kind) + one
      BY <1>h, <3>1, <3>2, <3>3
    <3> QED BY <3>4 DEF one
  <2>4. ASSUME NEW kind \in Kinds
        PROVE  OfKind(topic, kind) + OfKind(buffered', kind) <= Handed(kind)'
    <3> DEFINE one == IF Batch[index + 1].kind = kind THEN 1 ELSE 0
    <3>1. /\ OfKind(buffered', kind) = OfKind(buffered, kind) + one
          /\ Handed(kind)' = Handed(kind) + one /\ one \in Nat
      BY <2>2, <2>3
    <3>2. OfKind(topic, kind) + OfKind(buffered, kind) <= Handed(kind)
      BY <2>1 DEF TrafficInv
    <3> HIDE DEF one
    <3> QED BY <1>h, <3>1, <3>2
  <2> QED BY <2>1, <2>4 DEF TrafficInv
<1>7. CASE FinishPhase
  <2>1. /\ pc = "flush" /\ pc' \in {"phase", "start", "settle"} /\ buffered = NoRecords
        /\ phases' = phases + 1 /\ UNCHANGED <<buffered, topic>>
    BY <1>7 DEF FinishPhase
  <2>2. \A kind \in Kinds : Handed(kind)' = Handed(kind)
    BY <1>h, <2>1 DEF Handed
  <2> QED BY <2>1, <2>2 DEF TrafficInv
<1>8. CASE FinalSnapshot \/ FailureSnapshot \/ StopProcessor \/ ProcessorStopped
           \/ KillProcessor \/ AllStopped
  BY <1>8, TrafficUntouched DEF FinalSnapshot, FailureSnapshot, StopProcessor,
     ProcessorStopped, KillProcessor, AllStopped, AfterMeasuring
<1>9. CASE WriteArtifact \/ InsertResult \/ RewriteArtifact \/ GiveUp
  BY <1>9, TrafficUntouched DEF WriteArtifact, InsertResult, RewriteArtifact, GiveUp,
     StopRaises, Raise
<1>10. ASSUME NEW record \in Records, Deliver(record) \/ LoseRecord(record) PROVE TrafficInv'
  <2>1. /\ UNCHANGED <<pc, phases, index>> /\ buffered[record] > 0
        /\ buffered' = [buffered EXCEPT ![record] = @ - 1]
        /\ topic' = topic \/ topic' = [topic EXCEPT ![record] = @ + 1]
        /\ buffered \in Counts /\ topic \in Counts
    BY <1>10 DEF Deliver, LoseRecord, runner, StoreTypes
  <2>2. buffered # NoRecords
    BY <2>1, NothingCounted
  <2>3. ASSUME NEW kind \in Kinds
        PROVE  /\ OfKind(topic', kind) + OfKind(buffered', kind)
                     <= OfKind(topic, kind) + OfKind(buffered, kind)
               /\ OfKind(topic', kind) \in Nat /\ OfKind(buffered', kind) \in Nat
    <3> DEFINE one == IF record.kind = kind THEN 1 ELSE 0
    <3>1. /\ OfKind(buffered', kind) = OfKind(buffered, kind) - one
          /\ \/ OfKind(topic', kind) = OfKind(topic, kind)
             \/ OfKind(topic', kind) = OfKind(topic, kind) + one
      <4>1. OfKind(buffered', kind) = OfKind(buffered, kind) - one
        BY <2>1, OfKindMoved
      <4>2. CASE topic' = topic
        BY <4>1, <4>2
      <4>3. CASE topic' = [topic EXCEPT ![record] = @ + 1]
        <5>1. OfKind(topic', kind) = OfKind(topic, kind) + one
          BY <2>1, <4>3, OfKindMoved
        <5> QED BY <4>1, <5>1
      <4> QED BY <2>1, <4>2, <4>3
    <3>2. buffered' \in Counts /\ topic' \in Counts
      BY <2>1, RecordMoved
    <3>3. OfKind(topic', kind) \in Nat /\ OfKind(buffered', kind) \in Nat
      BY <3>2, OfKindTyped
    <3>4. one \in Nat
      OBVIOUS
    <3> HIDE DEF one
    <3> QED BY <1>h, <3>1, <3>3, <3>4
  <2>4. \A kind \in Kinds : Handed(kind)' = Handed(kind)
    BY <2>1 DEF Handed
  <2>5. ASSUME pc \in Measuring \cup {"final"}, NEW kind \in Kinds
        PROVE  OfKind(topic', kind) + OfKind(buffered', kind) <= Handed(kind)'
    <3>1. OfKind(topic, kind) + OfKind(buffered, kind) <= Handed(kind)
      BY <2>5 DEF TrafficInv
    <3> QED BY <1>h, <2>3, <2>4, <3>1
  <2> QED BY <2>1, <2>2, <2>5 DEF TrafficInv
<1>11. CASE Processes
  BY <1>11, TrafficUntouched DEF Processes, ProcessorRuns, ProcessorExits, Consume,
     PublishBucket, CompleteCheckpoint, RestoreJob, InsertModel, runner, Handed
<1> QED BY <1>1, <1>2, <1>3, <1>4, <1>5, <1>6, <1>7, <1>8, <1>9, <1>10, <1>11,
           <1>s DEF Next, Run, Broker

-----------------------------------------------------------------------------
(* What every copy of a bucket holds at most                               *)

LEMMA CoveredTyped ==
    ASSUME StoreTypes, NEW base \in Counts, NEW r \in Records
    PROVE  /\ base[r] \in Nat /\ topic[r] \in Nat /\ consumed[r] \in Nat
           /\ recounted[r] \in Nat /\ consumed[r] <= topic[r]
           /\ r.key \in Keys /\ r.kind \in Kinds
           /\ Counted(r) \in Nat /\ InRedis(r) \in Nat
           /\ InCheckpoint(r) => /\ checkpoint.consumed[r] \in Nat
                                 /\ checkpoint.consumed[r] <= topic[r]
                                 /\ Total(checkpoint.counted[r.key], r.kind) \in Nat
<1>1. /\ base[r] \in Nat /\ topic[r] \in Nat /\ consumed[r] \in Nat
      /\ recounted[r] \in Nat /\ consumed[r] <= topic[r]
      /\ r.key \in Keys /\ r.kind \in Kinds
  BY DEF StoreTypes, Counts, Records
<1>2. counted[r.key] \in Bucket /\ Job!Seen(r.key) \in Bucket
  BY <1>1, StoreFacts
<1>3. Counted(r) \in Nat /\ InRedis(r) \in Nat
  BY <1>1, <1>2, TotalsTyped DEF Counted, InRedis
<1>4. InCheckpoint(r) => /\ checkpoint.consumed[r] \in Nat
                         /\ checkpoint.consumed[r] <= topic[r]
                         /\ checkpoint.counted[r.key] \in Bucket
  BY <1>1 DEF InCheckpoint, StoreTypes, Checkpoint, Counts
<1> QED BY <1>1, <1>3, <1>4, TotalsTyped

LEMMA CopiesKept ==
    ASSUME NEW r \in Records
    PROVE  /\ UNCHANGED counted => Counted(r)' = Counted(r)
           /\ UNCHANGED published => InRedis(r)' = InRedis(r)
           /\ UNCHANGED checkpoint => InCheckpoint(r)' = InCheckpoint(r)
<1>1. r.key \in Keys
  BY DEF Records
<1> QED BY <1>1, SeenKept DEF Counted, InRedis, InCheckpoint, Total

LEMMA CoveredKept ==
    ASSUME NEW base \in Counts, NEW r \in Records, Covered(base, r),
           UNCHANGED <<counted, published, checkpoint, topic, consumed, recounted>>,
           process'[Realtime] = process[Realtime], scan' = scan \/ scan' = None
    PROVE  Covered(base, r)'
  BY CopiesKept DEF Covered, Total

LEMMA ScanCovered ==
    ASSUME NEW base \in Counts, NEW r \in Records, Covered(base, r), StoreTypes,
           BeginScan \/ \E k \in Keys : ReadBucket(k)
    PROVE  Covered(base, r)'
<1>1. UNCHANGED <<counted, published, checkpoint, topic, consumed, recounted, process>>
  BY DEF BeginScan, ReadBucket, environment, kafka, job, keyedState, restarts
<1>2. r.key \in Keys
  BY DEF Records
<1>3. /\ InRedis(r)' = InRedis(r) /\ Counted(r)' = Counted(r)
      /\ InCheckpoint(r)' = InCheckpoint(r)
  BY <1>1, CopiesKept
<1>4. \/ scan'.first[r.key] = None
      \/ scan # None /\ scan'.first[r.key] = scan.first[r.key]
      \/ scan'.first[r.key] = published[r.key] /\ published[r.key] # None
  <2>1. CASE BeginScan
    BY <1>2, <2>1 DEF BeginScan
  <2>2. ASSUME NEW k \in Keys, ReadBucket(k)
        PROVE  \/ scan # None /\ scan'.first[r.key] = scan.first[r.key]
               \/ scan'.first[r.key] = published[r.key] /\ published[r.key] # None
    <3>1. scan # None /\ scan \in Scans /\ published[k] # None
      BY <2>2 DEF ReadBucket, StoreTypes
    <3>2. CASE scan.first[k] = None
      <4>1. /\ scan' = [scan EXCEPT !.first[k] = published[k]]
            /\ DOMAIN scan.first = Keys
        BY <2>2, <3>1, <3>2 DEF ReadBucket, Scans, Buckets
      <4>2. scan'.first = [scan.first EXCEPT ![k] = published[k]]
        BY <3>1, <4>1 DEF Scans
      <4> QED BY <1>2, <3>1, <4>1, <4>2
    <3>3. CASE scan.first[k] # None
      <4>1. scan'.first = scan.first
        BY <2>2, <3>1, <3>3 DEF ReadBucket, Scans
      <4> QED BY <3>1, <4>1
    <3> QED BY <3>2, <3>3
  <2> QED BY <2>1, <2>2
<1>5. scan' # None /\ scan'.first[r.key] # None =>
         Total(scan'.first[r.key], r.kind) <= base[r] + topic[r] + recounted[r]
  <2>1. published[r.key] # None => InRedis(r) = Total(published[r.key], r.kind)
    BY <1>2, StoreFacts DEF InRedis
  <2> QED BY <1>4, <2>1 DEF Covered
<1> QED BY <1>1, <1>3, <1>5 DEF Covered, Total

LEMMA StartCovered ==
    ASSUME NEW base \in Counts, NEW r \in Records, Covered(base, r), ManagedInv,
           StoreTypes, StartProcessor
    PROVE  Covered(base, r)'
<1>1. /\ UNCHANGED <<counted, published, checkpoint, topic, consumed, recounted, scan>>
  BY DEF StartProcessor, kafka, job, keyedState, restarts
<1>2. PICK i \in DOMAIN StartOrder :
        /\ StartOrder[i] \in definition.enabled \ started
        /\ process' = [process EXCEPT ![StartOrder[i]] = "starting"]
  BY DEF StartProcessor, ToStart
<1>3. process'[Realtime] = process[Realtime]
      \/ (process[Realtime] = "none" /\ process'[Realtime] = "starting")
  BY <1>2 DEF ManagedInv
<1> QED BY <1>1, <1>3, CopiesKept, CoveredTyped DEF Covered, Total

LEMMA BrokerCovered ==
    ASSUME NEW base \in Counts, NEW r \in Records, Covered(base, r), StoreTypes, Broker
    PROVE  Covered(base, r)'
<1>1. PICK record \in Records : Deliver(record) \/ LoseRecord(record)
  BY DEF Broker
<1>2. UNCHANGED <<counted, published, checkpoint, consumed, recounted, process, scan>>
  BY <1>1 DEF Deliver, LoseRecord, runner, job, keyedState, restarts
<1>3. topic' = topic \/ topic' = [topic EXCEPT ![record] = @ + 1]
  BY <1>1 DEF Deliver, LoseRecord
<1>4. topic[r] <= topic'[r] /\ topic'[r] \in Nat
  BY <1>3, RecordMoved DEF StoreTypes, Counts
<1>5. /\ InRedis(r)' = InRedis(r) /\ Counted(r)' = Counted(r)
      /\ InCheckpoint(r)' = InCheckpoint(r)
  BY <1>2, CopiesKept
<1>6. /\ base[r] \in Nat /\ topic[r] \in Nat /\ recounted[r] \in Nat
      /\ InRedis(r) \in Nat
  BY CoveredTyped
<1>7. base[r] + topic[r] + recounted[r] <= base[r] + topic'[r] + recounted[r]
  BY <1>4, <1>6
<1>8. InRedis(r) <= base[r] + topic'[r] + recounted[r]
  BY <1>4, <1>6, <1>7 DEF Covered
<1>9. scan # None /\ scan.first[r.key] # None =>
         Total(scan.first[r.key], r.kind) <= base[r] + topic'[r] + recounted[r]
  <2> SUFFICES ASSUME scan # None, scan.first[r.key] # None
               PROVE  Total(scan.first[r.key], r.kind) <= base[r] + topic'[r] + recounted[r]
    OBVIOUS
  <2>1. r.key \in Keys /\ r.kind \in Kinds /\ scan \in Scans
    BY DEF StoreTypes, Records
  <2>2. scan.first[r.key] \in Bucket
    BY <2>1 DEF Scans, Buckets
  <2>3. Total(scan.first[r.key], r.kind) \in Nat
    BY <2>1, <2>2, TotalsTyped
  <2>4. Total(scan.first[r.key], r.kind) <= base[r] + topic[r] + recounted[r]
    BY DEF Covered
  <2> QED BY <1>4, <1>6, <2>3, <2>4
<1> QED BY <1>2, <1>5, <1>8, <1>9 DEF Covered, Total

LEMMA RunsCovered ==
    ASSUME NEW base \in Counts, NEW r \in Records, Covered(base, r), StoreTypes,
           ManagedInv, NEW p \in Processors, ProcessorRuns(p)
    PROVE  Covered(base, r)'
<1>1. /\ UNCHANGED <<counted, published, checkpoint, topic, recounted, scan>>
      /\ process[p] = "starting" /\ process' = [process EXCEPT ![p] = "running"]
      /\ p # Realtime => consumed' = consumed
      /\ consumed' \in {consumed, NoRecords, topic}
  BY DEF ProcessorRuns, runner, kafka, keyedState, restarts, StartingOffsets, Realtime
<1>2. CASE p # Realtime
  BY <1>1, <1>2, CoveredKept DEF ManagedInv
<1>3. CASE p = Realtime
  <2>1. process[Realtime] = "starting" /\ process'[Realtime] = "running"
    BY <1>1, <1>3 DEF ManagedInv
  <2>2. ~InCheckpoint(r)
    BY <2>1 DEF InCheckpoint, StoreTypes
  <2>3. consumed'[r] \in Nat
    BY <1>1, CoveredTyped, NothingCounted
  <2>4. Counted(r) <= base[r] /\ InRedis(r) <= base[r]
    BY <2>1 DEF Covered
  <2>5. /\ Counted(r) <= base[r] + consumed'[r] + recounted[r]
        /\ InRedis(r) <= base[r] + consumed'[r] + recounted[r]
    BY <2>3, <2>4, CoveredTyped
  <2> QED BY <1>1, <2>1, <2>2, <2>5, CopiesKept DEF Covered, Total
<1> QED BY <1>2, <1>3

LEMMA ExitCovered ==
    ASSUME NEW base \in Counts, NEW r \in Records, Covered(base, r), StoreTypes,
           ManagedInv, NEW p \in Processors, ProcessorExits(p)
    PROVE  Covered(base, r)'
<1>1. /\ UNCHANGED <<published, consumed, topic, recounted, scan>>
      /\ process' = [process EXCEPT ![p] = "exited"]
  BY DEF ProcessorExits, LoseKeyedState, runner, kafka, job, restarts
<1>2. CASE p # Realtime
  BY <1>1, <1>2, CoveredKept
  DEF ProcessorExits, ManagedInv, Realtime, job, keyedState
<1>3. CASE p = Realtime
  <2>1. process'[Realtime] = "exited" /\ checkpoint' = None
    BY <1>1, <1>3 DEF ManagedInv, ProcessorExits, LoseKeyedState, Realtime
  <2>2. InRedis(r)' = InRedis(r)
    BY <1>1, CopiesKept
  <2> QED BY <1>1, <2>1, <2>2 DEF Covered, InCheckpoint, Total
<1> QED BY <1>2, <1>3

(* A record handled: counted once in its bucket, or a dead letter.         *)
LEMMA Handled ==
    ASSUME NEW r \in Records, NEW record \in Records, StoreTypes, Consume(record)
    PROVE  /\ Counted(r)' \in Nat
           /\ r = record => Counted(r)' <= Counted(r) + 1
           /\ r # record => Counted(r)' = Counted(r)
           /\ InRedis(r)' = InRedis(r) \/ InRedis(r)' = Counted(r)'
<1>1. record.key \in Keys /\ record.kind \in Kinds /\ r.key \in Keys /\ r.kind \in Kinds
  BY DEF Records
<1>2. CASE UNCHANGED <<counted, published>>
  <2>1. Counted(r)' = Counted(r) /\ InRedis(r)' = InRedis(r)
    BY <1>2, CopiesKept
  <2>2. Counted(r) \in Nat
    BY <1>1, StoreFacts, TotalsTyped DEF Counted
  <2> QED BY <2>1, <2>2
<1>3. CASE Job!Count(record.key) /\ Counted(record)' = Counted(record) + 1
  <2>1. /\ counted' \in [Keys -> Bucket]
        /\ \A q \in Keys \ {record.key} : counted'[q] = counted[q]
    BY <1>1, <1>3, BucketCounted
  <2>2. PICK kind \in Kinds :
          /\ Total(counted'[record.key], kind) = Total(counted[record.key], kind) + 1
          /\ \A other \in Kinds \ {kind} :
                Total(counted'[record.key], other) = Total(counted[record.key], other)
    BY <1>1, <1>3, BucketCounted
  <2>3. \A k \in Kinds : Total(counted[record.key], k) \in Nat
    BY <1>1, StoreFacts, TotalsTyped
  <2>4. Total(counted'[record.key], record.kind) = Total(counted[record.key], record.kind) + 1
    BY <1>3 DEF Counted, Total
  <2>5. kind = record.kind
    BY <1>1, <2>2, <2>3, <2>4
  <2>6. r # record => r.key # record.key \/ r.kind # record.kind
    BY DEF Records
  <2>7. Total(counted'[r.key], r.kind) \in Nat
    BY <1>1, <2>1, TotalsTyped
  <2>8. r # record => Total(counted'[r.key], r.kind) = Total(counted[r.key], r.kind)
    BY <1>1, <2>1, <2>2, <2>5, <2>6
  <2>9. /\ Counted(r)' = Total(counted'[r.key], r.kind)
        /\ Counted(r) = Total(counted[r.key], r.kind)
    BY DEF Counted, Total
  <2>10. Counted(record) \in Nat
    BY <2>3, <1>1 DEF Counted
  <2>11. InRedis(r)' = InRedis(r) \/ InRedis(r)' = Counted(r)'
    <3>1. CASE UNCHANGED published
      BY <3>1, CopiesKept
    <3>2. CASE Job!CountAndPublish(record.key)
      <4>1. published' = [published EXCEPT ![record.key] = counted'[record.key]]
        BY <3>2 DEF Job!CountAndPublish
      <4>2. CASE r.key = record.key
        <5>1. published'[r.key] = counted'[r.key] /\ counted'[r.key] # None
          BY <1>1, <2>1, <4>1, <4>2, ConfigAssumption DEF StoreTypes, Buckets
        <5>2. Job!Seen(r.key)' = counted'[r.key]
          BY <5>1 DEF Job!Seen
        <5> QED BY <5>2, <2>9 DEF InRedis, Total
      <4>3. CASE r.key # record.key
        <5>1. published'[r.key] = published[r.key]
          BY <1>1, <4>1, <4>3 DEF StoreTypes, Buckets
        <5>2. Job!Seen(r.key)' = Job!Seen(r.key)
          BY <5>1 DEF Job!Seen, Job!Empty
        <5> QED BY <5>2 DEF InRedis, Total
      <4> QED BY <4>2, <4>3
    <3> QED BY <3>1, <3>2, <1>2 DEF Consume, Job!CountOnly
  <2>12. r = record => Counted(r)' <= Counted(r) + 1
    BY <1>3, <2>10
  <2> QED BY <2>7, <2>8, <2>9, <2>11, <2>12
<1> QED BY <1>2, <1>3 DEF Consume, Job!CountOnly, Job!CountAndPublish

LEMMA ConsumeCovered ==
    ASSUME NEW base \in Counts, NEW r \in Records, Covered(base, r), StoreTypes,
           NEW record \in Records, Consume(record)
    PROVE  Covered(base, r)'
<1>1. /\ UNCHANGED <<topic, recounted, scan, process, checkpoint>>
      /\ process[Realtime] = "running"
      /\ consumed[record] < topic[record]
      /\ consumed' = [consumed EXCEPT ![record] = @ + 1]
  BY DEF Consume, runner, kafka, restarts, Realtime
<1>2. /\ consumed'[r] \in Nat /\ consumed[r] <= consumed'[r] /\ consumed'[r] <= topic[r]
      /\ r = record => consumed'[r] = consumed[r] + 1
      /\ r # record => consumed'[r] = consumed[r]
  BY <1>1, CoveredTyped, RecordMoved DEF StoreTypes, Counts
<1>3. /\ Counted(r)' \in Nat
      /\ r = record => Counted(r)' <= Counted(r) + 1
      /\ r # record => Counted(r)' = Counted(r)
      /\ InRedis(r)' = InRedis(r) \/ InRedis(r)' = Counted(r)'
  BY Handled
<1>4. Counted(r) <= base[r] + consumed[r] + recounted[r]
  BY <1>1 DEF Covered
<1>5. Counted(r)' <= base[r] + consumed'[r] + recounted[r]
  <2>1. CASE r = record
    <3>1. Counted(r)' <= Counted(r) + 1 /\ consumed'[r] = consumed[r] + 1
      BY <1>2, <1>3, <2>1
    <3> QED BY <1>3, <1>4, <3>1, CoveredTyped
  <2>2. CASE r # record
    BY <1>2, <1>3, <1>4, <2>2
  <2> QED BY <2>1, <2>2
<1>6. /\ InRedis(r)' <= base[r] + topic[r] + recounted[r]
      /\ InCheckpoint(r) \/ InRedis(r)' <= base[r] + consumed'[r] + recounted[r]
  <2>1. CASE InRedis(r)' = Counted(r)'
    BY <1>2, <1>3, <1>5, <2>1, CoveredTyped
  <2>2. CASE InRedis(r)' = InRedis(r)
    <3>1. /\ InRedis(r) <= base[r] + topic[r] + recounted[r]
          /\ InCheckpoint(r) \/ InRedis(r) <= base[r] + consumed[r] + recounted[r]
      BY <1>1 DEF Covered
    <3> QED BY <1>2, <2>2, <3>1, CoveredTyped
  <2> QED BY <1>3, <2>1, <2>2
<1>7. InCheckpoint(r)' = InCheckpoint(r)
  BY <1>1, CopiesKept
<1> QED BY <1>1, <1>5, <1>6, <1>7 DEF Covered, Total

LEMMA PublishCovered ==
    ASSUME NEW base \in Counts, NEW r \in Records, Covered(base, r), StoreTypes,
           NEW k \in Keys, PublishBucket(k)
    PROVE  Covered(base, r)'
<1>1. /\ UNCHANGED <<topic, recounted, scan, process, checkpoint, consumed, counted>>
      /\ process[Realtime] = "running"
      /\ published' = [published EXCEPT ![k] = counted[k]]
  BY DEF PublishBucket, runner, kafka, restarts, Realtime
<1>2. InRedis(r)' = InRedis(r) \/ InRedis(r)' = Counted(r)
  <2>1. r.key \in Keys /\ counted[k] \in Bucket
    BY StoreFacts DEF Records
  <2>2. CASE r.key = k
    <3>1. published'[r.key] = counted[r.key] /\ counted[r.key] # None
      BY <1>1, <2>1, <2>2, ConfigAssumption DEF StoreTypes, Buckets
    <3>2. Job!Seen(r.key)' = counted[r.key]
      BY <3>1 DEF Job!Seen
    <3> QED BY <3>2 DEF InRedis, Counted, Total
  <2>3. CASE r.key # k
    <3>1. published'[r.key] = published[r.key]
      BY <1>1, <2>1, <2>3 DEF StoreTypes, Buckets
    <3>2. Job!Seen(r.key)' = Job!Seen(r.key)
      BY <3>1 DEF Job!Seen, Job!Empty
    <3> QED BY <3>2 DEF InRedis, Total
  <2> QED BY <2>2, <2>3
<1>3. Counted(r) <= base[r] + consumed[r] + recounted[r]
  BY <1>1 DEF Covered
<1>4. Counted(r) <= base[r] + topic[r] + recounted[r]
  BY <1>3, CoveredTyped
<1>5. InCheckpoint(r)' = InCheckpoint(r) /\ Counted(r)' = Counted(r)
  BY <1>1, CopiesKept
<1> QED BY <1>1, <1>2, <1>3, <1>4, <1>5 DEF Covered, Total

LEMMA CheckpointCovered ==
    ASSUME NEW base \in Counts, NEW r \in Records, Covered(base, r), StoreTypes,
           CompleteCheckpoint
    PROVE  Covered(base, r)'
<1>1. /\ UNCHANGED <<topic, recounted, scan, process, consumed, counted, published>>
      /\ process[Realtime] = "running"
      /\ checkpoint' = [counted |-> counted, loaded |-> loaded, dirty |-> dirty,
                        consumed |-> consumed]
  BY DEF CompleteCheckpoint, runner, kafka, restarts, Realtime
<1>2. InRedis(r)' = InRedis(r) /\ Counted(r)' = Counted(r)
  BY <1>1, CopiesKept
<1>3. InCheckpoint(r) => InCheckpoint(r)'
  <2>1. checkpoint # None => checkpoint.loaded \subseteq loaded
    BY DEF StoreTypes
  <2>2. checkpoint' \in Checkpoint /\ checkpoint'.loaded = loaded
    BY <1>1 DEF Checkpoint, StoreTypes
  <2>3. checkpoint' # None
    BY <2>2, ConfigAssumption
  <2> QED BY <2>1, <2>2, <2>3 DEF InCheckpoint
<1>4. /\ checkpoint'.consumed[r] = consumed[r]
      /\ Total(checkpoint'.counted[r.key], r.kind) = Counted(r)
  BY <1>1 DEF Counted, Total
<1> QED BY <1>1, <1>2, <1>3, <1>4 DEF Covered, Total

LEMMA RestoreCovered ==
    ASSUME NEW base \in Counts, NEW r \in Records, Covered(base, r), StoreTypes,
           PhaseInv, RestoreJob
    PROVE  Covered(base, r)'
<1>1. /\ UNCHANGED <<topic, scan, process, checkpoint, published>>
      /\ process[Realtime] = "running"
  BY DEF RestoreJob, runner, kafka, Realtime
<1>2. InRedis(r)' = InRedis(r) /\ InCheckpoint(r)' = InCheckpoint(r)
  BY <1>1, CopiesKept
<1>3. /\ consumed'[r] \in Nat /\ recounted'[r] \in Nat
      /\ recounted[r] <= recounted'[r]
      /\ r.key \notin loaded' =>
            consumed[r] + recounted[r] <= consumed'[r] + recounted'[r]
  BY Restored DEF Counts
<1>4. InCheckpoint(r) <=> r.key \in loaded'
  BY Restored DEF InCheckpoint
<1>5. InRedis(r) <= base[r] + topic[r] + recounted'[r]
  <2>1. InRedis(r) <= base[r] + topic[r] + recounted[r]
    BY DEF Covered
  <2> QED BY <2>1, <1>3, CoveredTyped
<1>6. scan # None /\ scan.first[r.key] # None =>
         Total(scan.first[r.key], r.kind) <= base[r] + topic[r] + recounted'[r]
  <2>1. r.key \in Keys /\ r.kind \in Kinds
    BY DEF Records
  <2>2. scan # None /\ scan.first[r.key] # None => Total(scan.first[r.key], r.kind) \in Nat
    BY <2>1, TotalsTyped DEF StoreTypes, Scans, Buckets
  <2> QED BY <1>3, <2>2, CoveredTyped DEF Covered
<1>7. CASE InCheckpoint(r)
  <2>1. consumed'[r] = checkpoint.consumed[r] /\ counted'[r.key] = checkpoint.counted[r.key]
    BY <1>4, <1>7, Restored DEF InCheckpoint
  <2>2. Counted(r)' = Total(checkpoint.counted[r.key], r.kind)
    BY <2>1 DEF Counted, Total
  <2>3. Total(checkpoint.counted[r.key], r.kind)
          <= base[r] + checkpoint.consumed[r] + recounted[r]
    BY <1>7 DEF Covered
  <2>4. Total(checkpoint.counted[r.key], r.kind)
          <= base[r] + checkpoint.consumed[r] + recounted'[r]
    BY <1>3, <1>7, <2>3, CoveredTyped
  <2> QED BY <1>1, <1>2, <1>5, <1>7, <1>6, <2>1, <2>2, <2>4 DEF Covered, Total
<1>8. CASE ~InCheckpoint(r)
  <2>1. counted'[r.key] = Job!Seen(r.key)
    BY <1>4, <1>8, Restored DEF Records
  <2>2. Counted(r)' = InRedis(r)
    BY <2>1 DEF Counted, InRedis, Total
  <2>3. InRedis(r) <= base[r] + consumed[r] + recounted[r]
    BY <1>1, <1>8 DEF Covered
  <2>4. InRedis(r) <= base[r] + consumed'[r] + recounted'[r]
    BY <1>3, <1>4, <1>8, <2>3, CoveredTyped
  <2> QED BY <1>1, <1>2, <1>5, <1>8, <1>6, <2>2, <2>4 DEF Covered, Total
<1> QED BY <1>7, <1>8

LEMMA SnapshotTotal ==
    \A kind \in Kinds :
        /\ Total(Snapshot, kind) = ScanTotal(kind)
        /\ Snapshot.twice[kind] = OfKind(recounted, kind) + scan.again[kind]
  BY TwoKinds DEF Total, Snapshot

(* The first snapshot has all there is in Redis, and the job nothing else. *)
LEMMA BeforeCovers ==
    ASSUME PhaseInv, ManagedInv, StoreTypes, JobInv, ScanInv, Controlled, BeforeSnapshot
    PROVE  \E base \in Counts :
              /\ \A kind \in Kinds : OfKind(base, kind) <= Total(before, kind)'
              /\ \A r \in Records : Covered(base, r)'
<1>1. /\ pc = "before" /\ scan # None /\ scan' = None /\ before' = Snapshot
      /\ \A k \in scan.due : scan.first[k] # None
      /\ UNCHANGED <<process, topic, consumed, counted, published, checkpoint, recounted>>
  BY DEF BeforeSnapshot, EndScan, environment, kafka, job, keyedState, restarts
<1>2. process[Realtime] = "none" /\ checkpoint = None
  BY <1>1, NoJobYet DEF Setup
<1>3. \A r \in Records : InRedis(r) \in Nat /\ topic[r] \in Nat /\ recounted[r] \in Nat
  <2>1. recounted \in Counts
    BY DEF StoreTypes
  <2> QED BY <2>1, CoveredTyped
<1>4. PICK base \in Counts : \A r \in Records : base[r] = InRedis(r)
  <2>1. [r \in Records |-> InRedis(r)] \in Counts
    BY <1>3 DEF Counts
  <2> QED BY <2>1
<1>5. ASSUME NEW r \in Records PROVE Covered(base, r)'
  <2>1. Counted(r) = InRedis(r)
    BY <1>2 DEF JobInv, Counted, InRedis, Records
  <2>2. Counted(r)' = base[r] /\ InRedis(r)' = base[r]
    BY <1>1, <1>4, <2>1, CopiesKept
  <2>3. base[r] <= base[r] + topic[r] + recounted[r]
    BY <1>3, <1>4
  <2>4. process'[Realtime] = "none" /\ ~InCheckpoint(r)'
    BY <1>1, <1>2 DEF InCheckpoint
  <2>5. base[r] <= base[r]
    BY <1>3, <1>4
  <2> QED BY <1>1, <2>2, <2>3, <2>4, <2>5 DEF Covered
<1>6. ASSUME NEW kind \in Kinds PROVE OfKind(base, kind) <= Total(before, kind)'
  <2>1. scan \in Scans
    BY <1>1 DEF StoreTypes
  <2>2. \A k \in Keys : FirstRead(kind)[k] = PerKey(base, kind)[k]
    <3> SUFFICES ASSUME NEW k \in Keys PROVE FirstRead(kind)[k] = PerKey(base, kind)[k]
      OBVIOUS
    <3>1. [key |-> k, kind |-> kind] \in Records
      BY DEF Records
    <3>2. PerKey(base, kind)[k] = Total(Job!Seen(k), kind)
      BY <1>4, <3>1 DEF PerKey, InRedis
    <3>3. FirstRead(kind)[k] = IF scan.first[k] = None THEN 0 ELSE Total(scan.first[k], kind)
      BY DEF FirstRead
    <3>4. /\ published[k] # None => k \in scan.due
          /\ scan.first[k] \in {None, published[k]}
      BY <1>1 DEF ScanInv
    <3>5. CASE published[k] = None
      <4>1. Job!Seen(k) = Job!Empty /\ scan.first[k] = None
        BY <3>4, <3>5, StoreFacts
      <4>2. Total(Job!Empty, kind) = 0
        BY TwoKinds DEF Total, Job!Empty
      <4> QED BY <3>2, <3>3, <4>1, <4>2
    <3>6. CASE published[k] # None
      <4>1. Job!Seen(k) = published[k] /\ scan.first[k] = published[k]
        BY <1>1, <3>4, <3>6, StoreFacts
      <4> QED BY <3>2, <3>3, <3>6, <4>1
    <3> QED BY <3>5, <3>6
  <2>3. SumFunctionOnSet(FirstRead(kind), Keys) = SumFunctionOnSet(PerKey(base, kind), Keys)
    BY <2>2, SumSame, ConfigAssumption
  <2>4. ScanTotal(kind) = OfKind(base, kind) + scan.again[kind]
    BY <2>3, SumsOverKeys
  <2>5. OfKind(base, kind) \in Nat /\ scan.again[kind] \in Nat
    BY <1>4, <2>1, OfKindTyped, FirstReadTyped
  <2>6. OfKind(base, kind) <= ScanTotal(kind)
    BY <2>4, <2>5
  <2>7. Total(before, kind)' = ScanTotal(kind)
    BY <1>1, SnapshotTotal DEF Total
  <2> QED BY <2>6, <2>7
<1> QED BY <1>4, <1>5, <1>6

LEMMA InitCounted == Init => CountedInv
  BY DEF Init, CountedInv, Measuring

LEMMA CountedKept ==
    ASSUME CountedInv, UNCHANGED <<Controlled, before>>,
           pc' \in Measuring \cup {"final"} => pc \in Measuring \cup {"final"},
           \A base \in Counts : \A r \in Records : Covered(base, r) => Covered(base, r)'
    PROVE  CountedInv'
<1> SUFFICES ASSUME Controlled, pc' \in Measuring \cup {"final"}
             PROVE  /\ before' \in Snapshots
                    /\ \E base \in Counts :
                          /\ \A kind \in Kinds : OfKind(base, kind) <= Total(before, kind)'
                          /\ \A r \in Records : Covered(base, r)'
  BY DEF CountedInv, Measuring
<1>1. before \in Snapshots
  BY DEF CountedInv
<1>2. PICK base \in Counts : /\ \A kind \in Kinds : OfKind(base, kind) <= Total(before, kind)
                             /\ \A r \in Records : Covered(base, r)
  BY DEF CountedInv
<1>3. \A kind \in Kinds : Total(before, kind)' = Total(before, kind)
  BY DEF Total
<1> QED BY <1>1, <1>2, <1>3

LEMMA CountedUntouched ==
    ASSUME CountedInv, UNCHANGED <<Controlled, before, counted, published, checkpoint,
                                   topic, consumed, recounted>>,
           process'[Realtime] = process[Realtime], scan' = scan \/ scan' = None,
           pc' \in Measuring \cup {"final"} => pc \in Measuring \cup {"final"}
    PROVE  CountedInv'
  BY CoveredKept, CountedKept

LEMMA StepCounted ==
    PhaseInv /\ ManagedInv /\ StoreTypes /\ JobInv /\ ScanInv /\ CountedInv /\ Next
        => CountedInv'
<1> SUFFICES ASSUME PhaseInv, ManagedInv, StoreTypes, JobInv, ScanInv, CountedInv, Next,
                    Controlled
             PROVE  CountedInv'
  BY OptionsKept DEF CountedInv
<1>k. UNCHANGED Controlled
  BY OptionsKept
<1> USE <1>k DEF Setup, Measuring, options, stopping, result, snapshots, environment,
        kafka, job, keyedState, restarts
<1>1. CASE CleanTopics \/ ResetValues \/ SeedValues
  BY <1>1 DEF CleanTopics, ResetValues, SeedValues, CountedInv
<1>2. CASE BeforeSnapshot
  <2>1. before' \in Snapshots
    BY <1>2, SnapshotTyped DEF BeforeSnapshot, EndScan
  <2>2. \E base \in Counts :
           /\ \A kind \in Kinds : OfKind(base, kind) <= Total(before, kind)'
           /\ \A r \in Records : Covered(base, r)'
    BY <1>2, BeforeCovers
  <2> HIDE DEF Setup, Measuring, options, stopping, result, snapshots, environment,
           kafka, job, keyedState, restarts
  <2> QED BY <2>1, <2>2 DEF CountedInv
<1>s. CASE BeginScan \/ \E k \in Keys : ReadBucket(k)
  <2>1. UNCHANGED <<pc, before>>
    BY <1>s DEF BeginScan, ReadBucket
  <2>2. \A base \in Counts : \A r \in Records : Covered(base, r) => Covered(base, r)'
    BY <1>s, ScanCovered
  <2> QED BY <2>1, <2>2, CountedKept
<1>3. CASE StartProcessor
  <2>1. UNCHANGED <<pc, before>>
    BY <1>3 DEF StartProcessor
  <2>2. \A base \in Counts : \A r \in Records : Covered(base, r) => Covered(base, r)'
    BY <1>3, StartCovered
  <2> QED BY <2>1, <2>2, CountedKept
<1>4. CASE AllStarted \/ CheckStarted \/ BeginPhase \/ Publish \/ FinishPhase \/ Settle
  BY <1>4, CountedUntouched DEF AllStarted, CheckStarted, BeginPhase, Publish, FinishPhase,
     Settle, ContinueIfHealthy
<1>5. CASE FinalSnapshot \/ FailureSnapshot \/ StopProcessor \/ ProcessorStopped
           \/ KillProcessor \/ AllStopped
  BY <1>5, CountedUntouched DEF FinalSnapshot, FailureSnapshot, EndScan, StopProcessor,
     ProcessorStopped, KillProcessor, AllStopped, AfterMeasuring
<1>6. CASE WriteArtifact \/ InsertResult \/ RewriteArtifact \/ GiveUp
  BY <1>6, CountedUntouched DEF WriteArtifact, InsertResult, RewriteArtifact, GiveUp,
     StopRaises, Raise
<1>7. CASE Broker
  <2>1. UNCHANGED <<pc, before>>
    BY <1>7 DEF Broker, Deliver, LoseRecord, runner
  <2>2. \A base \in Counts : \A r \in Records : Covered(base, r) => Covered(base, r)'
    BY <1>7, BrokerCovered
  <2> QED BY <2>1, <2>2, CountedKept
<1>8. ASSUME NEW p \in Processors, ProcessorRuns(p) \/ ProcessorExits(p) PROVE CountedInv'
  <2>1. UNCHANGED <<pc, before>>
    BY <1>8 DEF ProcessorRuns, ProcessorExits, runner
  <2>2. \A base \in Counts : \A r \in Records : Covered(base, r) => Covered(base, r)'
    BY <1>8, RunsCovered, ExitCovered
  <2> QED BY <2>1, <2>2, CountedKept
<1>9. ASSUME NEW record \in Records, Consume(record) PROVE CountedInv'
  <2>1. UNCHANGED <<pc, before>>
    BY <1>9 DEF Consume, runner
  <2>2. \A base \in Counts : \A r \in Records : Covered(base, r) => Covered(base, r)'
    BY <1>9, ConsumeCovered
  <2> QED BY <2>1, <2>2, CountedKept
<1>10. ASSUME NEW k \in Keys, PublishBucket(k) PROVE CountedInv'
  <2>1. UNCHANGED <<pc, before>>
    BY <1>10 DEF PublishBucket, runner
  <2>2. \A base \in Counts : \A r \in Records : Covered(base, r) => Covered(base, r)'
    BY <1>10, PublishCovered
  <2> QED BY <2>1, <2>2, CountedKept
<1>11. CASE CompleteCheckpoint \/ RestoreJob
  <2>1. UNCHANGED <<pc, before>>
    BY <1>11 DEF CompleteCheckpoint, RestoreJob, runner
  <2>2. \A base \in Counts : \A r \in Records : Covered(base, r) => Covered(base, r)'
    BY <1>11, CheckpointCovered, RestoreCovered
  <2> QED BY <2>1, <2>2, CountedKept
<1>12. CASE InsertModel
  BY <1>12, CountedUntouched DEF InsertModel, runner
<1> QED BY <1>1, <1>2, <1>3, <1>4, <1>5, <1>6, <1>7, <1>8, <1>9, <1>10, <1>11, <1>12,
           <1>s DEF Next, Run, Processes

-----------------------------------------------------------------------------
(* What the gates let pass                                                 *)

LEMMA InitDelivered == Init => DeliveredInv
  BY ConfigAssumption DEF Init, DeliveredInv

LEMMA DeliveredUntouched ==
    ASSUME DeliveredInv, UNCHANGED <<options, Phases, Batch, Controlled>>,
           UNCHANGED <<passed, buffered, topic, final>>,
           pc' \in Setup => pc \in Setup
    PROVE  DeliveredInv'
  BY DEF DeliveredInv, options, Setup

(* The scan has read no more than was there, and the topics, and what was  *)
(* counted again.                                                          *)
LEMMA ScanBounded ==
    ASSUME StoreTypes, scan # None, NEW base \in Counts, NEW kind \in Kinds,
           \A r \in Records : Covered(base, r)
    PROVE  SumFunctionOnSet(FirstRead(kind), Keys)
             <= OfKind(base, kind) + OfKind(topic, kind) + OfKind(recounted, kind)
<1> DEFINE b == PerKey(base, kind)
           t == PerKey(topic, kind)
           a == PerKey(recounted, kind)
           bt == [k \in Keys |-> b[k] + t[k]]
           bta == [k \in Keys |-> bt[k] + a[k]]
<1>1. topic \in Counts /\ recounted \in Counts /\ scan \in Scans /\ IsFiniteSet(Keys)
  BY ConfigAssumption DEF StoreTypes
<1>2. \A k \in Keys : b[k] \in Nat /\ t[k] \in Nat /\ a[k] \in Nat
  BY <1>1, OfKindTyped
<1>3. \A k \in Keys : FirstRead(kind)[k] \in Nat /\ FirstRead(kind)[k] <= b[k] + t[k] + a[k]
  <2> SUFFICES ASSUME NEW k \in Keys
               PROVE  FirstRead(kind)[k] \in Nat /\ FirstRead(kind)[k] <= b[k] + t[k] + a[k]
    OBVIOUS
  <2> DEFINE r == [key |-> k, kind |-> kind]
  <2>1. r \in Records /\ r.key = k /\ r.kind = kind
    BY DEF Records
  <2>2. b[k] = base[r] /\ t[k] = topic[r] /\ a[k] = recounted[r]
    BY DEF PerKey
  <2>3. FirstRead(kind)[k] = IF scan.first[k] = None THEN 0 ELSE Total(scan.first[k], kind)
    BY DEF FirstRead
  <2> HIDE DEF r
  <2>4. scan.first[k] # None => Total(scan.first[k], kind) <= base[r] + topic[r] + recounted[r]
    BY <2>1 DEF Covered
  <2>5. FirstRead(kind)[k] \in Nat
    BY <1>1, FirstReadTyped
  <2> HIDE DEF b, t, a
  <2> QED BY <1>2, <2>2, <2>3, <2>4, <2>5
<1> HIDE DEF b, t, a
<1>4. \A k \in Keys : /\ bt[k] \in Int /\ bt[k] = b[k] + t[k]
                      /\ bta[k] \in Int /\ bta[k] = bt[k] + a[k]
  BY <1>2
<1> HIDE DEF bt, bta
<1>5. SumFunctionOnSet(bt, Keys) = SumFunctionOnSet(b, Keys) + SumFunctionOnSet(t, Keys)
  BY <1>1, <1>2, <1>4, SumPlus
<1>6. SumFunctionOnSet(bta, Keys) = SumFunctionOnSet(bt, Keys) + SumFunctionOnSet(a, Keys)
  BY <1>1, <1>2, <1>4, SumPlus
<1>7. \A k \in Keys : /\ FirstRead(kind)[k] \in Int /\ bta[k] \in Int
                      /\ FirstRead(kind)[k] <= bta[k]
  BY <1>2, <1>3, <1>4
<1>8. SumFunctionOnSet(FirstRead(kind), Keys) <= SumFunctionOnSet(bta, Keys)
  BY <1>1, <1>7, SumMonotonic
<1>9. /\ OfKind(base, kind) = SumFunctionOnSet(b, Keys)
      /\ OfKind(topic, kind) = SumFunctionOnSet(t, Keys)
      /\ OfKind(recounted, kind) = SumFunctionOnSet(a, Keys)
  BY SumsOverKeys DEF b, t, a
<1> QED BY <1>5, <1>6, <1>8, <1>9

LEMMA Squeezed ==
    \A b, p, f, g, n, t, w : b \in Nat /\ p \in Nat /\ f \in Nat /\ g \in Nat /\ n \in Nat
        /\ t \in Nat /\ w \in Nat /\ f + g = b + p /\ f <= n + t + w /\ n <= b
        => p <= t + (w + g)
  OBVIOUS

LEMMA GatesMeanDelivered ==
    ASSUME PhaseInv, StoreTypes, TrafficInv, CountedInv, Controlled, FinalSnapshot,
           definition.matchImpressions, definition.matchClicks, passed' = TRUE,
           NEW kind \in Kinds
    PROVE  /\ OfKind(topic, kind) <= Produced(Batch, Phases, kind)
           /\ Produced(Batch, Phases, kind) <= OfKind(topic, kind) + final'.twice[kind]
<1>1. /\ pc = "final" /\ final' = Snapshot /\ Gates(final') /\ phases = Phases
      /\ scan # None
  BY DEF FinalSnapshot, EndScan, PhaseInv
<1>2. Total(final', kind) = Total(before, kind) + Produced(Batch, Phases, kind)
  BY <1>1, TwoKinds DEF Gates, Reported, Produced, Total
<1>3. /\ Total(final', kind) = SumFunctionOnSet(FirstRead(kind), Keys) + scan.again[kind]
      /\ final'.twice[kind] = OfKind(recounted, kind) + scan.again[kind]
  BY <1>1, SnapshotTotal, SumsOverKeys
<1>4. PICK base \in Counts :
        /\ OfKind(base, kind) <= Total(before, kind)
        /\ \A r \in Records : Covered(base, r)
  BY <1>1 DEF CountedInv
<1>5. SumFunctionOnSet(FirstRead(kind), Keys)
        <= OfKind(base, kind) + OfKind(topic, kind) + OfKind(recounted, kind)
  BY <1>1, <1>4, ScanBounded
<1>6. /\ OfKind(base, kind) \in Nat /\ OfKind(topic, kind) \in Nat
      /\ OfKind(recounted, kind) \in Nat /\ OfKind(buffered, kind) \in Nat
      /\ Total(before, kind) \in Nat /\ scan.again[kind] \in Nat
      /\ SumFunctionOnSet(FirstRead(kind), Keys) \in Nat
      /\ Produced(Batch, Phases, kind) \in Nat
  <2>1. /\ topic \in Counts /\ recounted \in Counts /\ buffered \in Counts
        /\ scan \in Scans /\ before \in Snapshots
    BY <1>1 DEF StoreTypes, CountedInv
  <2>2. Produced(Batch, Phases, kind) \in Nat
    BY PhaseProduced, TrafficTyped DEF PhaseInv
  <2>3. /\ OfKind(base, kind) \in Nat /\ OfKind(topic, kind) \in Nat
        /\ OfKind(recounted, kind) \in Nat /\ OfKind(buffered, kind) \in Nat
    BY <2>1, OfKindTyped
  <2>4. Total(before, kind) \in Nat
    BY <2>1, TotalsTyped
  <2>5. /\ scan.again[kind] \in Nat
        /\ SumFunctionOnSet(FirstRead(kind), Keys) \in Nat
    BY <2>1, FirstReadTyped
  <2> QED BY <2>2, <2>3, <2>4, <2>5
<1>7. OfKind(topic, kind) + OfKind(buffered, kind) <= Produced(Batch, Phases, kind)
  <2>1. Handed(kind) = Produced(Batch, Phases, kind)
    BY <1>1, <1>6 DEF Handed
  <2> QED BY <1>1, <2>1 DEF TrafficInv
<1>8. OfKind(topic, kind) <= Produced(Batch, Phases, kind)
  BY <1>6, <1>7
<1>9. Produced(Batch, Phases, kind)
        <= OfKind(topic, kind) + (OfKind(recounted, kind) + scan.again[kind])
  BY <1>2, <1>3, <1>4, <1>5, <1>6, Squeezed
<1> QED BY <1>3, <1>8, <1>9

LEMMA StepDelivered ==
    PhaseInv /\ ResultInv /\ StoreTypes /\ TrafficInv /\ CountedInv /\ DeliveredInv /\ Next
        => DeliveredInv'
<1> SUFFICES ASSUME PhaseInv, ResultInv, StoreTypes, TrafficInv, CountedInv, DeliveredInv,
                    Next
             PROVE  DeliveredInv'
  OBVIOUS
<1>k. UNCHANGED <<options, Phases, Batch, Controlled>>
  BY OptionsKept
<1>p. pc \in Setup \cup Measuring \cup {"final", "failed"} => passed # TRUE
  BY ConfigAssumption DEF ResultInv
<1> USE <1>k DEF Setup, position, stopping, result, snapshots, environment, kafka
<1>1. CASE CleanTopics \/ BeforeSnapshot \/ ResetValues \/ SeedValues
  BY <1>1, <1>p DEF CleanTopics, BeforeSnapshot, ResetValues, SeedValues, DeliveredInv
<1>s. CASE BeginScan \/ \E k \in Keys : ReadBucket(k)
  BY <1>s, DeliveredUntouched DEF BeginScan, ReadBucket
<1>2. CASE StartProcessor \/ AllStarted \/ CheckStarted \/ BeginPhase \/ FinishPhase \/ Settle
  BY <1>2, DeliveredUntouched DEF StartProcessor, AllStarted, CheckStarted, BeginPhase,
     FinishPhase, Settle, ContinueIfHealthy
<1>3. CASE Publish
  BY <1>3, <1>p DEF Publish, DeliveredInv, Measuring
<1>4. CASE FinalSnapshot
  <2>1. /\ UNCHANGED <<buffered, topic>> /\ pc = "final"
        /\ pc' \in {"artifact", "stop"}
    BY <1>4 DEF FinalSnapshot, AfterMeasuring
  <2>2. Controlled => buffered = NoRecords
    BY <2>1 DEF TrafficInv
  <2>3. ASSUME Controlled, definition.matchImpressions, definition.matchClicks,
               passed' = TRUE, NEW kind \in Kinds
        PROVE  /\ OfKind(topic', kind) <= Produced(Batch, Phases, kind)
               /\ Produced(Batch, Phases, kind) <= OfKind(topic', kind) + final'.twice[kind]
    BY <1>4, <2>1, <2>3, GatesMeanDelivered
  <2> QED BY <2>1, <2>2, <2>3 DEF DeliveredInv, options
<1>5. CASE FailureSnapshot
  BY <1>5 DEF FailureSnapshot, DeliveredInv
<1>6. CASE StopProcessor \/ ProcessorStopped \/ KillProcessor \/ AllStopped
  BY <1>6, DeliveredUntouched DEF StopProcessor, ProcessorStopped, KillProcessor, AllStopped
<1>7. CASE WriteArtifact \/ InsertResult \/ RewriteArtifact \/ GiveUp
  BY <1>7, DeliveredUntouched DEF WriteArtifact, InsertResult, RewriteArtifact, GiveUp,
     StopRaises, Raise
<1>8. ASSUME NEW record \in Records, Deliver(record) \/ LoseRecord(record)
      PROVE  DeliveredInv'
  <2>1. buffered # NoRecords /\ UNCHANGED passed
    BY <1>8, NothingCounted DEF Deliver, LoseRecord, runner
  <2> QED BY <2>1 DEF DeliveredInv, options
<1>9. CASE Processes
  BY <1>9, DeliveredUntouched DEF Processes, ProcessorRuns, ProcessorExits, Consume,
     PublishBucket, CompleteCheckpoint, RestoreJob, InsertModel, runner
<1> QED BY <1>1, <1>2, <1>3, <1>4, <1>5, <1>6, <1>7, <1>8, <1>9,
           <1>s DEF Next, Run, Broker

-----------------------------------------------------------------------------
(* The specification                                                       *)

FullInv == Inv /\ JobInv /\ ScanInv /\ TrafficInv /\ CountedInv /\ DeliveredInv

LEMMA InitInv == Init => FullInv
  BY InitPhase, InitManaged, InitResult, InitHealth, InitStores, InitJob, InitScan,
     InitTraffic, InitCounted, InitDelivered DEF FullInv, Inv

LEMMA NextInv == FullInv /\ [Next]_vars => FullInv'
<1> SUFFICES ASSUME FullInv, [Next]_vars PROVE FullInv'
  OBVIOUS
<1>1. CASE Next
  BY <1>1, StepPhase, StepManaged, StepResult, StepHealth, StepStores, StepJob, StepScan,
     StepTraffic, StepCounted, StepDelivered DEF FullInv, Inv
<1>2. CASE UNCHANGED vars
  <2> USE <1>2 DEF vars, runner, options, position, snapshots, result, stopping, kafka, job,
          environment, keyedState, restarts
  <2>1. PhaseInv' /\ ManagedInv' /\ ResultInv' /\ HealthInv' /\ StoreTypes'
    BY OptionsKept DEF FullInv, Inv, PhaseInv, ManagedInv, ResultInv, HealthInv, StoreTypes, IsInjective
  <2>2. UNCHANGED <<Phases, Batch, Controlled>>
    BY OptionsKept
  <2>3. \A kind : Handed(kind)' = Handed(kind)
    BY <2>2 DEF Handed
  <2>4. JobInv' /\ ScanInv'
    BY <2>2, JobUntouched, ScanUntouched DEF FullInv
  <2>5. TrafficInv' /\ CountedInv' /\ DeliveredInv'
    BY <2>2, <2>3, TrafficUntouched, CountedUntouched, DeliveredUntouched
    DEF FullInv, Setup, Measuring
  <2> QED BY <2>1, <2>4, <2>5 DEF FullInv, Inv
<1> QED BY <1>1, <1>2

LEMMA SpecInv == Spec => []FullInv
  BY InitInv, NextInv, PTL DEF Spec

(* Every variable keeps its type in every run, under every definition,     *)
(* with any batch and any number of phases.                                *)
THEOREM TypeCorrect == Spec => []TypeOK
<1>1. FullInv => TypeOK
  BY ConfigAssumption DEF FullInv, Inv, PhaseInv, ManagedInv, ResultInv, StoreTypes, TypeOK
<1> QED BY <1>1, SpecInv, PTL

(* run_experiment leaves no process of its own behind, in whatever order   *)
(* processors fail, exit, ignore their signal or are killed.               *)
THEOREM NoneLeftBehind == Spec => []NoProcessorLeftBehind
<1>1. FullInv => NoProcessorLeftBehind
  BY DEF FullInv, Inv, ManagedInv, NoProcessorLeftBehind
<1> QED BY <1>1, SpecInv, PTL

(* No exit before the last health check escapes a passed experiment.       *)
THEOREM PassedHealthy == Spec => []PassedMeansHealthy
<1>1. FullInv => PassedMeansHealthy
  BY DEF FullInv, Inv, HealthInv, PassedMeansHealthy
<1> QED BY <1>1, SpecInv, PTL

(* The artifact, the row and the exit status agree wherever the command    *)
(* was interrupted.                                                        *)
THEOREM ResultRecorded == Spec => []ResultIsRecorded
<1>1. FullInv => ResultIsRecorded
  <2> SUFFICES ASSUME ResultInv PROVE ResultIsRecorded
    BY DEF FullInv, Inv
  <2>1. rows # <<>> => ~dryRun /\ rows = <<passed>> /\ artifact # None /\ artifact.passed = passed
    BY DEF ResultInv
  <2>2. Len(rows) <= (IF dryRun THEN 0 ELSE 1)
    BY <2>1
  <2>3. rows # <<>> => artifact # None /\ artifact.passed = rows[1]
    BY <2>1
  <2>4. outcome \in {"complete", "gates_failed"} =>
          /\ artifact.passed = (outcome = "complete")
          /\ dryRun \/ (artifact.row = 1 /\ rows = <<artifact.passed>>)
    BY DEF ResultInv
  <2> QED BY <2>2, <2>3, <2>4 DEF ResultIsRecorded
<1> QED BY <1>1, SpecInv, PTL

(* The delta gates of an experiment that controls its topics notice every  *)
(* failed send, but for as many records as the last snapshot may have      *)
(* twice: in buckets its scan returned again, or because a restore had     *)
(* them counted again.                                                     *)
THEOREM PassedDelivered == Spec => []PassedMeansDelivered
<1>1. FullInv => PassedMeansDelivered
  BY ConfigAssumption DEF FullInv, DeliveredInv, PassedMeansDelivered, Controlled, Produced
<1> QED BY <1>1, SpecInv, PTL

=============================================================================
