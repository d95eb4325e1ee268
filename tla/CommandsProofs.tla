--------------------------- MODULE CommandsProofs ---------------------------
(***************************************************************************)
(* Proofs about Commands, for any commands started together, whatever      *)
(* their files and command lines give, and any topics.                     *)
(***************************************************************************)
EXTENDS Commands, SequenceTheorems, TLAPS

(* A command has its configuration, and may use it.                        *)
Configured == {"main", "close"} \cup Working
Stages == {"parse", "load", "merge", "ended"} \cup Configured

Sorts == {"on", "off", "default", "file", "cli", "bad", None}
Settings == {<<>>} \cup UNION {[FieldsOf(job) -> Sorts] : job \in Jobs}

TypeOK ==
    /\ plan \in Plans
    /\ pc \in [DOMAIN plan -> Stages]
    /\ config \in [DOMAIN plan -> Settings]
    /\ result \in [DOMAIN plan -> Results]
    /\ wrote \in [DOMAIN plan -> BOOLEAN]
    /\ shown \in [DOMAIN plan -> {"nothing", "values", "bucket", "error"}]
    /\ index \in [DOMAIN plan -> Nat]
    /\ buffer \in [DOMAIN plan -> SUBSET Topics]
    /\ known \in [DOMAIN plan -> SUBSET Topics]
    /\ topics \in [Topics -> Topic]

-----------------------------------------------------------------------------
(* Configurations                                                          *)

FileConfig(c) == Over(Defaults(plan[c].job), plan[c].file)
UserConfig(c) == Over(FileConfig(c), plan[c].cli)

LEMMA Invocations ==
    ASSUME plan \in Plans, NEW c \in DOMAIN plan
    PROVE  IsInvocation(plan[c]) /\ c \in Command
  BY PlanAssumption

(* A field's default, and what a file or a command line gives it, is       *)
(* "bad" only where a declaration can reject it.                           *)
LEMMA GivenValues ==
    ASSUME NEW job \in Jobs, NEW f \in FieldsOf(job)
    PROVE  LET checked == f \in ConfigOf[job].limited \cup ConfigOf[job].choices
           IN  /\ Default(job, f) \in Sorts \ {"bad"}
               /\ \A origin \in {"file", "cli"} : \A v \in Values(job, f, origin) :
                     v \in Sorts /\ (v = "bad" => checked)
  BY NoneAssumption DEF Default, Values, Sorts, FieldsOf

(* The command line over the file over the defaults.                       *)
LEMMA MergedValues ==
    ASSUME plan \in Plans, NEW c \in DOMAIN plan
    PROVE  LET given == plan[c]
           IN  /\ given.job \in Jobs
               /\ DOMAIN FileConfig(c) = FieldsOf(given.job)
               /\ DOMAIN UserConfig(c) = FieldsOf(given.job)
               /\ FileConfig(c) \in [FieldsOf(given.job) -> Sorts]
               /\ UserConfig(c) \in [FieldsOf(given.job) -> Sorts]
               /\ \A f \in FieldsOf(given.job) :
                     /\ UserConfig(c)[f]
                          = IF f \in DOMAIN given.cli THEN given.cli[f]
                            ELSE IF f \in DOMAIN given.file THEN given.file[f]
                            ELSE Default(given.job, f)
                     /\ UserConfig(c)[f] = "bad" =>
                          f \in ConfigOf[given.job].limited
                                  \cup ConfigOf[given.job].choices
<1> DEFINE given == plan[c]
<1>1. IsInvocation(given)
  BY Invocations
<1>2. /\ given.job \in Jobs
      /\ \A f \in DOMAIN given.file : given.file[f] \in Values(given.job, f, "file")
      /\ \A f \in DOMAIN given.cli : given.cli[f] \in Values(given.job, f, "cli")
  BY <1>1 DEF IsInvocation
<1>3. FileConfig(c) = [f \in FieldsOf(given.job) |->
          IF f \in DOMAIN given.file THEN given.file[f] ELSE Default(given.job, f)]
  BY DEF FileConfig, Over, Defaults
<1>4. UserConfig(c) = [f \in FieldsOf(given.job) |->
          IF f \in DOMAIN given.cli THEN given.cli[f] ELSE FileConfig(c)[f]]
  BY <1>3 DEF UserConfig, Over
<1> HIDE DEF given
<1>5. \A f \in FieldsOf(given.job) :
          /\ FileConfig(c)[f] \in Sorts
          /\ FileConfig(c)[f] = "bad" =>
               f \in ConfigOf[given.job].limited \cup ConfigOf[given.job].choices
  BY <1>2, <1>3, GivenValues
<1>6. \A f \in FieldsOf(given.job) :
          /\ UserConfig(c)[f] \in Sorts
          /\ UserConfig(c)[f] = "bad" =>
               f \in ConfigOf[given.job].limited \cup ConfigOf[given.job].choices
  BY <1>2, <1>4, <1>5, GivenValues
<1>7. FileConfig(c) \in [FieldsOf(given.job) -> Sorts]
  BY <1>3, <1>5
<1>8. UserConfig(c) \in [FieldsOf(given.job) -> Sorts]
  BY <1>4, <1>6
<1> QED BY <1>2, <1>3, <1>4, <1>6, <1>7, <1>8 DEF given

(* A producer's topics are topics.                                         *)
LEMMA ProducerTopics ==
    ASSUME plan \in Plans, NEW c \in DOMAIN plan, plan[c].job = "produce_events",
           NEW f \in {"impression_topic", "click_topic", "event_topic"}
    PROVE  TopicNamed[f][UserConfig(c)[f]] \in Topics
<1>1. /\ f \in FieldsOf("produce_events")
      /\ \A origin \in {"file", "cli"} : Values("produce_events", f, origin) = {origin}
      /\ Default("produce_events", f) = "default"
  BY DEF FieldsOf, Values, Default, ConfigOf, ProduceEventsConfig, Fields,
         OptionalFields, FocusedBucket
<1>2. UserConfig(c)[f] \in {"default", "file", "cli"}
  BY <1>1, MergedValues, Invocations DEF IsInvocation
<1> QED BY <1>2, PlanAssumption DEF TopicFields

-----------------------------------------------------------------------------
(* Invariants of a command's own state                                     *)

ConfigInv(c) ==
    /\ pc[c] = "merge" => config[c] = FileConfig(c)
    /\ pc[c] \in Configured =>
          config[c] = UserConfig(c) /\ Validates(plan[c].job, config[c])

(* Nothing is written before the configuration is known, and later only if *)
(* it is not a dry run; a record in the producer's buffer will be written. *)
DryInv(c) ==
    /\ pc[c] \in {"parse", "load", "merge"} => ~wrote[c] /\ buffer[c] = {}
    /\ pc[c] \in {"delete", "publish"} => ~Asked(c, "dry_run")
    /\ wrote[c] \/ buffer[c] # {} => ~Asked(c, "dry_run")

JobInv(c) ==
    pc[c] \in {"publish", "flush", "close"} => plan[c].job = "produce_events"

CommandInv ==
    TypeOK /\ \A c \in DOMAIN plan : ConfigInv(c) /\ DryInv(c) /\ JobInv(c)

(* What an action of c does at most to the other commands: nothing.        *)
OnlyAt(c) ==
    /\ plan' = plan
    /\ \A d \in DOMAIN plan \ {c} :
          /\ pc'[d] = pc[d] /\ config'[d] = config[d] /\ result'[d] = result[d]
          /\ wrote'[d] = wrote[d] /\ buffer'[d] = buffer[d]

LEMMA InitCommand == Init => CommandInv
<1> SUFFICES ASSUME Init PROVE CommandInv
  OBVIOUS
<1>1. topics \in [Topics -> Topic]
  BY PlanAssumption DEF Init, Untouched, Topic, Counts
<1>2. TypeOK
  BY <1>1 DEF Init, TypeOK, Stages, Settings, Results, Ends
<1>3. ASSUME NEW c \in DOMAIN plan PROVE ConfigInv(c) /\ DryInv(c) /\ JobInv(c)
  BY <1>3 DEF Init, ConfigInv, DryInv, JobInv, Configured, Working
<1> QED BY <1>2, <1>3 DEF CommandInv

LEMMA OthersKeep ==
    ASSUME CommandInv, NEW c \in DOMAIN plan, OnlyAt(c), NEW d \in DOMAIN plan \ {c}
    PROVE  ConfigInv(d)' /\ DryInv(d)' /\ JobInv(d)'
<1>1. /\ ConfigInv(d) /\ DryInv(d) /\ JobInv(d)
      /\ plan' = plan /\ pc'[d] = pc[d] /\ config'[d] = config[d]
      /\ wrote'[d] = wrote[d] /\ buffer'[d] = buffer[d]
  BY DEF CommandInv, OnlyAt
<1>2. ConfigInv(d)'
  BY <1>1 DEF ConfigInv, FileConfig, UserConfig
<1>3. DryInv(d)'
  BY <1>1 DEF DryInv, Asked
<1>4. JobInv(d)'
  BY <1>1 DEF JobInv
<1> QED BY <1>2, <1>3, <1>4

(* So a step of c need only be looked at where c is concerned.             *)
LEMMA StepAt ==
    ASSUME CommandInv, NEW c \in DOMAIN plan, OnlyAt(c), TypeOK',
           ConfigInv(c)', DryInv(c)', JobInv(c)'
    PROVE  CommandInv'
<1>1. ASSUME NEW d \in DOMAIN plan' PROVE ConfigInv(d)' /\ DryInv(d)' /\ JobInv(d)'
  <2>1. CASE d = c
    BY <2>1
  <2>2. CASE d # c
    BY <2>2, OthersKeep DEF OnlyAt
  <2> QED BY <2>1, <2>2
<1> QED BY <1>1 DEF CommandInv

LEMMA ParseStep ==
    ASSUME CommandInv, NEW c \in DOMAIN plan, ParseArgs(c)
    PROVE  CommandInv' /\ OnlyAt(c)
<1>1. /\ pc[c] = "parse" /\ pc'[c] \in {"load", "ended"}
      /\ UNCHANGED <<plan, config, wrote, shown, index, buffer, known, topics>>
      /\ result' \in [DOMAIN plan -> Results]
      /\ pc' \in [DOMAIN plan -> Stages]
      /\ OnlyAt(c)
  BY DEF ParseArgs, End, Goto, CommandInv, TypeOK, settings, producer, OnlyAt, Stages,
         Results, Ends
<1>2. TypeOK'
  BY <1>1 DEF CommandInv, TypeOK
<1>3. ConfigInv(c)' /\ JobInv(c)'
  BY <1>1 DEF ConfigInv, JobInv, Configured, Working
<1>4. DryInv(c)'
  BY <1>1 DEF CommandInv, DryInv
<1> QED BY <1>1, <1>2, <1>3, <1>4, StepAt

LEMMA LoadStep ==
    ASSUME CommandInv, NEW c \in DOMAIN plan, LoadJobConfig(c)
    PROVE  CommandInv' /\ OnlyAt(c)
<1>1. /\ pc[c] = "load" /\ pc'[c] \in {"merge", "ended"}
      /\ UNCHANGED <<plan, wrote, shown, index, buffer, known, topics>>
      /\ result' \in [DOMAIN plan -> Results]
      /\ pc' \in [DOMAIN plan -> Stages]
      /\ \/ config' = [config EXCEPT ![c] = FileConfig(c)]
         \/ config' = config /\ pc'[c] = "ended"
  BY DEF LoadJobConfig, End, Goto, CommandInv, TypeOK, producer, Stages, Results, Ends,
         FileConfig
<1>2. FileConfig(c) \in Settings
  BY MergedValues DEF CommandInv, TypeOK, Settings
<1>3. OnlyAt(c)
  BY <1>1 DEF LoadJobConfig, End, Goto, OnlyAt, CommandInv, TypeOK
<1>4. TypeOK'
  BY <1>1, <1>2 DEF CommandInv, TypeOK
<1>5. ConfigInv(c)' /\ JobInv(c)'
  BY <1>1 DEF ConfigInv, JobInv, Configured, Working, FileConfig, CommandInv, TypeOK
<1>6. DryInv(c)'
  BY <1>1 DEF CommandInv, DryInv
<1> QED BY <1>3, <1>4, <1>5, <1>6, StepAt

LEMMA MergeStep ==
    ASSUME CommandInv, NEW c \in DOMAIN plan, MergeJobConfig(c)
    PROVE  CommandInv' /\ OnlyAt(c)
<1>1. /\ pc[c] = "merge" /\ pc'[c] \in {"main", "ended"}
      /\ UNCHANGED <<plan, wrote, shown, index, buffer, known, topics>>
      /\ result' \in [DOMAIN plan -> Results]
      /\ pc' \in [DOMAIN plan -> Stages]
      /\ \/ /\ config' = [config EXCEPT ![c] = Merged(c)]
            /\ Validates(plan[c].job, Merged(c))
         \/ config' = config /\ pc'[c] = "ended"
  BY DEF MergeJobConfig, End, Goto, CommandInv, TypeOK, producer, Stages, Results, Ends,
         Configured
<1>2. Merged(c) = UserConfig(c)
  BY <1>1 DEF CommandInv, ConfigInv, Merged, UserConfig
<1>3. UserConfig(c) \in Settings
  BY MergedValues DEF CommandInv, TypeOK, Settings
<1>4. OnlyAt(c)
  BY <1>1 DEF MergeJobConfig, End, Goto, OnlyAt, CommandInv, TypeOK
<1>5. TypeOK'
  BY <1>1, <1>2, <1>3 DEF CommandInv, TypeOK
<1>6. JobInv(c)'
  BY <1>1 DEF JobInv
<1>7. ConfigInv(c)'
  BY <1>1, <1>2
     DEF ConfigInv, Configured, Working, UserConfig, FileConfig, CommandInv, TypeOK
<1>8. DryInv(c)'
  BY <1>1 DEF CommandInv, DryInv
<1> QED BY <1>4, <1>5, <1>6, <1>7, <1>8, StepAt

(* Once a command has its configuration, it keeps it.                      *)
Proceeds(c) ==
    /\ UNCHANGED <<plan, config>>
    /\ pc' = pc \/ (pc[c] \in Configured
                    /\ \E stage \in Configured \cup {"ended"} : Goto(c, stage))

LEMMA ProceedingKeepsConfig ==
    ASSUME CommandInv, NEW c \in DOMAIN plan, Proceeds(c)
    PROVE  ConfigInv(c)' /\ pc' \in [DOMAIN plan -> Stages]
<1>1. ConfigInv(c) /\ pc \in [DOMAIN plan -> Stages]
  BY DEF CommandInv, TypeOK
<1>2. pc' = pc \/ (pc[c] \in Configured /\ pc'[c] \in Configured \cup {"ended"})
  BY <1>1 DEF Proceeds, Goto
<1>3. plan' = plan /\ config' = config
  BY DEF Proceeds
<1>4. "merge" \notin Configured \cup {"ended"} /\ "ended" \notin Configured
  BY DEF Configured, Working
<1>5. ConfigInv(c)'
  BY <1>1, <1>2, <1>3, <1>4 DEF ConfigInv, UserConfig, FileConfig
<1>6. pc' \in [DOMAIN plan -> Stages]
  BY <1>1 DEF Proceeds, Goto, Stages
<1> QED BY <1>5, <1>6

LEMMA WorkStep ==
    ASSUME CommandInv, NEW c \in DOMAIN plan, WorkOfOtherModules(c)
    PROVE  CommandInv' /\ OnlyAt(c)
<1>1. /\ pc[c] \in {"main", "work"}
      /\ plan[c].job # "clean_topics" /\ plan[c].job # "produce_events"
      /\ \/ UNCHANGED <<pc, result>>
         \/ Goto(c, "work") /\ UNCHANGED result
         \/ \E how \in {"dry run", "complete", "config error"} : End(c, how)
      /\ \/ UNCHANGED wrote
         \/ ~Asked(c, "dry_run") /\ Writes(c)
  BY DEF WorkOfOtherModules, SeedValues, ResetValues, PersistRedisBuckets,
         RunWeightUpdate, RunRealtimeCtr, RunStreamingWeightUpdate, RunExperiment,
         Starts, PlansOnly, Works, Once, Forever, Pass
<1>2. UNCHANGED <<plan, config, shown, index, buffer, known, topics>>
  BY DEF WorkOfOtherModules, settings, producer
<1>3. Proceeds(c)
  BY <1>1, <1>2 DEF Proceeds, Configured, Working, End
<1>4. OnlyAt(c)
  BY <1>1, <1>2 DEF OnlyAt, CommandInv, TypeOK, Goto, End, Writes
<1>5. result' \in [DOMAIN plan -> Results] /\ wrote' \in [DOMAIN plan -> BOOLEAN]
  <2>1. result' \in [DOMAIN plan -> Results]
    BY <1>1 DEF CommandInv, TypeOK, End, Results, Ends
  <2>2. wrote' \in [DOMAIN plan -> BOOLEAN]
    BY <1>1 DEF CommandInv, TypeOK, Writes
  <2> QED BY <2>1, <2>2
<1>6. TypeOK'
  BY <1>2, <1>3, <1>5, ProceedingKeepsConfig DEF CommandInv, TypeOK
<1>7. pc'[c] \in {"main", "work", "ended"}
  BY <1>1 DEF CommandInv, TypeOK, Goto, End
<1>8. DryInv(c)'
  BY <1>1, <1>2, <1>7 DEF CommandInv, DryInv, TypeOK, Writes, Asked
<1>9. JobInv(c)'
  BY <1>7 DEF JobInv
<1> QED BY <1>3, <1>4, <1>6, <1>8, <1>9, ProceedingKeepsConfig, StepAt

LEMMA CleanStep ==
    ASSUME CommandInv, NEW c \in DOMAIN plan, CleanTopics(c)
    PROVE  CommandInv' /\ OnlyAt(c)
<1>1. UNCHANGED <<plan, config, shown, index, buffer, known>>
  BY DEF CleanTopics, settings, producer
<1>2. \/ /\ pc[c] = "main" /\ UNCHANGED <<wrote, topics>>
         /\ \/ End(c, "dry run")
            \/ ~Asked(c, "dry_run") /\ Goto(c, "delete") /\ UNCHANGED result
      \/ pc[c] = "delete" /\ Goto(c, "create") /\ Writes(c) /\ UNCHANGED result
      \/ /\ pc[c] = "create" /\ UNCHANGED wrote
         /\ \E how \in {"complete", "failed"} : End(c, how)
  BY DEF CleanTopics, PlansOnly, Starts, DeleteTopics, CreateTopics
<1>3. Proceeds(c)
  BY <1>1, <1>2 DEF Proceeds, Configured, Working, End
<1>4. OnlyAt(c)
  BY <1>1, <1>2 DEF OnlyAt, CommandInv, TypeOK, Goto, End, Writes
<1>5. result' \in [DOMAIN plan -> Results] /\ wrote' \in [DOMAIN plan -> BOOLEAN]
  BY <1>2 DEF CommandInv, TypeOK, Goto, End, Writes, Results, Ends
<1>6. topics' \in [Topics -> Topic]
  <2>1. topics \in [Topics -> Topic] /\ c \in Command
    BY Invocations DEF CommandInv, TypeOK
  <2>2. CASE UNCHANGED topics
    BY <2>1, <2>2
  <2>3. CASE DeleteTopics(c)
    <3>1. ASSUME NEW t \in Topics
          PROVE  [topics[t] EXCEPT !.state = "deleting", !.stale = @ \cup {c}] \in Topic
      BY <2>1 DEF Topic
    <3> QED BY <2>1, <2>3, <3>1 DEF DeleteTopics
  <2>4. CASE CreateTopics(c)
    <3>1. ASSUME NEW t \in Topics
          PROVE  [state |-> "present", partitions |-> PartitionCount(config[c], t),
                  stale |-> {}] \in Topic
      BY DEF Topic, PartitionCount, Counts
    <3> QED BY <2>1, <2>4, <3>1 DEF CreateTopics
  <2> QED BY <2>2, <2>3, <2>4 DEF CleanTopics
<1>7. TypeOK'
  BY <1>1, <1>3, <1>5, <1>6, ProceedingKeepsConfig DEF CommandInv, TypeOK
<1>8. JobInv(c)'
  BY <1>2 DEF JobInv, CommandInv, TypeOK, Goto, End
<1>9. DryInv(c)'
  BY <1>1, <1>2 DEF CommandInv, DryInv, TypeOK, Writes, Asked, Goto, End
<1> QED BY <1>3, <1>4, <1>7, <1>8, <1>9, ProceedingKeepsConfig, StepAt

LEMMA PublishFacts ==
    ASSUME CommandInv, NEW c \in DOMAIN plan, Publish(c)
    PROVE  /\ \E stage \in {"publish", "flush", "close"} : Goto(c, stage)
           /\ \/ UNCHANGED result
              \/ result' = [result EXCEPT ![c] = "failed"]
           /\ index' \in [DOMAIN plan -> Nat]
           /\ \E sent \in SUBSET Topics :
                 /\ buffer' = [buffer EXCEPT ![c] = @ \cup sent]
                 /\ known' = [known EXCEPT ![c] = @ \cup sent]
<1> DEFINE kind == Batch[index[c] + 1]
           first == TopicForEvent(config[c], kind)
           unified == TopicNamed["event_topic"][config[c]["event_topic"]]
<1>1. plan[c].job = "produce_events" /\ config[c] = UserConfig(c) /\ plan \in Plans
  BY DEF Publish, CommandInv, JobInv, ConfigInv, Configured, Working, TypeOK
<1>2. first \in Topics /\ unified \in Topics
  BY <1>1, ProducerTopics DEF TopicForEvent
<1> HIDE DEF first, unified
<1>3. PICK sent : /\ sent \subseteq {first, unified}
                  /\ buffer' = [buffer EXCEPT ![c] = @ \cup sent]
                  /\ known' = [known EXCEPT ![c] = @ \cup sent]
  BY DEF Publish, first, unified
<1>4. index' \in [DOMAIN plan -> Nat]
  BY DEF Publish, CommandInv, TypeOK
<1>5. \E stage \in {"publish", "flush", "close"} : Goto(c, stage)
  BY DEF Publish
<1>6. UNCHANGED result \/ result' = [result EXCEPT ![c] = "failed"]
  BY DEF Publish
<1> QED BY <1>2, <1>3, <1>4, <1>5, <1>6

LEMMA ProduceStep ==
    ASSUME CommandInv, NEW c \in DOMAIN plan, ProduceEvents(c)
    PROVE  CommandInv' /\ OnlyAt(c)
<1>1. UNCHANGED <<plan, config, shown, topics, wrote>>
  BY DEF ProduceEvents, settings, Publish, Flush, Close
<1>2. plan[c].job = "produce_events"
  BY DEF ProduceEvents, PlansOnly, Starts, Publish, Flush, Close, CommandInv, JobInv
<1>3. \/ /\ pc[c] = "main" /\ UNCHANGED <<index, buffer, known>>
         /\ \/ End(c, "dry run")
            \/ ~Asked(c, "dry_run") /\ Goto(c, "publish") /\ UNCHANGED result
      \/ /\ pc[c] = "flush" /\ Goto(c, "close") /\ UNCHANGED <<index, buffer, known>>
         /\ result' = [result EXCEPT ![c] = "complete"]
      \/ /\ pc[c] = "close" /\ Goto(c, "ended")
         /\ UNCHANGED <<result, index, buffer, known>>
      \/ pc[c] = "publish" /\ Publish(c)
  BY DEF ProduceEvents, PlansOnly, Starts, Flush, Close, Publish, producer
<1>4. Proceeds(c)
  BY <1>1, <1>3, PublishFacts DEF Proceeds, Configured, Working, End
<1>5. /\ index' \in [DOMAIN plan -> Nat] /\ result' \in [DOMAIN plan -> Results]
      /\ buffer' \in [DOMAIN plan -> SUBSET Topics]
      /\ known' \in [DOMAIN plan -> SUBSET Topics]
  <2>1. CASE Publish(c)
    <3>1. PICK sent \in SUBSET Topics :
              /\ buffer' = [buffer EXCEPT ![c] = @ \cup sent]
              /\ known' = [known EXCEPT ![c] = @ \cup sent]
      BY <2>1, PublishFacts
    <3>2. buffer \in [DOMAIN plan -> SUBSET Topics] /\ known \in [DOMAIN plan -> SUBSET Topics]
      BY DEF CommandInv, TypeOK
    <3>3. /\ buffer' \in [DOMAIN plan -> SUBSET Topics]
          /\ known' \in [DOMAIN plan -> SUBSET Topics]
      BY <3>1, <3>2
    <3>4. index' \in [DOMAIN plan -> Nat] /\ result' \in [DOMAIN plan -> Results]
      BY <2>1, PublishFacts DEF CommandInv, TypeOK, Results, Ends
    <3> QED BY <3>3, <3>4
  <2>2. CASE UNCHANGED <<index, buffer, known>>
    BY <1>3, <2>1, <2>2 DEF CommandInv, TypeOK, Results, Ends, End
  <2> QED BY <1>3, <2>1, <2>2
<1>6. OnlyAt(c)
  <2>1. CASE Publish(c)
    BY <1>1, <2>1, PublishFacts DEF OnlyAt, CommandInv, TypeOK, Goto
  <2>2. CASE UNCHANGED <<index, buffer, known>>
    BY <1>1, <1>3, <2>1, <2>2 DEF OnlyAt, CommandInv, TypeOK, Goto, End
  <2> QED BY <1>3, <2>1, <2>2
<1>7. TypeOK'
  BY <1>1, <1>4, <1>5, ProceedingKeepsConfig DEF CommandInv, TypeOK
<1>8. JobInv(c)'
  BY <1>1, <1>2 DEF JobInv
<1>9. DryInv(c)'
  <2>1. CASE pc[c] = "publish" /\ Publish(c)
    <3>1. ~Asked(c, "dry_run")'
      BY <1>1, <2>1 DEF CommandInv, DryInv, Asked
    <3>2. pc'[c] \in {"publish", "flush", "close"}
      BY <2>1, PublishFacts DEF CommandInv, TypeOK, Goto
    <3> QED BY <3>1, <3>2 DEF DryInv
  <2>2. CASE pc[c] \in {"main", "flush", "close"} /\ UNCHANGED buffer
    BY <1>1, <1>3, <2>2 DEF CommandInv, DryInv, TypeOK, Asked, Goto, End, Publish
  <2> QED BY <1>3, <2>1, <2>2
<1> QED BY <1>4, <1>6, <1>7, <1>8, <1>9, ProceedingKeepsConfig, StepAt

LEMMA DeliverStep ==
    ASSUME CommandInv, NEW c \in DOMAIN plan, Deliver(c)
    PROVE  CommandInv' /\ OnlyAt(c)
<1>1. PICK t \in buffer[c] :
          /\ buffer' = [buffer EXCEPT ![c] = @ \ {t}]
          /\ wrote' = [wrote EXCEPT ![c] = @ \/ topics[t].state = "present"]
          /\ UNCHANGED <<plan, config, pc, result, shown, index, known, topics>>
  BY DEF Deliver, settings
<1>2. ~Asked(c, "dry_run") /\ pc[c] \notin {"parse", "load", "merge"}
  BY DEF CommandInv, DryInv, Deliver
<1>3. buffer' \in [DOMAIN plan -> SUBSET Topics] /\ wrote' \in [DOMAIN plan -> BOOLEAN]
  BY <1>1 DEF CommandInv, TypeOK
<1>4. TypeOK'
  BY <1>1, <1>3 DEF CommandInv, TypeOK
<1>5. OnlyAt(c)
  BY <1>1 DEF OnlyAt, CommandInv, TypeOK
<1>6. JobInv(c)'
  BY <1>1 DEF CommandInv, JobInv
<1>7. DryInv(c)'
  BY <1>1, <1>2 DEF DryInv, Asked
<1>8. Proceeds(c)
  BY <1>1 DEF Proceeds
<1> QED BY <1>4, <1>5, <1>6, <1>7, <1>8, ProceedingKeepsConfig, StepAt

LEMMA WatchStep ==
    ASSUME CommandInv, NEW c \in DOMAIN plan, WatchRedisValues(c)
    PROVE  CommandInv' /\ OnlyAt(c)
<1>1. UNCHANGED <<plan, config, wrote, index, buffer, known, topics>>
  BY DEF WatchRedisValues, settings, producer
<1>2. /\ pc[c] \in {"main", "snapshot", "sleep"}
      /\ \/ \E stage \in {"snapshot", "sleep"} : Goto(c, stage) /\ UNCHANGED result
         \/ \E how \in {"failed", "printed"} : End(c, how)
  BY DEF WatchRedisValues, Starts, CollectSnapshot
<1>3. shown' \in [DOMAIN plan -> {"nothing", "values", "bucket", "error"}]
  BY DEF WatchRedisValues, CollectSnapshot, BucketFromConfig, CommandInv, TypeOK
<1>4. Proceeds(c)
  BY <1>1, <1>2 DEF Proceeds, Configured, Working, End
<1>5. OnlyAt(c)
  BY <1>1, <1>2 DEF OnlyAt, CommandInv, TypeOK, Goto, End
<1>6. result' \in [DOMAIN plan -> Results]
  BY <1>2 DEF CommandInv, TypeOK, End, Results, Ends
<1>7. TypeOK'
  BY <1>1, <1>3, <1>4, <1>6, ProceedingKeepsConfig DEF CommandInv, TypeOK
<1>8. pc'[c] \in {"snapshot", "sleep", "ended"}
  BY <1>2 DEF CommandInv, TypeOK, Goto, End
<1>9. DryInv(c)' /\ JobInv(c)'
  BY <1>1, <1>8 DEF CommandInv, DryInv, JobInv, Asked
<1> QED BY <1>4, <1>5, <1>7, <1>9, ProceedingKeepsConfig, StepAt

LEMMA AbortStep ==
    ASSUME CommandInv, NEW c \in DOMAIN plan, Abort(c)
    PROVE  CommandInv' /\ OnlyAt(c)
<1>1. UNCHANGED <<plan, config, wrote, shown, index, buffer, known, topics>>
  BY DEF Abort, settings, producer
<1>2. PICK how \in {"failed", "stopped", "interrupted"} :
          /\ result' = [result EXCEPT ![c] = how]
          /\ \/ plan[c].job = "produce_events" /\ Goto(c, "close")
             \/ Goto(c, "ended")
  BY DEF Abort, End
<1>3. pc[c] \in Configured
  BY DEF Abort, Configured
<1>4. Proceeds(c)
  BY <1>1, <1>2, <1>3 DEF Proceeds, Configured
<1>5. OnlyAt(c)
  BY <1>1, <1>2 DEF OnlyAt, CommandInv, TypeOK, Goto
<1>6. result' \in [DOMAIN plan -> Results]
  BY <1>2 DEF CommandInv, TypeOK, Results, Ends
<1>7. TypeOK'
  BY <1>1, <1>4, <1>6, ProceedingKeepsConfig DEF CommandInv, TypeOK
<1>8. pc'[c] \in {"close", "ended"} /\ (pc'[c] = "close" => plan[c].job = "produce_events")
  BY <1>2 DEF CommandInv, TypeOK, Goto
<1>9. DryInv(c)' /\ JobInv(c)'
  BY <1>1, <1>8 DEF CommandInv, DryInv, JobInv, Asked
<1> QED BY <1>4, <1>5, <1>7, <1>9, ProceedingKeepsConfig, StepAt

LEMMA BrokerStep ==
    ASSUME CommandInv, NEW t \in Topics, FinishDeletion(t)
    PROVE  CommandInv'
<1>1. /\ UNCHANGED <<plan, config, pc, result, wrote, shown, index, buffer, known>>
      /\ topics' = [topics EXCEPT ![t] = Untouched("absent")]
  BY DEF FinishDeletion, settings, producer
<1>2. TypeOK'
  BY <1>1 DEF CommandInv, TypeOK, Untouched, Topic, Counts
<1>3. ASSUME NEW c \in DOMAIN plan
      PROVE  ConfigInv(c)' /\ DryInv(c)' /\ JobInv(c)'
  BY <1>1 DEF CommandInv, ConfigInv, DryInv, JobInv, Asked, UserConfig, FileConfig
<1> QED BY <1>1, <1>2, <1>3 DEF CommandInv

LEMMA StepCommand == CommandInv /\ [Next]_vars => CommandInv'
<1> SUFFICES ASSUME CommandInv, [Next]_vars PROVE CommandInv'
  OBVIOUS
<1>1. CASE UNCHANGED vars
  BY <1>1 DEF vars, settings, producer, CommandInv, TypeOK, ConfigInv, DryInv, JobInv,
              Asked, UserConfig, FileConfig
<1>2. ASSUME NEW c \in DOMAIN plan,
             \/ ParseArgs(c) \/ LoadJobConfig(c) \/ MergeJobConfig(c)
             \/ WorkOfOtherModules(c) \/ CleanTopics(c) \/ ProduceEvents(c) \/ Deliver(c)
             \/ WatchRedisValues(c) \/ Abort(c)
      PROVE  CommandInv'
  BY <1>2, ParseStep, LoadStep, MergeStep, WorkStep, CleanStep, ProduceStep, DeliverStep,
     WatchStep, AbortStep
<1> QED BY <1>1, <1>2, BrokerStep DEF Next, Finished

LEMMA CommandInvariant == Spec => []CommandInv
  BY InitCommand, StepCommand, PTL DEF Spec

(* Every variable keeps its type: in particular a configuration is a value *)
(* of each field its job has, and the producer's topics are topics         *)
(* (job_config_loader.py, models/job_configs.py).                          *)
THEOREM TypeCorrect == Spec => []TypeOK
<1>1. CommandInv => TypeOK
  BY DEF CommandInv
<1> QED BY <1>1, CommandInvariant, PTL

(* A command that works does so with the value of the command line, else   *)
(* of the file, else the default, of each field, all of them accepted; and *)
(* a dry run has changed nothing (job_config_loader.py, every job's main). *)
THEOREM WorkAsAsked == Spec => []WorksAsAsked
<1>1. CommandInv => WorksAsAsked
  <2> SUFFICES ASSUME CommandInv, NEW c \in DOMAIN plan
               PROVE  LET given == plan[c]
                      IN /\ pc[c] \in Working =>
                              /\ \A f \in FieldsOf(given.job) :
                                    config[c][f] =
                                        IF f \in DOMAIN given.cli THEN given.cli[f]
                                        ELSE IF f \in DOMAIN given.file THEN given.file[f]
                                        ELSE Default(given.job, f)
                              /\ \A f \in FieldsOf(given.job) : config[c][f] # "bad"
                         /\ wrote[c] => ~Asked(c, "dry_run")
    BY DEF WorksAsAsked
  <2>1. wrote[c] => ~Asked(c, "dry_run")
    BY DEF CommandInv, DryInv
  <2>2. pc[c] \in Working =>
          config[c] = UserConfig(c) /\ Validates(plan[c].job, config[c])
    BY DEF CommandInv, ConfigInv, Configured
  <2> QED BY <2>1, <2>2, MergedValues DEF CommandInv, TypeOK, Validates
<1> QED BY <1>1, CommandInvariant, PTL

-----------------------------------------------------------------------------
(* Cleaning                                                                *)

(* What a topic has kept since before a cleaning is only on topics it      *)
(* deletes, and never outlives an absent topic.                            *)
StaleInv(c) ==
    /\ \A t \in Topics : c \in topics[t].stale =>
          /\ t \in TopicNames(config[c])
          /\ pc[c] \notin {"parse", "load", "merge"}
    /\ plan[c].job = "clean_topics" /\ result[c] = "complete" =>
          /\ pc[c] = "ended"
          /\ \A t \in Topics : c \notin topics[t].stale

CleanInv ==
    /\ \A t \in Topics : topics[t].state = "absent" => topics[t].stale = {}
    /\ \A c \in DOMAIN plan : StaleInv(c)

LEMMA InitClean == Init => CleanInv
<1> SUFFICES ASSUME Init PROVE CleanInv
  OBVIOUS
<1>1. ASSUME NEW t \in Topics PROVE topics[t].stale = {}
  <2>1. topics \in [Topics -> {Untouched(s) : s \in {"absent", "present"}}]
    BY PlanAssumption DEF Init
  <2>2. topics[t] \in {Untouched(s) : s \in {"absent", "present"}}
    BY <2>1
  <2> QED BY <2>2 DEF Untouched
<1>2. \A c \in DOMAIN plan : result[c] # "complete"
  BY NoneAssumption DEF Init, Ends
<1> QED BY <1>1, <1>2 DEF CleanInv, StaleInv

(* A step that changes no topic is only of interest where it is taken.     *)
LEMMA TopicsKept ==
    ASSUME CleanInv, NEW c \in DOMAIN plan, OnlyAt(c), UNCHANGED topics, StaleInv(c)'
    PROVE  CleanInv'
<1>1. ASSUME NEW d \in DOMAIN plan \ {c} PROVE StaleInv(d)'
  BY <1>1 DEF CleanInv, StaleInv, OnlyAt
<1> QED BY <1>1 DEF CleanInv, OnlyAt

LEMMA SetUpClean ==
    ASSUME CommandInv, CleanInv, NEW c \in DOMAIN plan,
           ParseArgs(c) \/ LoadJobConfig(c) \/ MergeJobConfig(c)
    PROVE  CleanInv'
<1>1. /\ pc[c] \in {"parse", "load", "merge"} /\ UNCHANGED <<plan, topics>>
      /\ \/ UNCHANGED result
         \/ \E how \in {"usage", "config error", "invalid"} : End(c, how)
  BY DEF ParseArgs, LoadJobConfig, MergeJobConfig, settings, producer
<1>2. \A t \in Topics : c \notin topics[t].stale
  BY <1>1 DEF CleanInv, StaleInv
<1>3. plan[c].job = "clean_topics" => result'[c] # "complete"
  BY <1>1 DEF CleanInv, StaleInv, End, CommandInv, TypeOK
<1>4. StaleInv(c)'
  BY <1>1, <1>2, <1>3 DEF StaleInv
<1> QED BY <1>1, <1>4, ParseStep, LoadStep, MergeStep, TopicsKept

LEMMA WorkingClean ==
    ASSUME CommandInv, CleanInv, NEW c \in DOMAIN plan,
           \/ WorkOfOtherModules(c) \/ ProduceEvents(c) \/ Deliver(c)
           \/ WatchRedisValues(c) \/ Abort(c)
    PROVE  CleanInv'
<1>1. UNCHANGED <<plan, config, topics>>
  BY DEF WorkOfOtherModules, ProduceEvents, Deliver, WatchRedisValues, Abort, settings,
         producer
<1>2. OnlyAt(c)
  BY WorkStep, ProduceStep, DeliverStep, WatchStep, AbortStep
<1>3. \/ UNCHANGED <<pc, result>>
      \/ /\ pc[c] # "ended" /\ pc'[c] \notin {"parse", "load", "merge"}
         /\ plan[c].job = "clean_topics" => result'[c] # "complete"
  <2>1. CASE WorkOfOtherModules(c)
    <3>1. /\ pc[c] \in {"main", "work"} /\ plan[c].job # "clean_topics"
          /\ \/ UNCHANGED <<pc, result>>
             \/ Goto(c, "work")
             \/ Goto(c, "ended")
      BY <2>1 DEF WorkOfOtherModules, SeedValues, ResetValues, PersistRedisBuckets,
             RunWeightUpdate, RunRealtimeCtr, RunStreamingWeightUpdate, RunExperiment,
             Starts, PlansOnly, Works, Once, Forever, End
    <3> QED BY <3>1 DEF CommandInv, TypeOK, Goto
  <2>2. CASE ProduceEvents(c)
    <3>1. plan[c].job = "produce_events" /\ pc[c] \in {"main", "publish", "flush", "close"}
      BY <2>2 DEF ProduceEvents, PlansOnly, Starts, Publish, Flush, Close, CommandInv,
                  JobInv
    <3>2. \E stage \in {"publish", "flush", "close", "ended"} : Goto(c, stage)
      BY <2>2, PublishFacts DEF ProduceEvents, PlansOnly, Starts, Flush, Close, End
    <3> QED BY <3>1, <3>2 DEF CommandInv, TypeOK, Goto
  <2>3. CASE Deliver(c)
    BY <2>3 DEF Deliver
  <2>4. CASE WatchRedisValues(c)
    <3>1. /\ pc[c] \in {"main", "snapshot", "sleep"}
          /\ \/ \E stage \in {"snapshot", "sleep"} : Goto(c, stage) /\ UNCHANGED result
             \/ \E how \in {"failed", "printed"} : End(c, how)
      BY <2>4 DEF WatchRedisValues, Starts, CollectSnapshot
    <3>2. plan[c].job = "clean_topics" => result[c] # "complete"
      BY <3>1 DEF CleanInv, StaleInv
    <3> QED BY <3>1, <3>2 DEF CommandInv, TypeOK, Goto, End
  <2>5. CASE Abort(c)
    <3>1. PICK how \in {"failed", "stopped", "interrupted"} :
              /\ result' = [result EXCEPT ![c] = how]
              /\ Goto(c, "close") \/ Goto(c, "ended")
      BY <2>5 DEF Abort, End
    <3>2. pc[c] # "ended"
      BY <2>5 DEF Abort, Working
    <3> QED BY <3>1, <3>2 DEF CommandInv, TypeOK, Goto
  <2> QED BY <2>1, <2>2, <2>3, <2>4, <2>5
<1>4. StaleInv(c)
  BY DEF CleanInv
<1>5. StaleInv(c)'
  BY <1>1, <1>3, <1>4 DEF StaleInv
<1> QED BY <1>1, <1>2, <1>5, TopicsKept

LEMMA CleaningClean ==
    ASSUME CommandInv, CleanInv, NEW c \in DOMAIN plan, CleanTopics(c)
    PROVE  CleanInv'
<1>1. UNCHANGED <<plan, config>> /\ OnlyAt(c)
  BY CleanStep DEF CleanTopics, settings
<1>2. topics \in [Topics -> Topic] /\ StaleInv(c)
      /\ pc \in [DOMAIN plan -> Stages] /\ result \in [DOMAIN plan -> Results]
  BY DEF CommandInv, TypeOK, CleanInv
<1>3. CASE /\ pc[c] = "main" /\ UNCHANGED topics
           /\ \/ End(c, "dry run")
              \/ Goto(c, "delete") /\ UNCHANGED result
  <2>1. pc'[c] \in {"delete", "ended"} /\ (result'[c] = "dry run" \/ result' = result)
    BY <1>2, <1>3 DEF End, Goto
  <2>2. StaleInv(c)'
    BY <1>1, <1>2, <1>3, <2>1 DEF StaleInv
  <2> QED BY <1>1, <1>3, <2>2, TopicsKept
<1>4. CASE DeleteTopics(c)
  <2>1. \A t \in Topics :
            \/ topics'[t] = topics[t]
            \/ /\ t \in TopicNames(config[c])
               /\ topics'[t].state = "deleting"
               /\ topics'[t].stale = topics[t].stale \cup {c}
    BY <1>2, <1>4 DEF DeleteTopics, Topic
  <2>2. pc[c] = "delete" /\ pc'[c] = "create" /\ UNCHANGED result
    BY <1>2, <1>4 DEF DeleteTopics, Goto
  <2>3. \A t \in Topics : topics'[t].state = "absent" => topics'[t].stale = {}
    BY <2>1 DEF CleanInv
  <2>4. StaleInv(c)'
    BY <1>1, <1>2, <2>1, <2>2 DEF StaleInv
  <2>5. ASSUME NEW d \in DOMAIN plan \ {c} PROVE StaleInv(d)'
    BY <1>1, <2>1, <2>5 DEF StaleInv, CleanInv, OnlyAt
  <2> QED BY <1>1, <2>3, <2>4, <2>5 DEF CleanInv
<1>5. CASE CreateTopics(c)
  <2> DEFINE names == TopicNames(config[c])
             absent == {t \in names : topics[t].state = "absent"}
  <2>1. \A t \in Topics :
            \/ topics'[t] = topics[t] /\ t \notin absent
            \/ topics'[t].state = "present" /\ topics'[t].stale = {}
    BY <1>5 DEF CreateTopics
  <2>2. /\ pc'[c] = "ended"
        /\ result'[c] = IF absent = names THEN "complete" ELSE "failed"
    BY <1>2, <1>5 DEF CreateTopics, End, Goto
  <2>3. \A t \in Topics : topics'[t].state = "absent" => topics'[t].stale = {}
    BY <2>1 DEF CleanInv
  <2>4. \A t \in Topics : topics'[t].stale \subseteq topics[t].stale
    BY <2>1
  <2>5. ASSUME result'[c] = "complete", NEW t \in Topics PROVE c \notin topics'[t].stale
    <3>1. absent = names
      BY <2>2, <2>5
    <3>2. c \in topics[t].stale => t \in names
      BY <1>2 DEF StaleInv
    <3>3. t \in names => topics'[t].stale = {}
      BY <2>1, <3>1
    <3> QED BY <2>4, <3>2, <3>3
  <2>6. StaleInv(c)'
    BY <1>1, <1>2, <2>2, <2>4, <2>5 DEF StaleInv
  <2>7. ASSUME NEW d \in DOMAIN plan \ {c} PROVE StaleInv(d)'
    BY <1>1, <2>4, <2>7 DEF StaleInv, CleanInv, OnlyAt
  <2> QED BY <1>1, <2>3, <2>6, <2>7 DEF CleanInv
<1> QED BY <1>3, <1>4, <1>5 DEF CleanTopics, PlansOnly, Starts

LEMMA BrokerClean ==
    ASSUME CommandInv, CleanInv, NEW t \in Topics, FinishDeletion(t)
    PROVE  CleanInv'
<1>1. /\ UNCHANGED <<plan, config, pc, result>>
      /\ topics' = [topics EXCEPT ![t] = Untouched("absent")]
      /\ topics \in [Topics -> Topic]
  BY DEF FinishDeletion, settings, CommandInv, TypeOK
<1>2. \A u \in Topics : topics'[u] = topics[u] \/ topics'[u].stale = {}
  BY <1>1 DEF Untouched
<1>3. ASSUME NEW c \in DOMAIN plan PROVE StaleInv(c)'
  BY <1>1, <1>2 DEF CleanInv, StaleInv
<1> QED BY <1>1, <1>2, <1>3 DEF CleanInv

LEMMA StepClean == CommandInv /\ CleanInv /\ [Next]_vars => CleanInv'
<1>1. CommandInv /\ CleanInv /\ UNCHANGED vars => CleanInv'
  BY DEF vars, settings, CleanInv, StaleInv
<1> QED
  BY <1>1, SetUpClean, WorkingClean, CleaningClean, BrokerClean DEF Next, Finished

(* A cleaning that says it is complete has left nothing of what its topics *)
(* held when it began, whatever the broker, other cleanings and producers  *)
(* do meanwhile (kafka_admin.py).                                          *)
THEOREM CleanedFresh == Spec => []CleanedMeansFresh
<1>1. CleanInv => CleanedMeansFresh
  BY DEF CleanInv, StaleInv, CleanedMeansFresh
<1> QED BY <1>1, InitClean, CommandInvariant, StepClean, PTL DEF Spec
=============================================================================
