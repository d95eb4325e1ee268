------------------------------ MODULE Commands ------------------------------
(***************************************************************************)
(* The commands as a user starts them: jobs/*.py from parse_args to the    *)
(* summary they print, with the configuration each works with              *)
(* (job_config_loader.py, models/job_configs.py), and in full the three    *)
(* whose work no other module has: clean-topics, produce-events and        *)
(* watch-redis-values, against a broker that deletes topics in its own     *)
(* time.  Commands run concurrently.                                       *)
(*                                                                         *)
(* The value of a field is known by where it comes from; "bad" is a value  *)
(* the field's declaration rejects.                                        *)
(***************************************************************************)
EXTENDS Naturals, Sequences, FiniteSets, SequencesExt

CONSTANTS
    Command,       \* the commands' processes
    Plans,         \* what may be started: invocations of some commands
    None,          \* Python's None: an optional field without a value
    Topics,        \* the names of topics
    TopicNamed,    \* the topic a topic field names, by where its value comes from
    Only,          \* the topics "only" lists, by where they come from
    Batch,         \* the events of a producer, by kind
    InitialTopics  \* what the broker may hold at first

Jobs == {"seed_values", "reset_values", "clean_topics", "produce_events",
         "run_realtime_ctr", "run_weight_update", "run_streaming_weight_update",
         "persist_redis_buckets", "watch_redis_values", "run_experiment"}

-----------------------------------------------------------------------------
(* The configuration of each job: its flags, the fields whose range is     *)
(* limited, those argparse offers choices for, and free text.              *)

Fields(flags, limited, choices, texts) ==
    [flags |-> flags, limited |-> limited, choices |-> choices, texts |-> texts]

SeedValuesConfig ==
    Fields({"dry_run"},
           {"baseline_prior_mean", "triplet_prior_strength",
            "global_prior_strength", "ad_prior_strength",
            "domain_prior_strength", "context_prior_strength"}, {}, {})

ResetValuesConfig == Fields({"dry_run"}, {}, {}, {})

CleanTopicsConfig ==
    Fields({"dry_run"}, {"topic_partitions", "dead_letter_topic_partitions"}, {},
           {"only", "impression_topic", "click_topic", "event_topic",
            "dead_letter_topic"})

ProduceEventsConfig ==
    Fields({"also_unified", "dry_run"},
           {"impressions", "events_per_second", "log_every"}, {},
           {"random_seed", "impression_topic", "click_topic", "event_topic"})

RealtimeCtrConfig ==
    Fields({},
           {"parallelism", "checkpoint_interval_ms", "log_every",
            "metrics_flush_interval_ms", "redis_flush_interval_ms",
            "redis_flush_max_updates", "trust_z_score", "trust_min_impressions",
            "trust_max_variance", "trust_max_ci_width"},
           {"starting_offsets", "redis_flush_mode"},
           {"impression_topic", "click_topic", "dead_letter_topic",
            "consumer_group", "kafka_connector_jar"})

UpdateLimits ==
    {"interval_seconds", "learning_rate", "evidence_smoothing", "ridge",
     "max_delta", "min_feature_impressions", "max_feature_ci_width",
     "snapshot_name_prefix", "baseline_max_ci_width"}

WeightUpdateConfig ==
    Fields({"once", "baseline_update", "dry_run"}, UpdateLimits, {}, {})

StreamingWeightUpdateConfig ==
    Fields({"baseline_update", "dry_run"},
           UpdateLimits \cup {"parallelism", "checkpoint_interval_ms"}, {},
           {"impression_topic", "click_topic", "consumer_group",
            "kafka_connector_jar"})

PersistRedisBucketsConfig == Fields({"dry_run"}, {}, {}, {})

FocusedBucket == {"ad_category", "publisher_domain", "conversation_category"}

WatchRedisValuesConfig ==
    Fields({"watch", "pretty_json"}, {"limit", "interval_seconds"}, {},
           {"pattern"} \cup FocusedBucket)

RunExperimentConfig ==
    Fields({"dry_run"}, {"experiment_name"}, {}, {"output_dir"})

ConfigOf ==
    [seed_values |-> SeedValuesConfig, reset_values |-> ResetValuesConfig,
     clean_topics |-> CleanTopicsConfig, produce_events |-> ProduceEventsConfig,
     run_realtime_ctr |-> RealtimeCtrConfig,
     run_weight_update |-> WeightUpdateConfig,
     run_streaming_weight_update |-> StreamingWeightUpdateConfig,
     persist_redis_buckets |-> PersistRedisBucketsConfig,
     watch_redis_values |-> WatchRedisValuesConfig,
     run_experiment |-> RunExperimentConfig]

FieldsOf(job) ==
    LET c == ConfigOf[job] IN c.flags \cup c.limited \cup c.choices \cup c.texts

OnByDefault == {"baseline_update", "pretty_json"}
OptionalFields == {"only"} \cup FocusedBucket

Default(job, field) ==
    IF field \in ConfigOf[job].flags THEN IF field \in OnByDefault THEN "on" ELSE "off"
    ELSE IF field \in OptionalFields THEN None ELSE "default"

(* What a file, or the command line, can give a field.                     *)
Values(job, field, origin) ==
    IF field \in ConfigOf[job].flags THEN {"on", "off"}
    ELSE IF field \in ConfigOf[job].texts THEN {origin} ELSE {origin, "bad"}

Assignments(job, fields, origin) ==
    {given \in [fields -> {"on", "off", origin, "bad"}] :
        \A f \in fields : given[f] \in Values(job, f, origin)}

(* pydantic's model_validate.                                              *)
Validates(job, cfg) ==
    \A f \in ConfigOf[job].limited \cup ConfigOf[job].choices : cfg[f] # "bad"

(* The dictionary of the second over the first.                            *)
Over(first, second) ==
    [f \in DOMAIN first |-> IF f \in DOMAIN second THEN second[f] ELSE first[f]]

Defaults(job) == [f \in FieldsOf(job) |-> Default(job, f)]

-----------------------------------------------------------------------------
(* What the command line can override: each job's parser and its           *)
(* _cli_overrides.  --bucket sets three fields at once; --experiment is    *)
(* experiment_name.                                                        *)

SeedValuesOverrides == FieldsOf("seed_values")
ResetValuesOverrides == FieldsOf("reset_values")
CleanTopicsOverrides == FieldsOf("clean_topics")
ProduceEventsOverrides == FieldsOf("produce_events")
RealtimeCtrOverrides == FieldsOf("run_realtime_ctr")
WeightUpdateOverrides == FieldsOf("run_weight_update")
StreamingWeightUpdateOverrides == FieldsOf("run_streaming_weight_update")
PersistRedisBucketsOverrides == FieldsOf("persist_redis_buckets")
WatchRedisValuesOverrides(given) ==
    given \subseteq FieldsOf("watch_redis_values")
        /\ given \cap FocusedBucket \in {{}, FocusedBucket}
RunExperimentOverrides == FieldsOf("run_experiment")

MayOverride(job, given) ==
    CASE job = "seed_values" -> given \subseteq SeedValuesOverrides
      [] job = "reset_values" -> given \subseteq ResetValuesOverrides
      [] job = "clean_topics" -> given \subseteq CleanTopicsOverrides
      [] job = "produce_events" -> given \subseteq ProduceEventsOverrides
      [] job = "run_realtime_ctr" -> given \subseteq RealtimeCtrOverrides
      [] job = "run_weight_update" -> given \subseteq WeightUpdateOverrides
      [] job = "run_streaming_weight_update" ->
            given \subseteq StreamingWeightUpdateOverrides
      [] job = "persist_redis_buckets" -> given \subseteq PersistRedisBucketsOverrides
      [] job = "watch_redis_values" -> WatchRedisValuesOverrides(given)
      [] job = "run_experiment" -> given \subseteq RunExperimentOverrides

(* An invocation: the job, the state of its YAML file, what the file and   *)
(* the command line give.  Keys of the file no field has are ignored, as   *)
(* if the file did not have them; an empty file is an object.              *)
FileStates == {"missing", "malformed", "not an object", "object"}
IsInvocation(v) ==
    /\ v.job \in Jobs
    /\ v.state \in FileStates
    /\ DOMAIN v.file \subseteq FieldsOf(v.job)
    /\ MayOverride(v.job, DOMAIN v.cli)
    /\ \A f \in DOMAIN v.file : v.file[f] \in Values(v.job, f, "file")
    /\ \A f \in DOMAIN v.cli : v.cli[f] \in Values(v.job, f, "cli")

TopicFields == {"impression_topic", "click_topic", "event_topic", "dead_letter_topic"}
Counts == {"topic_partitions", "dead_letter_topic_partitions"}

(* stale: the cleanings that began when the topic held what it holds.      *)
Topic == [state : {"absent", "present", "deleting"}, partitions : Counts,
          stale : SUBSET Command]
Untouched(state) == [state |-> state, partitions |-> "topic_partitions", stale |-> {}]

ASSUME PlanAssumption ==
    /\ \A plan \in Plans :
          /\ DOMAIN plan \subseteq Command
          /\ \A c \in DOMAIN plan : IsInvocation(plan[c])
    /\ TopicNamed \in [TopicFields -> [{"default", "file", "cli"} -> Topics]]
    /\ \A f, g \in TopicFields : \A x, y \in {"default", "file", "cli"} :
          TopicNamed[f][x] = TopicNamed[g][y] => f = g
    /\ Only \in [{"file", "cli"} -> SUBSET Topics]
    /\ InitialTopics \subseteq [Topics -> {Untouched(s) : s \in {"absent", "present"}}]
    /\ Batch \in Seq({"impression", "click"})

(* How a command ends.                                                     *)
Ends == {"usage", "config error", "invalid", "dry run", "complete", "printed",
         "stopped", "failed", "interrupted"}

(* None is none of the other values of a field, or of a result.            *)
ASSUME NoneAssumption ==
    None \notin {"on", "off", "default", "file", "cli", "bad"} \cup Ends

VARIABLES
    plan,    \* the commands that run, as they were started
    pc,      \* what each does next
    config,  \* its configuration
    result,  \* how it ended
    wrote,   \* history: it has changed Kafka, Redis or Postgres
    shown,   \* what the watcher's last snapshot printed
    index,   \* events the producer has been given
    buffer,  \* topics with records in the producer's buffer
    known,   \* topics the producer has metadata of
    topics   \* the broker

settings == <<plan, config>>
producer == <<index, buffer, known>>
vars == <<settings, pc, result, wrote, shown, producer, topics>>

Working == {"work", "delete", "create", "snapshot", "sleep", "publish", "flush"}
Results == {None} \cup Ends

Init ==
    /\ plan \in Plans
    /\ pc = [c \in DOMAIN plan |-> "parse"]
    /\ config = [c \in DOMAIN plan |-> <<>>]
    /\ result = [c \in DOMAIN plan |-> None]
    /\ wrote = [c \in DOMAIN plan |-> FALSE]
    /\ shown = [c \in DOMAIN plan |-> "nothing"]
    /\ index = [c \in DOMAIN plan |-> 0]
    /\ buffer = [c \in DOMAIN plan |-> {}]
    /\ known = [c \in DOMAIN plan |-> {}]
    /\ topics \in InitialTopics

Goto(c, stage) == pc' = [pc EXCEPT ![c] = stage]
End(c, how) ==
    /\ Goto(c, "ended")
    /\ result' = [result EXCEPT ![c] = how]
Writes(c) == wrote' = [wrote EXCEPT ![c] = TRUE]
Asked(c, flag) == flag \in DOMAIN config[c] /\ config[c][flag] = "on"

-----------------------------------------------------------------------------
(* Parsing the command line.  A value of the wrong type ends the command   *)
(* like one that is not among the choices.                                 *)
ParseArgs(c) ==
    LET cli == plan[c].cli
        rejected == \E f \in DOMAIN cli \cap ConfigOf[plan[c].job].choices : cli[f] = "bad"
    IN /\ pc[c] = "parse"
       /\ \/ rejected /\ End(c, "usage")
          \/ ~rejected /\ Goto(c, "load") /\ UNCHANGED result
       /\ UNCHANGED <<settings, wrote, shown, producer, topics>>

(* The file is validated before anything overrides it.                     *)
LoadJobConfig(c) ==
    LET given == Over(Defaults(plan[c].job), plan[c].file)
        loads == plan[c].state = "object" /\ Validates(plan[c].job, given)
    IN /\ pc[c] = "load"
       /\ \/ /\ loads
             /\ config' = [config EXCEPT ![c] = given]
             /\ Goto(c, "merge")
             /\ UNCHANGED result
          \/ ~loads /\ End(c, "config error") /\ UNCHANGED config
       /\ UNCHANGED <<plan, wrote, shown, producer, topics>>

FileOverCommandLine(c) == Over(Over(config[c], plan[c].cli), plan[c].file)

(* {**config, **overrides}, validated again.                               *)
Merged(c) == Over(config[c], plan[c].cli)

MergeJobConfig(c) ==
    LET valid == Validates(plan[c].job, Merged(c))
    IN /\ pc[c] = "merge"
       /\ \/ /\ valid
             /\ config' = [config EXCEPT ![c] = Merged(c)]
             /\ Goto(c, "main")
             /\ UNCHANGED result
          \/ ~valid /\ End(c, "invalid") /\ UNCHANGED config
       /\ UNCHANGED <<plan, wrote, shown, producer, topics>>

-----------------------------------------------------------------------------
(* The rest of each main.  What seed-values, reset-values, the Flink jobs, *)
(* the weight update, the persistence and the experiment do is in modules  *)
(* of their own: here it writes, unless it is a dry run, and ends or goes  *)
(* on.                                                                     *)

Starts(c, job, stage) ==
    pc[c] = "main" /\ plan[c].job = job /\ Goto(c, stage) /\ UNCHANGED result
PlansOnly(c, job) ==
    pc[c] = "main" /\ plan[c].job = job /\ Asked(c, "dry_run") /\ End(c, "dry run")

(* One pass of the work, through adapters that do nothing in a dry run.    *)
Pass(c) ==
    \/ ~Asked(c, "dry_run") /\ Writes(c)
    \/ UNCHANGED wrote
Works(c, job) == pc[c] = "work" /\ plan[c].job = job
Once(c) == Pass(c) /\ End(c, IF Asked(c, "dry_run") THEN "dry run" ELSE "complete")
Forever(c) == Pass(c) /\ UNCHANGED <<pc, result>>

SeedValues(c) ==
    \/ PlansOnly(c, "seed_values") /\ UNCHANGED wrote
    \/ ~Asked(c, "dry_run") /\ Starts(c, "seed_values", "work") /\ UNCHANGED wrote
    \/ Works(c, "seed_values") /\ Once(c)

ResetValues(c) ==
    \/ PlansOnly(c, "reset_values") /\ UNCHANGED wrote
    \/ ~Asked(c, "dry_run") /\ Starts(c, "reset_values", "work") /\ UNCHANGED wrote
    \/ Works(c, "reset_values") /\ Once(c)

PersistRedisBuckets(c) ==
    \/ Starts(c, "persist_redis_buckets", "work") /\ UNCHANGED wrote
    \/ Works(c, "persist_redis_buckets") /\ Once(c)

RunWeightUpdate(c) ==
    \/ Starts(c, "run_weight_update", "work") /\ UNCHANGED wrote
    \/ Works(c, "run_weight_update") /\ Asked(c, "once") /\ Once(c)
    \/ Works(c, "run_weight_update") /\ ~Asked(c, "once") /\ Forever(c)

RunRealtimeCtr(c) ==
    \/ Starts(c, "run_realtime_ctr", "work") /\ UNCHANGED wrote
    \/ Works(c, "run_realtime_ctr") /\ Forever(c)

RunStreamingWeightUpdate(c) ==
    \/ Starts(c, "run_streaming_weight_update", "work") /\ UNCHANGED wrote
    \/ Works(c, "run_streaming_weight_update") /\ Forever(c)

(* The experiment's definition is a second file, read before the try.      *)
RunExperiment(c) ==
    \/ Starts(c, "run_experiment", "work") /\ UNCHANGED wrote
    \/ /\ pc[c] = "main" /\ plan[c].job = "run_experiment"
       /\ End(c, "config error")
       /\ UNCHANGED wrote
    \/ Works(c, "run_experiment") /\ Once(c)

WorkOfOtherModules(c) ==
    /\ \/ SeedValues(c) \/ ResetValues(c) \/ PersistRedisBuckets(c)
       \/ RunWeightUpdate(c) \/ RunRealtimeCtr(c)
       \/ RunStreamingWeightUpdate(c) \/ RunExperiment(c)
    /\ UNCHANGED <<settings, shown, producer, topics>>

-----------------------------------------------------------------------------
(* clean-topics.                                                           *)

TopicNames(cfg) ==
    IF cfg["only"] # None /\ Only[cfg["only"]] # {} THEN Only[cfg["only"]]
    ELSE {TopicNamed[f][cfg[f]] : f \in TopicFields}

PartitionCount(cfg, t) ==
    IF t = TopicNamed["dead_letter_topic"][cfg["dead_letter_topic"]]
    THEN "dead_letter_topic_partitions" ELSE "topic_partitions"

(* delete_topics: the broker marks what it has and deletes it in its own   *)
(* time, which the sleep only guesses; topics it does not have are an      *)
(* error the code ignores.                                                 *)
DeleteTopics(c) ==
    /\ pc[c] = "delete"
    /\ topics' = [t \in Topics |->
          IF t \in TopicNames(config[c]) /\ topics[t].state # "absent"
          THEN [topics[t] EXCEPT !.state = "deleting", !.stale = @ \cup {c}]
          ELSE topics[t]]
    /\ Goto(c, "create")
    /\ Writes(c)
    /\ UNCHANGED result

ExistingAccepted(c) ==
    LET names == TopicNames(config[c])
    IN /\ pc[c] = "create"
       /\ topics' = [t \in Topics |->
             IF t \in names /\ topics[t].state = "absent"
             THEN [state |-> "present", partitions |-> PartitionCount(config[c], t),
                   stale |-> {}]
             ELSE topics[t]]
       /\ End(c, "complete")
       /\ UNCHANGED wrote

(* create_topics: the broker creates those it does not have; one it has,   *)
(* or is still deleting, fails the command.                                *)
CreateTopics(c) ==
    LET names == TopicNames(config[c])
        absent == {t \in names : topics[t].state = "absent"}
    IN /\ pc[c] = "create"
       /\ topics' = [t \in Topics |->
             IF t \in absent
             THEN [state |-> "present", partitions |-> PartitionCount(config[c], t),
                   stale |-> {}]
             ELSE topics[t]]
       /\ End(c, IF absent = names THEN "complete" ELSE "failed")
       /\ UNCHANGED wrote

CleanTopics(c) ==
    /\ \/ PlansOnly(c, "clean_topics") /\ UNCHANGED <<wrote, topics>>
       \/ /\ ~Asked(c, "dry_run")
          /\ Starts(c, "clean_topics", "delete")
          /\ UNCHANGED <<wrote, topics>>
       \/ DeleteTopics(c) \/ CreateTopics(c)
    /\ UNCHANGED <<settings, shown, producer>>

(* The broker.                                                             *)
FinishDeletion(t) ==
    /\ topics[t].state = "deleting"
    /\ topics' = [topics EXCEPT ![t] = Untouched("absent")]
    /\ UNCHANGED <<settings, pc, result, wrote, shown, producer>>

-----------------------------------------------------------------------------
(* produce-events.                                                         *)

TopicForEvent(cfg, kind) ==
    IF kind = "impression" THEN TopicNamed["impression_topic"][cfg["impression_topic"]]
    ELSE TopicNamed["click_topic"][cfg["click_topic"]]

(* send waits for the topic's metadata, and fails if there is none; once   *)
(* the producer has it, send only puts the record into the buffer.         *)
Publish(c) ==
    LET to == {TopicForEvent(config[c], Batch[index[c] + 1])}
                 \cup (IF Asked(c, "also_unified")
                       THEN {TopicNamed["event_topic"][config[c]["event_topic"]]} ELSE {})
        sent == {t \in to : t \in known[c] \/ topics[t].state = "present"}
    IN /\ pc[c] = "publish" /\ index[c] < Len(Batch)
       /\ buffer' = [buffer EXCEPT ![c] = @ \cup sent]
       /\ known' = [known EXCEPT ![c] = @ \cup sent]
       /\ \/ /\ sent = to
             /\ index' = [index EXCEPT ![c] = @ + 1]
             /\ Goto(c, IF index'[c] = Len(Batch) THEN "flush" ELSE "publish")
             /\ UNCHANGED result
          \/ /\ sent # to
             /\ Goto(c, "close")
             /\ result' = [result EXCEPT ![c] = "failed"]
             /\ UNCHANGED index
       /\ UNCHANGED wrote

(* The producer's own thread.  A record for a topic that is gone is lost,  *)
(* and only its future knows.                                              *)
Deliver(c) ==
    \E t \in buffer[c] :
        /\ buffer' = [buffer EXCEPT ![c] = @ \ {t}]
        /\ wrote' = [wrote EXCEPT ![c] = @ \/ topics[t].state = "present"]
        /\ UNCHANGED <<settings, pc, result, shown, index, known, topics>>

Flush(c) ==
    /\ pc[c] = "flush" /\ buffer[c] = {}
    /\ Goto(c, "close")
    /\ result' = [result EXCEPT ![c] = "complete"]
    /\ UNCHANGED <<wrote, producer>>

(* finally: close() waits for what the buffer holds.                       *)
Close(c) ==
    /\ pc[c] = "close" /\ buffer[c] = {}
    /\ Goto(c, "ended")
    /\ UNCHANGED <<result, wrote, producer>>

ProduceEvents(c) ==
    /\ \/ PlansOnly(c, "produce_events") /\ UNCHANGED <<wrote, producer>>
       \/ /\ ~Asked(c, "dry_run")
          /\ Starts(c, "produce_events", "publish")
          /\ UNCHANGED <<wrote, producer>>
       \/ Publish(c) \/ Flush(c) \/ Close(c)
    /\ UNCHANGED <<settings, shown, topics>>

-----------------------------------------------------------------------------
(* watch-redis-values.                                                     *)

(* _bucket_from_config: all three fields, or none.                         *)
BucketFromConfig(cfg) ==
    LET missing == {f \in FocusedBucket : cfg[f] = None}
    IN IF missing = FocusedBucket THEN "values"
       ELSE IF missing = {} THEN "bucket" ELSE "error"

(* collect_snapshot and _print_snapshot: the focused bucket, or the values *)
(* a scan finds.                                                           *)
CollectSnapshot(c) ==
    /\ pc[c] = "snapshot"
    /\ shown' = [shown EXCEPT ![c] = BucketFromConfig(config[c])]
    /\ \/ Asked(c, "watch") /\ Goto(c, "sleep") /\ UNCHANGED result
       \/ ~Asked(c, "watch") /\ End(c, "printed")

WatchRedisValues(c) ==
    /\ \/ /\ Starts(c, "watch_redis_values", "snapshot")
          /\ BucketFromConfig(config[c]) # "error"
          /\ UNCHANGED shown
       \/ /\ pc[c] = "main" /\ plan[c].job = "watch_redis_values"
          /\ BucketFromConfig(config[c]) = "error"
          /\ End(c, "failed")
          /\ UNCHANGED shown
       \/ CollectSnapshot(c)
       \/ pc[c] = "sleep" /\ Goto(c, "snapshot") /\ UNCHANGED <<result, shown>>
    /\ UNCHANGED <<settings, wrote, producer, topics>>

-----------------------------------------------------------------------------
(* except Exception: print_failure and raise; except KeyboardInterrupt     *)
(* where main has it.  The producer is closed in both.                     *)
Stoppable == {"run_weight_update", "run_realtime_ctr", "run_streaming_weight_update",
              "watch_redis_values"}
Abort(c) ==
    /\ pc[c] \in Working
    /\ \E how \in {"failed",
                   IF plan[c].job \in Stoppable THEN "stopped" ELSE "interrupted"} :
          IF plan[c].job = "produce_events"
          THEN Goto(c, "close") /\ result' = [result EXCEPT ![c] = how]
          ELSE End(c, how)
    /\ UNCHANGED <<settings, wrote, shown, producer, topics>>

Finished ==
    /\ \A c \in DOMAIN plan : pc[c] = "ended"
    /\ UNCHANGED vars

Next ==
    \/ \E c \in DOMAIN plan :
          \/ ParseArgs(c) \/ LoadJobConfig(c) \/ MergeJobConfig(c)
          \/ WorkOfOtherModules(c) \/ CleanTopics(c) \/ ProduceEvents(c) \/ Deliver(c)
          \/ WatchRedisValues(c) \/ Abort(c)
    \/ \E t \in Topics : FinishDeletion(t)
    \/ Finished

Spec == Init /\ [][Next]_vars

-----------------------------------------------------------------------------
(* A command that works does so with what its user asked for: each field   *)
(* has the value of the command line, else of the file, else its default,  *)
(* and one its declaration accepts; and a dry run has changed nothing      *)
(* (job_config_loader.py, every job's main).                               *)
WorksAsAsked ==
    \A c \in DOMAIN plan :
        LET given == plan[c]
        IN /\ pc[c] \in Working =>
                /\ \A f \in FieldsOf(given.job) :
                      config[c][f] = IF f \in DOMAIN given.cli THEN given.cli[f]
                                     ELSE IF f \in DOMAIN given.file THEN given.file[f]
                                     ELSE Default(given.job, f)
                /\ \A f \in FieldsOf(given.job) : config[c][f] # "bad"
           /\ wrote[c] => ~Asked(c, "dry_run")

(* A cleaning that says it is complete has left nothing of what its topics *)
(* held when it began, whatever the broker, other cleanings and producers  *)
(* do meanwhile (kafka_admin.py).                                          *)
CleanedMeansFresh ==
    \A c \in DOMAIN plan :
        plan[c].job = "clean_topics" /\ result[c] = "complete" =>
            \A t \in Topics : c \notin topics[t].stale
=============================================================================
