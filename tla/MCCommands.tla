----------------------------- MODULE MCCommands -----------------------------
(***************************************************************************)
(* Commands started alone, with up to two fields given by the file and two *)
(* by the command line, and cleanings and producers in pairs.              *)
(***************************************************************************)
EXTENDS Commands

CONSTANTS c1, c2
MCCommand == {c1, c2}

(* For each job a field of every sort it has.                              *)
Varied ==
    [seed_values |-> {"dry_run", "baseline_prior_mean"},
     reset_values |-> {"dry_run"},
     clean_topics |-> {"dry_run", "only", "event_topic", "topic_partitions"},
     produce_events |-> {"dry_run", "also_unified", "click_topic", "impressions"},
     run_realtime_ctr |-> {"redis_flush_mode", "parallelism", "consumer_group"},
     run_weight_update |-> {"dry_run", "once", "max_delta"},
     run_streaming_weight_update |-> {"dry_run", "max_delta", "click_topic"},
     persist_redis_buckets |-> {"dry_run"},
     watch_redis_values |-> {"watch", "limit"} \cup FocusedBucket,
     run_experiment |-> {"dry_run", "experiment_name"}]

UpToTwo(fields) == {given \in SUBSET fields : Cardinality(given) <= 2}

Given(job, origin) ==
    UNION {Assignments(job, fields, origin) : fields \in UpToTwo(Varied[job])}
FromFile(job) == Given(job, "file")
FromCli(job) ==
    {given \in Given(job, "cli") \cup (IF job = "watch_redis_values"
                                      THEN Assignments(job, FocusedBucket, "cli") ELSE {}) :
        MayOverride(job, DOMAIN given)}

Alone ==
    UNION {{(c1 :> [job |-> job, state |-> "object", file |-> file, cli |-> cli]) :
               file \in FromFile(job), cli \in FromCli(job)} : job \in Jobs}
Unreadable ==
    {(c1 :> [job |-> job, state |-> state, file |-> <<>>, cli |-> <<>>]) :
        job \in Jobs, state \in FileStates \ {"object"}}

Plain(job, cli) == [job |-> job, state |-> "object", file |-> <<>>, cli |-> cli]
Pairs ==
    {(c1 :> Plain("clean_topics", first)) @@ (c2 :> second) :
        first \in {<<>>, "only" :> "cli"},
        second \in {Plain("clean_topics", <<>>), Plain("clean_topics", "only" :> "cli"),
                     Plain("produce_events", <<>>),
                     Plain("produce_events", "also_unified" :> "on")}}

MCPlans == Alone \cup Unreadable \cup Pairs

MCTopics == {"impressions", "clicks", "events", "dead letters", "other events"}
Named(byDefault, byFile, byCli) ==
    ("default" :> byDefault) @@ ("file" :> byFile) @@ ("cli" :> byCli)
MCTopicNamed ==
    [impression_topic |-> Named("impressions", "impressions", "impressions"),
     click_topic |-> Named("clicks", "clicks", "clicks"),
     event_topic |-> Named("events", "other events", "events"),
     dead_letter_topic |-> Named("dead letters", "dead letters", "dead letters")]
MCOnly == [file |-> {"clicks"}, cli |-> {"clicks", "other events"}]

(* As create-topics.sh leaves them: the project's topics are there.        *)
MCInitialTopics ==
    {[t \in Topics |-> Untouched(IF t \in there THEN "present" ELSE "absent")] :
        there \in {Topics \ {"other events"}, Topics \ {"dead letters", "other events"}}}
MCBatch == <<"impression", "click">>
=============================================================================
