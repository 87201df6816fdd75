---------------------------- MODULE MCConfigLoad ----------------------------
(* ConfigLoad for TLC: four home files, and the settings added to them.     *)
EXTENDS ConfigLoad, TLC

WithLLM == Provider("p1") :> "complete" @@ Provider("p2") :> "complete" @@ DefaultProvider :> "p1"
Team == [p \in {Legacy(s, "subagent_count") : s \in Stages} |-> "two"]
        @@ [p \in {Legacy(s, "provider_list") : s \in Stages} |-> "both"]
        @@ LegacyEnabled :> "true"
DeepLists == [p \in {ProviderList(s) : s \in Stages} |-> "p1"] @@ Mode :> "deep"

MCBases == {<< >>, WithLLM, WithLLM @@ Team, WithLLM @@ DeepLists}

MCChanges ==
    ({Mode} \X {"fast", "deep", "null", "blank"})
    \cup ({Replication("analyzer"), Replication("exploiter")} \X {"zero", "two", "twentyone"})
    \cup ({MaxRounds} \X {"twenty", "blank"}) \cup {<<DebateEnabled, "false">>}
    \cup ({ProviderList("validator")} \X {"p2", "p3", "empty"})
    \cup ({WorkerCount} \X {"sixteen", "seventeen", "null"}) \cup {<<PathConcurrency, "two">>}
    \cup ({LegacyEnabled} \X {"true", "false", "maybe"})
    \cup {<<Legacy("analyzer", "subagent_count"), "twentyone">>,
          <<Legacy("validator", "debate_rounds"), "one">>,
          <<Legacy("exploiter", "provider_list"), "p3">>,
          <<LegacyLLM, "complete">>, <<LegacyLLM, "incomplete">>, <<DefaultProvider, "p2">>,
          <<AgentProvider, "p3">>, <<Provider("p3"), "complete">>, <<Provider("p3"), "incomplete">>}
    \cup ({<<"audit">>, <<"teaming">>, <<"audit", "replication">>, <<"audit", "validator", "debate">>} \X {"null", "text"})
    \cup ({<<"runtime">>, <<"repository">>, <<"llm">>} \X {"null"})
    \cup {<< <<"graph", "build", "paths_max_count">>, "zero">>,
          << <<"reportdb", "port">>, "zero">>, << <<"coder", "concurrency">>, "zero">>,
          << <<"coder", "workspace_root">>, "ws">>, << <<"coder", "repo_mount_path">>, "repo">>,
          << <<"coder", "transport">>, "http">>, << <<"coder", "enable_auth">>, "true">>}
=============================================================================
