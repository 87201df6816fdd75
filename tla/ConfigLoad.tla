------------------------------ MODULE ConfigLoad ------------------------------
(***************************************************************************)
(* load_config of config.py: defaults, the home file, the project file,    *)
(* the environment and the overrides of a caller are merged into one tree, *)
(* the legacy teaming.* settings are moved into audit.*, and each section  *)
(* is validated in turn.                                                   *)
(*                                                                         *)
(* A tree is a function on the paths of its leaves.  A leaf is a string;   *)
(* "null" is YAML's null, also where a section is expected, and "blank" an *)
(* environment variable of spaces.  Numbers, truth values and lists are    *)
(* what the normalisers make of such a string.                             *)
(***************************************************************************)
EXTENDS Integers, Sequences, FiniteSets, SequencesExt

CONSTANTS
    Bases,          \* home files to start from
    Changes,        \* settings <<path, value>> a source may add
    MaxChanges      \* bound on the settings added

Layers == <<"home", "project", "env", "cli">>
Stages == {"analyzer", "validator", "exploiter"}

\* A path is a sequence with a name on it.
IsPath(p) == p \in Seq(ToSet(p)) /\ p # << >>

ASSUME BasesAssumption == \A base \in Bases : \A p \in DOMAIN base : IsPath(p)
ASSUME ChangesAssumption == \A c \in Changes : IsPath(c[1])
ASSUME MaxChangesAssumption == MaxChanges \in Nat

VARIABLES
    pc,             \* the step of load_config, or how it ended
    source,         \* what each layer says
    require_llm,    \* the argument
    data,           \* the merged tree
    providers,      \* LLMSettings.providers, and its default_provider
    config          \* the XAuditorConfig as far as it is built

configVars == <<pc, source, require_llm, data, providers, config>>

-----------------------------------------------------------------------------
(* Settings *)

Mode == <<"audit", "mode">>
Replication(s) == <<"audit", "replication", s>>
ProviderList(s) == <<"audit", s, "provider_list">>
MaxRounds == <<"audit", "validator", "debate", "max_rounds">>
DebateEnabled == <<"audit", "validator", "debate", "enabled">>
WorkerCount == <<"audit", "worker_count">>
PathConcurrency == <<"audit", "path_concurrency">>
Legacy(s, key) == <<"teaming", s, key>>
LegacyEnabled == <<"teaming", "enabled">>
Provider(p) == <<"llm", "providers", p>>
DefaultProvider == <<"llm", "default_provider">>
LegacyLLM == <<"llm", "base_url">>
AgentProvider == <<"agents", "auditor", "llm", "provider">>

PathsMaxDepth == <<"graph", "build", "paths_max_depth">>
PathsMaxCount == <<"graph", "build", "paths_max_count">>

\* The integer settings of the dataclasses: the ones a mode has a preset
\* for, and all of them; their smallest, largest and default values.
ModeSettings == {Replication(s) : s \in Stages} \cup {MaxRounds}
IntSettings == ModeSettings \cup {WorkerCount, PathsMaxDepth, PathsMaxCount,
                                 <<"reportdb", "port">>, <<"coder", "concurrency">>}
Smallest(p) == IF p \in {Replication("exploiter"), PathsMaxCount} THEN 0 ELSE 1
Largest(p) == IF p = WorkerCount THEN 16 ELSE IF p \in ModeSettings THEN 20 ELSE 100
OwnDefaults == [p \in IntSettings |->
    IF p = PathsMaxDepth THEN 40 ELSE IF p = PathsMaxCount THEN 0 ELSE 1]

\* _MODE_PRESETS.
Presets ==
    [fast |-> [p \in ModeSettings |-> IF p = MaxRounds THEN 5 ELSE 1],
     deep |-> [p \in ModeSettings |-> IF p = MaxRounds THEN 2
                                     ELSE IF p = Replication("exploiter") THEN 1 ELSE 3]]

\* _normalize_positive_int, _normalize_bool, _normalize_provider_list: what
\* a leaf stands for, where it stands for anything.
Numbers == [zero |-> 0, one |-> 1, two |-> 2, sixteen |-> 16, seventeen |-> 17,
            twenty |-> 20, twentyone |-> 21]
Booleans == [true |-> TRUE, false |-> FALSE]
Lists == [p1 |-> {"p1"}, p2 |-> {"p2"}, p3 |-> {"p3"}, both |-> {"p1", "p2"},
          empty |-> {}, null |-> {}]
Names == {"p1", "p2", "p3"}

IsNumber(v, low, high) == v \in DOMAIN Numbers /\ Numbers[v] \in low..high

-----------------------------------------------------------------------------
(* Trees *)

\* The settings of f, and those of g that f leaves open (the TLC module's
\* @@, which has no definition that a proof can use).
Over(f, g) == [p \in DOMAIN f \cup DOMAIN g |-> IF p \in DOMAIN f THEN f[p] ELSE g[p]]
Setting(path, value) == [p \in {path} |-> value]

\* One path leads through the other.
Touch(p, q) == IsPrefix(p, q) \/ IsPrefix(q, p)

\* _merge_mapping: mappings are merged, anything else replaces what was
\* there, a mapping by a null as well as a null by a mapping.
Merge(target, incoming) ==
    Over(incoming, [p \in {q \in DOMAIN target : \A i \in DOMAIN incoming : ~Touch(i, q)}
                    |-> target[p]])

Defaults == Over(Setting(<<"runtime", "root_dir">>, "dir"), Setting(<<"logging", "level">>, "info"))

Has(p) == p \in DOMAIN data
Get(p, default) == IF Has(p) THEN data[p] ELSE default
\* A section that is null counts as empty; a text in its place is refused.
Sections ==
    {<<"audit">>, <<"audit", "replication">>, <<"audit", "validator", "debate">>, <<"teaming">>,
     <<"llm">>, <<"llm", "providers">>, <<"runtime">>, <<"repository">>, <<"graph">>, <<"graph", "build">>,
     <<"reportdb">>, <<"coder">>}
    \cup {<<top, s>> : top \in {"audit", "teaming"}, s \in Stages}
Misplaced(name) == \E q \in DOMAIN data \cap Sections : q[1] = name /\ data[q] # "null"

-----------------------------------------------------------------------------
NoProviders == [default |-> "", names |-> {}]
NoConfig == [mode |-> "fast", ints |-> << >>, lists |-> << >>, debate |-> FALSE,
             workspace |-> "", project |-> ""]

ConfigInit ==
    /\ pc = "write" /\ require_llm \in BOOLEAN
    /\ \E base \in Bases :
          source = [layer \in ToSet(Layers) |-> IF layer = "home" THEN base ELSE << >>]
    /\ data = Defaults /\ providers = NoProviders /\ config = NoConfig

Writable == {"project", "env", "cli"}
Written == Cardinality(UNION {{<<l, p>> : p \in DOMAIN source[l]} : l \in Writable})

\* ENV_KEY_MAP: what has no variable.
NoVariable == {Provider(p) : p \in Names} \cup {q \in IntSettings : q[1] = "graph"}

\* Someone writes a setting into a file or a shell, or a caller passes it.
\* Only a file can say null; only a variable can be blank.
Write(layer, path, value) ==
    /\ pc = "write" /\ Written < MaxChanges
    /\ layer \in {"env", "cli"} => value \notin {"null", "text"}
    /\ layer = "env" => path \notin NoVariable \cup Sections
    /\ value = "blank" => layer = "env"
    /\ source' = [source EXCEPT ![layer] = Merge(@, Setting(path, value))]
    /\ UNCHANGED <<pc, require_llm, data, providers, config>>

-----------------------------------------------------------------------------
(* Reading *)

Goto(step) == pc' = step /\ UNCHANGED <<source, require_llm>>
ConfigError == Goto("error") /\ UNCHANGED <<data, providers, config>>
\* An exception that main() does not turn into a message.
OtherError == Goto("crash") /\ UNCHANGED <<data, providers, config>>

\* _resolve_config_paths: the home file, then the project's.
ReadFiles ==
    /\ pc = "write"
    /\ data' = Merge(Merge(data, source.home), source.project)
    /\ Goto("env") /\ UNCHANGED <<providers, config>>

\* _env_to_mapping: blanks are skipped, the variable of a setting that was
\* removed is only warned about, numbers are at least one, whatever the
\* setting itself allows.
EnvPaths == {p \in DOMAIN source.env : source.env[p] # "blank" /\ p # PathConcurrency}
EnvSays == [p \in EnvPaths |-> source.env[p]]
EnvNumbers == ModeSettings \cup {Legacy(s, "subagent_count") : s \in Stages}
              \cup {Legacy("validator", "debate_rounds"), <<"coder", "concurrency">>}
EnvRefuses(p) ==
    \/ p \in EnvNumbers /\ ~IsNumber(source.env[p], 1, 100)
    \/ p \in {LegacyEnabled, DebateEnabled} /\ source.env[p] \notin DOMAIN Booleans

ReadEnv ==
    /\ pc = "env"
    /\ IF \E p \in EnvPaths : EnvRefuses(p) THEN ConfigError
       ELSE /\ data' = Merge(data, EnvSays)
            /\ Goto("cli") /\ UNCHANGED <<providers, config>>

\* _assign_dot_path walks into mappings only.
ApplyOverrides ==
    /\ pc = "cli"
    /\ IF \E p \in DOMAIN source.cli, q \in DOMAIN data : q # p /\ IsPrefix(q, p)
       THEN OtherError
       ELSE /\ data' = Merge(data, source.cli)
            /\ Goto("llm") /\ UNCHANGED <<providers, config>>

-----------------------------------------------------------------------------
(* Building *)

\* runtime, repository and logging are read first, the first two without a
\* look at what stands in their place; then _build_llm_settings, where
\* legacy llm.* fields belong to the default provider, and validate.
Configured == {p \in Names : Has(Provider(p))} \cup
              (IF Has(LegacyLLM) THEN {Get(DefaultProvider, "default")} ELSE {})
DefaultName == Get(DefaultProvider, IF Has(LegacyLLM) THEN "default" ELSE "")
Complete(p) ==
    \/ Get(Provider(p), "incomplete") = "complete"
    \/ p = DefaultName /\ Get(LegacyLLM, "incomplete") = "complete"
NoLLM == DefaultName = "" /\ Configured = {} /\ ~Has(AgentProvider)
LLMValid ==
    \/ NoLLM /\ ~require_llm
    \/ /\ DefaultName \in Configured
       /\ \A p \in Configured : Complete(p)
       /\ Has(AgentProvider) => Get(AgentProvider, "") \in Configured

BuildLLM ==
    /\ pc = "llm"
    /\ IF Has(<<"runtime">>) \/ Has(<<"repository">>) THEN OtherError
       ELSE IF Get(<<"logging", "level">>, "info") # "info" \/ Misplaced("llm") \/ ~LLMValid
       THEN ConfigError
       ELSE /\ providers' = [default |-> DefaultName, names |-> Configured]
            /\ Goto("migrate") /\ UNCHANGED <<data, config>>

\* Mutant: the settings of the old shape win.
MigratedWins(settings) == Over(settings, data)

\* _migrate_legacy_teaming fills what audit.* leaves open.  setdefault finds
\* the null that stands for a section, and then leaves it alone.
Blocked(p) == \E q \in DOMAIN data : q # p /\ IsPrefix(q, p)
Migrated(settings) ==
    Over(data, [p \in {q \in DOMAIN settings : ~Blocked(q)} |-> settings[p]])

\* What can be filled, and the legacy setting it is filled from.
Fillable == {Mode, DebateEnabled} \cup ModeSettings \cup {ProviderList(s) : s \in Stages}
Old(p) ==
    IF p = Mode THEN LegacyEnabled
    ELSE IF p \in {MaxRounds, DebateEnabled} THEN Legacy("validator", "debate_rounds")
    ELSE IF p[2] = "replication" THEN Legacy(p[3], "subagent_count")
    ELSE Legacy(p[2], "provider_list")

LegacySettings ==
    [p \in {q \in Fillable : Has(Old(q))} |->
         IF p = Mode THEN IF data[LegacyEnabled] = "true" THEN "deep" ELSE "fast"
         ELSE IF p = DebateEnabled THEN "true" ELSE data[Old(p)]]

MigrateLegacyTeaming ==
    /\ pc = "migrate"
    /\ data' = IF Blocked(Mode) THEN data ELSE Migrated(LegacySettings)
    /\ Goto("graph") /\ UNCHANGED <<providers, config>>

\* The integers of one section, or none when one is out of range.
IntsOf(section) == {p \in IntSettings : p[1] = section}
InRange(p) == Has(p) => IsNumber(data[p], Smallest(p), Largest(p))
Ints(paths, default) ==
    [p \in paths |-> IF Has(p) THEN Numbers[data[p]] ELSE default[p]]
Take(paths, default) == config' = [config EXCEPT !.ints = Over(Ints(paths, default), @)]

\* _build_graph_config.
BuildGraph ==
    /\ pc = "graph"
    /\ IF Misplaced("graph") \/ \E p \in IntsOf("graph") : ~InRange(p) THEN ConfigError
       ELSE Take(IntsOf("graph"), OwnDefaults) /\ Goto("teaming") /\ UNCHANGED <<data, providers>>

\* _build_teaming_config checks the old shape as well: all of it when it is
\* enabled, and then every provider it names.
TeamingValid ==
    /\ Get(LegacyEnabled, "false") \in DOMAIN Booleans
    /\ \A s \in Stages : IsNumber(Get(Legacy(s, "subagent_count"), "one"), 1, 100)
    /\ IsNumber(Get(Legacy("validator", "debate_rounds"), "one"), 1, 100)
    /\ \A s \in Stages : Get(Legacy(s, "provider_list"), "empty") \in DOMAIN Lists
    /\ Get(LegacyEnabled, "false") = "true" => \A s \in Stages :
          /\ Has(Legacy(s, "subagent_count")) /\ Has(Legacy(s, "provider_list"))
          /\ Lists[data[Legacy(s, "provider_list")]] # {}
          /\ Lists[data[Legacy(s, "provider_list")]] \subseteq providers.names

BuildTeaming ==
    /\ pc = "teaming"
    /\ IF Misplaced("teaming") \/ ~TeamingValid THEN ConfigError
       ELSE Goto("mode") /\ UNCHANGED <<data, providers, config>>

\* _build_audit_mode_config: the mode's preset for what is not set.
ModeValid ==
    /\ ~Misplaced("audit") /\ Get(Mode, "fast") \in DOMAIN Presets
    /\ \A p \in ModeSettings : InRange(p)
    /\ Get(DebateEnabled, "false") \in DOMAIN Booleans
    /\ \A s \in Stages :
          /\ Get(ProviderList(s), "empty") \in DOMAIN Lists
          /\ Lists[Get(ProviderList(s), "empty")] \subseteq providers.names

BuildMode ==
    /\ pc = "mode"
    /\ IF ~ModeValid THEN ConfigError
       ELSE LET mode == Get(Mode, "fast") IN
            /\ config' = [config EXCEPT
                 !.mode = mode,
                 !.ints = Over(Ints(ModeSettings, Presets[mode]), @),
                 !.lists = [s \in Stages |-> Lists[Get(ProviderList(s), "empty")]],
                 !.debate = Booleans[Get(DebateEnabled, IF mode = "deep" THEN "true" ELSE "false")]]
            /\ Goto("stores") /\ UNCHANGED <<data, providers>>

\* _build_neo4j_config, _build_reportdb_config and _build_portal_config.
BuildStores ==
    /\ pc = "stores"
    /\ IF Misplaced("reportdb") \/ \E p \in IntsOf("reportdb") : ~InRange(p)
          \/ Get(<<"reportdb", "remote", "url">>, "postgresql") # "postgresql"
       THEN ConfigError
       ELSE Take(IntsOf("reportdb"), OwnDefaults) /\ Goto("coder") /\ UNCHANGED <<data, providers>>

\* _resolve_coder_workspace: repo_mount_path stands for its parent and its
\* name unless there is a workspace_root.
Workspace ==
    LET root == Get(<<"coder", "workspace_root">>, "") \* "" when unset
        mount == Get(<<"coder", "repo_mount_path">>, "")
        name == Get(<<"coder", "project_name">>, "")
    IN IF root \notin {"", "null"} \/ mount \in {"", "null"}
       THEN <<IF root = "null" THEN "" ELSE root, name>>
       ELSE <<"parent of " \o mount, IF name = "" THEN "name of " \o mount ELSE name>>

\* _build_coder_config: a token is needed where the service checks one.
CoderValid ==
    /\ ~Misplaced("coder")
    /\ \A p \in IntsOf("coder") : InRange(p)
    /\ Get(<<"coder", "transport">>, "subprocess") \in {"subprocess", "http"}
    /\ Get(<<"coder", "endpoint">>, "http://") \in {"http://", "unix:///", "null"}
    /\ ~(/\ Get(<<"coder", "transport">>, "subprocess") = "http"
         /\ Get(<<"coder", "enable_auth">>, "false") = "true"
         /\ Get(<<"coder", "endpoint_token">>, "null") = "null")
BuildCoder ==
    /\ pc = "coder"
    /\ IF ~CoderValid THEN ConfigError
       ELSE /\ config' = [config EXCEPT !.ints = Over(Ints(IntsOf("coder"), OwnDefaults), @),
                                        !.workspace = Workspace[1], !.project = Workspace[2]]
            /\ Goto("audit") /\ UNCHANGED <<data, providers>>

\* _build_audit_config.
BuildAudit ==
    /\ pc = "audit"
    /\ IF Has(PathConcurrency) \/ ~InRange(WorkerCount) THEN ConfigError
       ELSE Take({WorkerCount}, OwnDefaults) /\ Goto("loaded") /\ UNCHANGED <<data, providers>>

Ended == pc \in {"loaded", "error", "crash"} /\ UNCHANGED configVars

ConfigNext ==
    \/ \E layer \in Writable, c \in Changes : Write(layer, c[1], c[2])
    \/ ReadFiles \/ ReadEnv \/ ApplyOverrides \/ BuildLLM \/ MigrateLegacyTeaming
    \/ BuildGraph \/ BuildTeaming \/ BuildMode \/ BuildStores \/ BuildCoder \/ BuildAudit
    \/ Ended

ConfigSpec == ConfigInit /\ [][ConfigNext]_configVars

-----------------------------------------------------------------------------
(* Properties *)

\* What has been built so far has its type.
ConfigTypeOK ==
    /\ pc \in {"write", "env", "cli", "llm", "migrate", "graph", "teaming", "mode", "stores",
               "coder", "audit", "loaded", "error", "crash"}
    /\ config.mode \in DOMAIN Presets
    /\ pc = "loaded" => /\ DOMAIN config.ints = IntSettings
                        /\ config.lists \in [Stages -> SUBSET Names]

\* The value of a setting, told without merging: the highest source that says
\* anything about it, about a section around it or about one below decides.
Sources == <<Defaults, source.home, source.project, EnvSays, source.cli>>
Speakers(p) == {i \in 1..Len(Sources) : \E q \in DOMAIN Sources[i] : Touch(q, p)}
Effective(p, default) ==
    IF Speakers(p) = {} THEN default
    ELSE LET top == Sources[CHOOSE i \in Speakers(p) : \A j \in Speakers(p) : j <= i]
         IN IF p \in DOMAIN top THEN top[p] ELSE default

\* No source writes a section down and leaves it empty.
NoEmptySection ==
    \A l \in ToSet(Layers), q \in Sections : q \in DOMAIN source[l] => source[l][q] # "null"

\* The merged tree holds for every setting what the highest source says
\* (_merge_mapping, _env_to_mapping, _assign_dot_path).
EffectiveIsHighest ==
    pc = "llm" /\ NoEmptySection =>
        \A p \in UNION {DOMAIN source[l] : l \in ToSet(Layers)} :
            Get(p, "unset") = Effective(p, "unset")

Filled(p, default) ==
    LET new == Effective(p, "unset")  old == Effective(Old(p), "unset")
    IN IF new # "unset" THEN Numbers[new]
       ELSE IF old # "unset" THEN Numbers[old] ELSE default

\* A legacy setting takes effect exactly where the new shape says nothing, in
\* whatever layers the two are written, and never over it; the mode that
\* follows from it picks the preset of the rest (_migrate_legacy_teaming:
\* "legacy values for that key are NOT overwritten").
LegacyOnlyFills ==
    pc = "loaded" /\ NoEmptySection =>
        /\ config.mode = IF Effective(Mode, "unset") # "unset" THEN Effective(Mode, "unset")
                         ELSE IF Effective(LegacyEnabled, "unset") = "true"
                         THEN "deep" ELSE "fast"
        /\ \A p \in ModeSettings : config.ints[p] = Filled(p, Presets[config.mode][p])

\* Layers and shapes are resolved in the order of precedence.
LayersResolved == ConfigTypeOK /\ EffectiveIsHighest /\ LegacyOnlyFills

=============================================================================
