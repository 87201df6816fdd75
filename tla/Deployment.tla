------------------------------ MODULE Deployment ------------------------------
(***************************************************************************)
(* The managed containers and the checks before an audit: the lifecycle    *)
(* verbs of services.py over integrations/docker.py (the databases),       *)
(* integrations/portal/runtime.py and integrations/coder/runtime.py, the   *)
(* migrations of the report database, and audit/preflight.py.              *)
(*                                                                         *)
(* A command is the sequence of docker calls it makes.  Each call may fail *)
(* and end the command; containers may die; the operator may edit the      *)
(* configuration or upgrade the package between commands, while what was   *)
(* fixed when a container or a volume was created stays as it was.         *)
(***************************************************************************)
EXTENDS Integers, Sequences

CONSTANTS
    Workspaces,     \* values of coder.workspace_root, besides NoWorkspace
    Home,           \* the workspace that the audited repository lies in
    Passwords,      \* values of reportdb.password
    Heads,          \* the newest migration of each version of the package
    Minimum,        \* _REPORT_DB_MINIMUM_REVISION
    MaxCommands,    \* bound on the commands nobody advised
    MaxFaults,      \* bound on failed calls and dead containers
    MaxEdits,       \* bound on edits and upgrades
    MaxEvents       \* bound on all of these together

NoWorkspace == "none"
NoPassword == "unset"
Versions == 1..Len(Heads)
Services == {"reportdb", "backend", "frontend", "coder"}

ASSUME WorkspacesAssumption == Home \in Workspaces /\ NoWorkspace \notin Workspaces
ASSUME PasswordsAssumption == NoPassword \notin Passwords
\* The migrations are a chain that a new version only extends.
ASSUME HeadsAssumption ==
    /\ Heads \in Seq(Nat) /\ Len(Heads) > 0
    /\ \A v \in Versions : Minimum <= Heads[v]
    /\ \A v, w \in Versions : v <= w => Heads[v] <= Heads[w]
ASSUME BudgetsAssumption == {Minimum, MaxCommands, MaxFaults, MaxEdits, MaxEvents} \subseteq Nat

VARIABLES
    cfg,        \* xauditor.yml, as far as a container is created from it
    pkg,        \* the installed version
    img,        \* the version each image was built from, 0 when absent
    ctr,        \* the state of each container
    vol,        \* the volumes that exist
    baked,      \* fixed at creation: the coder's mount, the databases' URLs
    schema,     \* the report database's alembic revision, 0 when it has none
    cli,        \* the command that runs: the calls it has left
    advice,     \* the commands its error message names
    audit,      \* what the last audit's preflight saw
    budget

docker == <<img, ctr, vol, baked, schema>>
vars == <<cfg, pkg, img, ctr, vol, baked, schema, cli, advice, audit, budget>>

Volumes == {"reportdb", "coder"}
Commands ==
    {"init_all", "reportdb_init", "reportdb_start", "reportdb_stop",
     "reportdb_reset", "portal_init", "portal_start", "portal_stop",
     "portal_reset", "coder_build", "coder_init", "coder_start", "coder_stop",
     "coder_reset", "migrate", "audit"}
\* What an operator does about a message that names a setting.
Remedies == {"review_password", "review_workspace"}

NoAudit == [state |-> "none", inspected |-> FALSE, mount |-> NoWorkspace,
            workspace |-> NoWorkspace]

-----------------------------------------------------------------------------
(* The verbs *)

\* ContainerLifecycleManager, for the report database.
StoreInit ==
    << <<"network", "reportdb">>, <<"image", "reportdb">>, <<"volume", "reportdb">>,
       <<"container", "reportdb">>, <<"start", "reportdb">>, <<"ready", "reportdb">> >>
StoreStart ==
    << <<"exists", "reportdb">>, <<"start", "reportdb">>, <<"ready", "reportdb">> >>
\* Mutant: the volume outlives the reset.
StoreResetKeeps == << <<"stop", "reportdb">>, <<"rm", "reportdb">>, <<"image_rm", "reportdb">> >>
StoreReset ==
    << <<"stop", "reportdb">>, <<"rm", "reportdb">>, <<"volume_rm", "reportdb">>,
       <<"image_rm", "reportdb">> >>

\* reportdb_init: a migration that fails is logged and skipped.
ReportdbInit == StoreInit \o << <<"try_migrate", "reportdb">> >>

\* PortalRuntimeManager: backend before frontend, and the reverse to stop.
PortalUp(s) == << <<"container", s>>, <<"start", s>>, <<"ready", s>> >>
PortalInit ==
    << <<"network", "backend">>, <<"image", "backend">> >> \o PortalUp("backend")
    \o << <<"image", "frontend">> >> \o PortalUp("frontend")
PortalStart ==
    << <<"exists", "backend">>, <<"exists", "frontend">>, <<"network", "backend">>,
       <<"start", "backend">>, <<"ready", "backend">>,
       <<"start", "frontend">>, <<"ready", "frontend">> >>
PortalStop == << <<"stop", "frontend">>, <<"stop", "backend">> >>
PortalReset ==
    << <<"stop", "frontend">>, <<"rm", "frontend">>, <<"stop", "backend">>,
       <<"rm", "backend">>, <<"image_rm", "frontend">>, <<"image_rm", "backend">> >>

\* CoderRuntimeManager.
CoderBuild == << <<"rebuild", "coder">> >>
CoderInit == << <<"image", "coder">>, <<"container", "coder">>, <<"start", "coder">>,
                <<"ready", "coder">> >>
CoderStart == << <<"exists", "coder">>, <<"start", "coder">>, <<"ready", "coder">> >>
CoderReset == << <<"stop", "coder">>, <<"rm", "coder">>, <<"image_rm", "coder">>,
                 <<"try_volume_rm", "coder">> >>

\* run_audit up to the row it opens; check_coder_runtime's part needs a coder.
CoderChecks == IF cfg.coder
               THEN << <<"inspect", "coder">>, <<"mount", "coder">>,
                       <<"health", "coder">>, <<"projects", "coder">> >>
               ELSE << >>
RunAudit == << <<"check", "reportdb">> >> \o CoderChecks \o << <<"admit", "reportdb">> >>

\* init_all skips a coder that it does not manage.
InitAll == ReportdbInit \o PortalInit \o (IF cfg.coder THEN CoderInit ELSE << >>)

Program(c) ==
    CASE c = "init_all" -> InitAll
      [] c = "reportdb_init" -> ReportdbInit
      [] c = "reportdb_start" -> StoreStart
      [] c = "reportdb_stop" -> << <<"stop", "reportdb">> >>
      [] c = "reportdb_reset" -> StoreReset
      [] c = "portal_init" -> PortalInit
      [] c = "portal_start" -> PortalStart
      [] c = "portal_stop" -> PortalStop
      [] c = "portal_reset" -> PortalReset
      [] c = "coder_build" -> CoderBuild
      [] c = "coder_init" -> CoderInit
      [] c = "coder_start" -> CoderStart
      [] c = "coder_stop" -> << <<"stop", "coder">> >>
      [] c = "coder_reset" -> CoderReset
      [] c = "migrate" -> << <<"migrate", "reportdb">> >>
      [] c = "audit" -> RunAudit

\* _ensure_coder_runtime_applicable, and reset without --yes.
Applicable(c) ==
    c \in {"coder_build", "coder_init", "coder_start", "coder_stop", "coder_reset"} => cfg.coder

-----------------------------------------------------------------------------
(* The initial states: a fresh host, or the stopped database of a version   *)
(* that had it on the default bridge and its schema below the minimum.      *)

Settings == [workspace : Workspaces \cup {NoWorkspace}, password : Passwords, coder : BOOLEAN]
NotBaked == [mount |-> NoWorkspace, container |-> NoPassword, volume |-> NoPassword,
             backend |-> NoPassword, attached |-> FALSE]

Init ==
    /\ cfg \in Settings /\ cfg.password = CHOOSE p \in Passwords : TRUE
    /\ pkg = 1
    /\ \/ /\ img = [s \in Services |-> 0]
          /\ ctr = [s \in Services |-> "absent"]
          /\ vol = {} /\ schema = 0
          /\ baked = NotBaked
       \/ /\ img = [s \in Services |-> IF s = "reportdb" THEN 1 ELSE 0]
          /\ ctr = [s \in Services |-> IF s = "reportdb" THEN "stopped" ELSE "absent"]
          /\ vol = {"reportdb"} /\ schema = 1
          /\ baked = [NotBaked EXCEPT !.container = cfg.password, !.volume = cfg.password]
    /\ cli = [cmd |-> "idle", steps |-> << >>]
    /\ advice = << >>
    /\ audit = NoAudit
    /\ budget = [commands |-> MaxCommands, faults |-> MaxFaults, edits |-> MaxEdits,
                 events |-> MaxEvents]

-----------------------------------------------------------------------------
(* Commands *)

Busy == cli.steps # << >>
At(op, s) == Busy /\ Head(cli.steps) = <<op, s>>

Left(kind) == budget[kind] > 0 /\ budget.events > 0
Spend(kind) == budget' = [budget EXCEPT ![kind] = @ - 1, !.events = @ - 1]

Launch(c) ==
    /\ cli' = [cmd |-> c, steps |-> IF Applicable(c) THEN Program(c) ELSE << >>]
    /\ audit' = IF c = "audit" THEN NoAudit ELSE audit
    /\ UNCHANGED <<cfg, pkg, docker>>

\* The call returned: go on with the next one.
Return == cli' = [cli EXCEPT !.steps = Tail(@)]

\* It raised: the command ends, and its message names what to do.
Raise(remedy) == cli' = [cli EXCEPT !.steps = << >>] /\ advice' = remedy

\* A verb of main() that nobody suggested.
Operate(c) ==
    /\ ~Busy /\ Left("commands")
    /\ Spend("commands")
    /\ Launch(c)
    /\ UNCHANGED advice

\* What the message says, or the audit again.
FollowAdvice ==
    /\ ~Busy /\ audit.state # "admitted"
    /\ LET next == IF advice = << >> THEN "audit" ELSE Head(advice)
       IN /\ advice' = IF advice = << >> THEN << >> ELSE Tail(advice)
          /\ \/ next \in Commands /\ Launch(next)
             \/ /\ next = "review_password"
                /\ cfg' = [cfg EXCEPT !.password = IF baked.volume \in Passwords
                                                   THEN baked.volume ELSE @]
                /\ UNCHANGED <<pkg, docker, cli, audit>>
             \/ /\ next = "review_workspace"
                /\ cfg' = [cfg EXCEPT !.workspace = Home]
                /\ UNCHANGED <<pkg, docker, cli, audit>>
    /\ UNCHANGED budget

-----------------------------------------------------------------------------
(* docker *)

\* The shared network exists once anything has asked for it, for good: no
\* verb removes it.
Network(s) ==
    /\ At("network", s)
    /\ Return
    /\ UNCHANGED <<docker, advice>>

\* docker pull for a database, docker build from the installed package for
\* the others, and only when there is no such image.
Image(s) ==
    /\ At("image", s)
    /\ img' = [img EXCEPT ![s] = IF @ = 0 THEN pkg ELSE @]
    /\ Return
    /\ UNCHANGED <<ctr, vol, baked, schema, advice>>

Rebuild(s) ==
    /\ At("rebuild", s)
    /\ img' = [img EXCEPT ![s] = pkg]
    /\ Return
    /\ UNCHANGED <<ctr, vol, baked, schema, advice>>

Volume(s) ==
    /\ At("volume", s)
    /\ vol' = vol \cup {s}
    /\ Return
    /\ UNCHANGED <<img, ctr, baked, schema, advice>>

\* docker create fixes in the container what the configuration says now.
Created(s) ==
    CASE s = "reportdb" -> [baked EXCEPT !.container = cfg.password, !.attached = TRUE]
      [] s = "backend" -> [baked EXCEPT !.backend = cfg.password]
      [] s = "coder" -> [baked EXCEPT !.mount = cfg.workspace]
      [] OTHER -> baked

Create(s) ==
    /\ At("container", s) /\ ctr[s] = "absent"
    /\ ctr' = [ctr EXCEPT ![s] = "stopped"]
    /\ vol' = vol \cup ({s} \cap {"coder"})
    /\ baked' = Created(s)
    /\ Return
    /\ UNCHANGED <<img, schema, advice>>

\* Mutant: any mount will do.
MountUnchecked == TRUE
MountMatches == cfg.workspace = NoWorkspace \/ baked.mount = cfg.workspace

\* A container that exists is kept: the database's is attached to the
\* network, the coder's must have the configured mount.  (Fault has the
\* inspect that fails before either.)
Reuse(s) ==
    /\ At("container", s) /\ ctr[s] # "absent"
    /\ IF s = "coder" /\ ~MountMatches
       THEN Raise(<<"coder_reset", "coder_init">>) /\ UNCHANGED baked
       ELSE /\ baked' = IF s = "reportdb" THEN [baked EXCEPT !.attached = TRUE] ELSE baked
            /\ Return /\ UNCHANGED advice
    /\ UNCHANGED <<img, ctr, vol, schema>>

Exists(s) ==
    /\ At("exists", s)
    /\ IF ctr[s] = "absent"
       THEN Raise(IF s = "coder" THEN <<"coder_init">>
                  ELSE IF s = "reportdb" THEN <<"reportdb_init">> ELSE <<"portal_init">>)
       ELSE Return /\ UNCHANGED advice
    /\ UNCHANGED docker

\* postgres takes its password from the container that first starts on a
\* volume.
StartStore ==
    /\ At("start", "reportdb")
    /\ ctr' = [ctr EXCEPT !.reportdb = "running"]
    /\ baked' = IF baked.volume = NoPassword
                THEN [baked EXCEPT !.volume = baked.container] ELSE baked
    /\ Return
    /\ UNCHANGED <<img, vol, schema, advice>>

\* upgrade_to_head leaves a schema it does not know alone and raises.
Reachable(password) == ctr.reportdb = "running" /\ password = baked.volume
Migratable(version) == schema <= Heads[version]

\* The backend's container migrates before it serves, and exits if it cannot.
BackendServes ==
    Reachable(baked.backend) /\ baked.attached /\ Migratable(img.backend)

StartBackend ==
    /\ At("start", "backend")
    /\ IF ctr.backend = "running" \/ ~BackendServes
       THEN UNCHANGED <<ctr, schema>>
       ELSE /\ ctr' = [ctr EXCEPT !.backend = "running"]
            /\ schema' = Heads[img.backend]
    /\ Return
    /\ UNCHANGED <<img, vol, baked, advice>>

Start(s) ==
    /\ s \in {"frontend", "coder"} /\ At("start", s)
    /\ ctr' = [ctr EXCEPT ![s] = "running"]
    /\ Return
    /\ UNCHANGED <<img, vol, baked, schema, advice>>

\* wait_ready, _probe_backend_health, _probe_frontend_health and
\* _wait_until_healthy: the service answers or the wait times out.
Answers(s) == ctr[s] = "running" /\ (s = "frontend" => ctr.backend = "running")

Ready(s) ==
    /\ At("ready", s)
    /\ IF Answers(s) THEN Return /\ UNCHANGED advice ELSE Raise(<< >>)
    /\ UNCHANGED docker

Stop(s) ==
    /\ At("stop", s)
    /\ ctr' = [ctr EXCEPT ![s] = IF @ = "running" THEN "stopped" ELSE @]
    /\ Return
    /\ UNCHANGED <<img, vol, baked, schema, advice>>

Rm(s) ==
    /\ At("rm", s)
    /\ IF ctr[s] = "running" THEN Raise(<< >>) /\ UNCHANGED ctr
       ELSE ctr' = [ctr EXCEPT ![s] = "absent"] /\ Return /\ UNCHANGED advice
    /\ UNCHANGED <<img, vol, baked, schema>>

VolumeRm(s) ==
    /\ At("volume_rm", s) \/ At("try_volume_rm", s)
    /\ vol' = vol \ {s}
    /\ IF s = "reportdb"
       THEN schema' = 0 /\ baked' = [baked EXCEPT !.volume = NoPassword]
       ELSE UNCHANGED <<schema, baked>>
    /\ Return
    /\ UNCHANGED <<img, ctr, advice>>

ImageRm(s) ==
    /\ At("image_rm", s)
    /\ img' = [img EXCEPT ![s] = 0]
    /\ Return
    /\ UNCHANGED <<ctr, vol, baked, schema, advice>>

\* reportdb_init's migration, which swallows every failure, and
\* `xauditor-portal migrate`, which does not.
Migrate ==
    /\ At("try_migrate", "reportdb") \/ At("migrate", "reportdb")
    /\ IF Reachable(cfg.password) /\ Migratable(pkg)
       THEN schema' = Heads[pkg] /\ Return /\ UNCHANGED advice
       ELSE /\ UNCHANGED schema
            /\ IF At("migrate", "reportdb") THEN Raise(<< >>) ELSE Return /\ UNCHANGED advice
    /\ UNCHANGED <<img, ctr, vol, baked>>

-----------------------------------------------------------------------------
(* The checks before an audit *)

\* Mutant: a failed login is reported like a database that is down.
CheckBlind ==
    /\ At("check", "reportdb")
    /\ IF ~Reachable(cfg.password)
       THEN Raise(IF ctr.reportdb = "absent" THEN <<"reportdb_init">> ELSE <<"reportdb_start">>)
       ELSE IF schema = 0 THEN Raise(<<"reportdb_init">>)
       ELSE IF schema < Minimum THEN Raise(<<"migrate">>)
       ELSE Return /\ UNCHANGED advice
    /\ UNCHANGED <<docker, audit>>

\* check_report_database: connect, log in, read alembic_version.
Check ==
    /\ At("check", "reportdb")
    /\ IF ctr.reportdb # "running"
       THEN Raise(IF ctr.reportdb = "absent" THEN <<"reportdb_init">> ELSE <<"reportdb_start">>)
       ELSE IF ~Reachable(cfg.password) THEN Raise(<<"review_password">>)
       ELSE IF schema = 0 THEN Raise(<<"reportdb_init">>)
       ELSE IF schema < Minimum THEN Raise(<<"migrate">>)
       ELSE Return /\ UNCHANGED advice
    /\ UNCHANGED <<docker, audit>>

\* inspect_for_preflight starts a stopped container.
Inspect ==
    /\ At("inspect", "coder")
    /\ IF ctr.coder = "absent"
       THEN Raise(<<"coder_init">>) /\ UNCHANGED ctr
       ELSE ctr' = [ctr EXCEPT !.coder = "running"] /\ Return /\ UNCHANGED advice
    /\ UNCHANGED <<img, vol, baked, schema, audit>>

\* _verify_workspace_mount_or_raise.
Mount ==
    /\ At("mount", "coder")
    /\ IF MountMatches
       THEN Return /\ UNCHANGED advice /\ audit' = [audit EXCEPT !.inspected = TRUE]
       ELSE Raise(<<"coder_reset", "coder_init">>) /\ UNCHANGED audit
    /\ UNCHANGED docker

\* check_coder_http.
Health ==
    /\ At("health", "coder")
    /\ IF ctr.coder = "running" THEN Return /\ UNCHANGED advice ELSE Raise(<< >>)
    /\ UNCHANGED <<docker, audit>>

\* check_coder_projects: a workspace that holds the repository is trusted
\* without a probe; in another one the project is not listed.
Projects ==
    /\ At("projects", "coder")
    /\ IF cfg.workspace \in {NoWorkspace, Home}
       THEN Return /\ UNCHANGED advice
       ELSE Raise(<<"review_workspace">>)
    /\ UNCHANGED <<docker, audit>>

\* open_run, with the database and the container as they are by then.
Admit ==
    /\ At("admit", "reportdb")
    /\ audit' = [state |-> "admitted", inspected |-> audit.inspected, mount |-> baked.mount,
                  workspace |-> IF cfg.coder THEN cfg.workspace ELSE NoWorkspace]
    /\ Return
    /\ UNCHANGED <<docker, advice>>

-----------------------------------------------------------------------------
(* Faults and the operator *)

\* What a command shrugs off: reportdb_init's migration, coder_reset's
\* volume, and a docker inspect of a container that exists, when it cannot
\* tell the coder's mount or the database's networks.
Tolerated == {"try_migrate", "try_volume_rm", "mount"}
InspectFails == \E s \in {"coder", "reportdb"} : At("container", s) /\ ctr[s] # "absent"

\* A call fails.  A coder that cannot be started in preflight is reported
\* with the advice to create it anew.
Fault ==
    /\ Busy /\ Left("faults")
    /\ Spend("faults")
    /\ LET op == Head(cli.steps)[1] IN
       \/ (op \in Tolerated \/ InspectFails) /\ Return /\ UNCHANGED advice
       \/ op \notin Tolerated
          /\ Raise(IF op = "inspect" THEN <<"coder_reset", "coder_init">> ELSE << >>)
    /\ UNCHANGED <<cfg, pkg, docker, audit>>

\* A container exits by itself.
Die(s) ==
    /\ ctr[s] = "running" /\ Left("faults")
    /\ ctr' = [ctr EXCEPT ![s] = "stopped"]
    /\ Spend("faults")
    /\ UNCHANGED <<cfg, pkg, img, vol, baked, schema, cli, advice, audit>>

Edit(c) ==
    /\ ~Busy /\ Left("edits") /\ c # cfg
    /\ cfg' = c
    /\ Spend("edits")
    /\ UNCHANGED <<pkg, docker, cli, advice, audit>>

Upgrade ==
    /\ ~Busy /\ Left("edits") /\ pkg + 1 \in Versions
    /\ pkg' = pkg + 1
    /\ Spend("edits")
    /\ UNCHANGED <<cfg, docker, cli, advice, audit>>

-----------------------------------------------------------------------------
DockerStep(s) ==
    \/ Network(s) \/ Image(s) \/ Rebuild(s) \/ Volume(s) \/ Create(s) \/ Reuse(s)
    \/ Exists(s) \/ Start(s) \/ Ready(s) \/ Stop(s) \/ Rm(s) \/ VolumeRm(s) \/ ImageRm(s)

CliStep ==
    /\ \/ /\ (\E s \in Services : DockerStep(s)) \/ StartStore \/ StartBackend \/ Migrate
          /\ UNCHANGED audit
       \/ Check \/ Inspect \/ Mount \/ Health \/ Projects \/ Admit
    /\ UNCHANGED <<cfg, pkg, budget>>

\* The operator is done once an audit is under way.
Done ==
    /\ ~Busy /\ audit.state = "admitted"
    /\ UNCHANGED vars

Next ==
    \/ CliStep \/ FollowAdvice \/ Fault \/ Upgrade \/ Done
    \/ \E c \in Commands : Operate(c)
    \/ \E s \in Services : Die(s)
    \/ \E c \in Settings : Edit(c)

\* A command that was started runs on, and an operator who wants the audit
\* does what the message says.
Spec == Init /\ [][Next]_vars /\ WF_vars(CliStep) /\ WF_vars(FollowAdvice)

-----------------------------------------------------------------------------
(* Properties *)

Backable == Passwords \cup {NoPassword}

\* Every part of the state has its type.
TypeOK ==
    /\ cfg \in Settings /\ pkg \in Versions
    /\ img \in [Services -> 0..Len(Heads)]
    /\ ctr \in [Services -> {"absent", "stopped", "running"}]
    /\ \A s \in Services : ctr[s] # "absent" => img[s] # 0
    /\ vol \subseteq Volumes
    /\ baked \in [mount : Workspaces \cup {NoWorkspace}, container : Backable,
                  volume : Backable, backend : Backable, attached : BOOLEAN]
    /\ schema \in Nat /\ (schema > 0 => "reportdb" \in vol)
    /\ cli.cmd \in Commands \cup {"idle"}
    /\ audit.state \in {"none", "admitted"}

\* An audit whose container could be inspected verifies against the tree the
\* configuration names, whatever was edited, re-created or reused before
\* (_verify_workspace_mount_or_raise: "Without this check the audit silently
\* runs claude against the wrong tree").
AdmittedTree ==
    audit.state = "admitted" /\ audit.inspected /\ audit.workspace # NoWorkspace
        => audit.mount = audit.workspace /\ audit.workspace = Home

\* A backend that serves has migrated the schema it finds as far as it needs
\* it, or somebody has emptied the database under it (backend.Dockerfile's
\* CMD, and the images and volumes that survive an upgrade of the package).
ServedSchema ==
    ctr.backend = "running" => schema = 0 \/ schema >= Heads[img.backend]

Resets == [reportdb_reset |-> {"reportdb"}, portal_reset |-> {"backend", "frontend"},
           coder_reset |-> {"coder"}]
Returned == Len(cli.steps) = 1 /\ cli'.steps = << >> /\ budget' = budget

\* A reset that returns has removed its containers, volumes and images,
\* however far an earlier attempt that failed had got.
ResetRemovesAll ==
    [][cli.cmd \in DOMAIN Resets /\ Returned =>
       \A s \in Resets[cli.cmd] : ctr'[s] = "absent" /\ img'[s] = 0 /\ s \notin vol']_vars

\* An init that returns leaves a database whose data was there before as it
\* was, and only a reset empties one (ensure_volume, ensure_container).
DataKept ==
    [][cli.cmd # "reportdb_reset" => schema' >= schema /\ baked'.volume \in {baked.volume} \cup
          (IF baked.volume = NoPassword THEN Passwords ELSE {})]_vars

\* Whoever does what the error messages say gets the audit started: each of
\* preflight's and the runtime managers' messages leads on, from any state
\* that faults, edits, upgrades and other commands have left behind.
AdviceWorks == <>(audit.state = "admitted")

\* What was fixed at creation or migrated by another version is not used as
\* if it were current, in every state the commands reach.
NothingStaleInUse == TypeOK /\ AdmittedTree /\ ServedSchema

\* Resets remove everything, and nothing else removes data.
RemovedByResetOnly == ResetRemovesAll /\ DataKept

=============================================================================
