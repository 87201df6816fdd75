# A verification project for xauditor

xauditor audits a code base: it builds a graph of the code, enumerates call
paths, has language-model agents analyse each path, optionally lets Claude Code
verify each finding (the *coder* stage), and streams the result into a Postgres
database that a web portal shows. Modelled here are the parts that are hard to
test: threads, processes, services and databases that meet in the middle of an
audit, the containers around it, the layers of its configuration, and the walk
that decides what is audited at all.

All paths below are relative to the repository; `audit/x.py` is
`src/xauditor/audit/x.py`, `sinks/`, `api/` and `auth/` are below
`packages/xauditor-portal/src/xauditor_portal/`.

## 1. Inventory

| Part | State it keeps | Operations | Talks to |
|---|---|---|---|
| Configuration, `config.py` | layers, merged tree | `load_config` and its section builders | files, environment |
| Containers, `integrations/*`, lifecycle verbs of `services.py` | images, containers, volumes, what was fixed at creation | init, start, stop, reset, migrate | docker |
| Preflight, `audit/preflight.py` | - | checks before an audit, with advice | containers, databases |
| Graph build, `graph/builder.py`, `graph/cache.py` | build directory, manifest, stage checkpoints | `build_graph` and its three stages | Neo4j, other builders |
| Graph repository, `integrations/neo4j_repository.py` | nodes and relationships of each build | chunk writers, `finalize_build`, paged reads | builder, audit |
| Path enumeration, `graph/canonical.py` | call graph, paths | callee resolution, bounded walk | repository |
| Planner, units, coverage, reconciler, `audit/*` | units, slices, payloads | operators over stored paths and outcomes | audit loop |
| Path streamer, `audit/streamer.py` | bounded queue, stop event, seen fingerprints | `open`, fetcher thread, `next_or_none`, `close` | graph source, audit loop |
| Worker pool, `audit/worker_pool.py` | queues, futures, claims, dead workers seen | `submit_path`, worker loop, monitor thread, `cancel_all`, `shutdown` | worker processes, audit loop |
| Agent chain, `_process_unit_*`, `audit/agents.py`, `audit/stage_runner.py` | candidates, findings, debate, transcripts of one path | analyzer, validator, exploiter, debate | LLM providers, coder service |
| Audit loop, `AuditWorkflow.run` | window, findings, checkpoints, `pending_coder`, `_cancelling` | top up, reap, integrate, emit, drain, cancel, reconcile | pool, streamer, dispatcher, sink |
| Coder dispatch, `CoderDispatcher` in `audit/coder.py` | pending tasks, lock, executor threads | `submit`, `poll_completed`, `drain`, `cancel_all`, callbacks | findings list, coder service |
| Coder service, `xauditor_coder_service` | job table, idempotency index, semaphore, processes | submit, status, delete, reap, worker coroutine, agent invocation | `HttpCoderTransport`, the agent chain, Claude Code |
| Run driver, `services.py` | cancel state | `run_audit`, `resume_audit`, `_drive_workflow` | audit loop, sink, Neo4j |
| Report sink, `sinks/postgres_sink.py` | run, finding and resume-state rows | `open_run`, `emit_snapshot`, `write_resume_state`, `close_run`, `fail_run` | Postgres, portal |
| Portal, `api/*`, `auth/*` | accounts, sessions, annotations, history, run overrides | login to delete_run, metrics | Postgres, the audit worker's sink |
| Parsers, export, frontend, CLI, read-only routes | - | text in, text out | - |

What is hard, and what makes each part correct:

* **Streamer.** A producer and a consumer over a queue that may be full when
  the consumer leaves. Each distinct path once and in order; no call hangs.
* **Pool.** Workers die at any moment; their messages are buffered and may be
  lost or late. A future is set at most once; but in two cases that can be
  named it is set at least once, which the master waits for without a timeout;
  a path reported as crashed is not also audited.
* **Agent chain.** Replicas run on threads, fail in classes that are retried or
  not, disagree and debate. No candidate disappears, none is counted twice, and
  every path ends once its calls settle.
* **Coder dispatch.** The verdict of a finding is handled by whichever of two
  threads sees it first, while the findings list grows and Ctrl+C may come. It
  is handled once, and no finding is left Pending.
* **Coder service.** Idempotent submission, cancellation, timeout, reaping and
  restart meet in one table, and jobs share one semaphore with synchronous
  agent invocations, whose clients may hang up. A key names one job, a job
  settles once, no process is orphaned but by the last-resort handler, a killed
  process is not taken for a crash, a verdict belongs to the key and the project
  that asked for it.
* **Run and resume.** Two transactions per path, a process that may die between
  them, a database that may refuse one, and a later execution that trusts what
  is there. What is skipped was audited; what is counted was audited.
* **Graph build.** No lock: two processes write one build directory and one
  Neo4j build, either may die within a write, the database may be reset. What
  is reused is whole, what is ready is complete.
* **Enumeration.** A walk with two caps over a graph with cycles. It yields
  exactly the chains it should, and says when it did not.
* **Containers and preflight.** Everything that is fixed when a container or a
  volume is created may be stale later, and an operator knows only what the
  error message advises. Following the advice leads to an audit.
* **Configuration.** Four layers, two shapes of the same settings and nulls.
  The highest layer that speaks wins, and the old shape fills only what the new
  one leaves open.
* **Portal.** Requests read, wait and write while others commit. An
  administrator remains, closed sessions stay closed, records stay whole.

`PROJECT.json` lists every part, the hazards at their lines, and the source
lines each definition stands for.

## 2. Modules

| Module | Models | Notes |
|---|---|---|
| `PathPool` | the `WorkerPool` protocol | abstract: a future is submitted once and set at most once |
| `SubprocessPool` | `LocalSubprocessPool`, `_subprocess_worker_main` | implements `PathPool` |
| `PathStream` | what the loop needs of a streamer; `EagerPathStreamer` | abstract: the next path is the first of the source not yet given |
| `PathStreamer` | the threaded streamer | implements `PathStream` |
| `UnitChain` | `_process_one_path`, the teams, the stage runner, `invoke_agent` and `retry` | its outcomes are the path outcomes of `AuditRun` |
| `CoderDispatch` | `CoderDispatcher` and the coder side of `AuditWorkflow.run` | |
| `AgentInvocation` | `POST /agent_invocations`, `run_agent_invocation` | |
| `CoderService` | `JobStore`, the routes, the worker coroutine, `HttpCoderTransport` | composes `AgentInvocation`: one semaphore, one restart |
| `AuditRun` | the loop's window, `_drive_workflow`, resume, the sink's rows | uses the pool through what `PathPool` promises, the streamer through its order, the coder stage as one drain step |
| `GraphBuild` | `build_graph`, the checkpoints, the chunk writers, an audit paging through the result | |
| `CallPaths` | callee resolution, `_enumerate_paths`, units, entry kinds, coverage, reconciliation | pure algorithms, with declarative references |
| `Deployment` | docker lifecycle verbs, migrations, preflight | |
| `ConfigLoad` | `load_config` | |
| `PortalUsers` | `/api/auth` and `/api/users` | |
| `Portal` | feedback, run overrides, metrics, the worker's sink | composes `PortalUsers` |

Each `MC*` module instantiates its specification for TLC. `SubprocessPoolProofs`,
`PathProofs` (`CallPaths` and `PathStreamer`), `UnitChainProofs`, `CoderProofs`
(both `Coder` modules), `AuditRunProofs`, `GraphBuildProofs`, `SetupProofs`
(`Deployment` and `ConfigLoad`) and `PortalProofs` hold the theorems about the
module each is named after (section 5).

### How state and actions correspond to the code

*SubprocessPool.* `requestQ` and `resultQ` are the two multiprocessing queues.
A `put` of a worker goes to `buf[w]` first and reaches the pipe by
`FeederFlush`, because multiprocessing writes from a feeder thread and a killed
process loses what is buffered; the worker's `finally` waits for the feeder
(`WorkerExit`). `fut` merges `_futures` and the futures' outcomes: a future is
`"pending"` while it is in the dict. The monitor's loop is `mon`, and a scan of
dead workers takes one step per worker, since workers die in between.
`WorkerRaise` is a BaseException that escapes a path, `WorkerKilled` a kill from
outside, `WorkerTerminated` the SIGTERM of `cancel_all` or `shutdown`. The two
ways in which a future is never set are `Stranded`.

*PathStreamer.* `fpc` is the fetcher thread; the stop flag is read before every
attempt to put, and the sentinel is given up only when the queue is full and the
consumer has closed.

*UnitChain.* `pc` and `stage` are the thread of the path, `thread[r]` the call of
replica `r` with its attempt. `cfg` fixes mode (fast or deep), form (prompt or
agentic), whether there is an exploiter, and the teams whose provider list is
usable; a team without one raises `ValueError` (`TeamRefused`). An exception on
its way out is `error`; a cancelled or failed team waits in its pool's exit until
no replica is busy (`Unwind`). A candidate is its identity and its evidence; a
verdict is its weight. A judgement maps each analyzer record to the first record
of its cluster, and `todo` holds a cluster at that place. `reported`, `unanswered`
and `calls` are history for the properties.

*CoderDispatch.* `mpc` is the main thread; `cb[f]` is the done-callback of
finding `f`, on an executor thread or, when the task was done before the
callback was added, on the main thread (`"inline"`). Reading `_cancelling`,
writing the finding and discarding it from `pending_coder` are separate steps,
as are the discard and the write of `_apply` and the read and write of
`_apply_reconciliation`: no lock covers them. `lockedOut` is the main thread
waiting, inside `cancel_all`, for the lock it holds.

*CoderService.* One asyncio loop, so an action is the code between two awaits.
`store` and `byKey` are the two dicts of `JobStore`, `origin[j]` the request a job
was created for. The workflow passes no run id, so every run's key begins with
`default-run` and `Key` is the finding id alone. `WorkerCrash` and
`InvocationCrash` are the last-resort `except Exception`, which settles the job or
the request and may leave the process running. What `origin`, `jstatus` and
`result` say of a job that has left the store means nothing. *AgentInvocation*
adds `ipc`, the handler of a request, and `gone`, its cancel event, which the
disconnect watcher sets. A handler waits for its slot and starts its process
although its client is gone; only then is it cancelled. `Slots` counts both kinds
of holders.

*AuditRun.* `pc` is the main thread of the one process that executes the run,
and `"off"` means there is none: `Goto("off")` drops its memory. Every write of
the sink is one transaction (`Write`) that commits, is refused and dropped, or
finds the row deleted. `attached` is false when `open_run` was refused before it
had a run id: the sink then writes nothing, or makes an orphan row that is not
followed here. A path yields at most one finding. `fut` is what the pool or
`InlineExecutor` answered; `TopUpFails` is `next_or_none` raising, `CoderLocks` the
coder's `cancel_all` waiting for its own lock. `PathOutcome.CANCELLED` is not an
answer: `_cancelling` is set only by handlers that have left the loop
(`workflow.py:760`, 811, 852), and in a worker process nobody sets it.

*GraphBuild.* A builder is a process: `pc[b]`, and in `me[b]` what it holds in
memory. The manifest is read and written in separate steps and can be torn by a
crash, a stage directory likewise. `db[f]` is the Neo4j build of fingerprint
`f`: a relationship whose end nodes are missing is silently not created
(`Linked`). What an agent makes of a tree is which tree it read.

*CallPaths.* `stack` and `iters` are the walk's stack of functions and
iterators, one action per turn of its loop; an iterator over sorted callees is
the set of what it has left, and `next()` takes its least member. `FoundAt` is
the order in which the scan met the functions, which decides between methods of
one name. Units, entry kinds and coverage are operators over what the
walk stored; `audit.graph_slice` is the parameter `v2` of an entry's kind. `Finish` and
`ReconcilerRaises` are `_apply_reconciliation` under either `audit.stages.form`: an
agent is asked only about a group of several findings, may overrule them, and
when it raises no finding of the run has a payload.

*Deployment.* `cli.steps` are the docker calls a command has left; each step is
one call and may fail, which ends the command with `advice` unless the code
tolerates it (`Tolerated`, `InspectFails`). `baked` and `vol`
keep what was fixed at creation. `FollowAdvice` is the operator doing what the
message says; `Operate` a command of their own.

*ConfigLoad.* A tree is a function on the paths of its leaves; `source` holds
the layers, `data` the merge, `config` what the builders accepted. `"error"` is
a `ConfigError`, `"crash"` any other exception, as for `repository: null`.

*PortalUsers, Portal.* A slot is a request being served: the auth dependency
reads the caller's row (`Ask...`), the handler reads its target and stages a
row, the commit writes the columns that differ (`Merge`, as the ORM does).
`lock` is the advisory lock of `_lock_admin_count`. `work` is the same for
feedback and run requests, held to the tables' CHECK, unique and foreign key
constraints at the commit. A pointer sent by a client carries `canonical`: whether
it is spelled as `str()` spells a UUID, for it is compared as text and looked up
as a UUID. A filter is `Absent`, the empty `Marker` or a set of values.

## 3. Runs

A property that is a conjunction has named parts, each with its comment in the
module; the run checks the conjunction. The parts include the type invariant.

| Run | Instance | Checks |
|---|---|---|
| `pool` | 2 workers, 2 paths, 1 raise, 1 kill, cancel and shutdown anywhere | `TypeOK`, `CrashedIsNotRun`, `ClaimIsCurrent`, `ImplementsPathPool`; `FuturesResolve` under fairness |
| `streamer` | 6 source entries, 4 distinct, queue of 1, failing source | `TypeOK`, `ImplementsPathStream`, `CallsReturn` |
| `chain` | 2 candidate keys, 2 replicas per stage, cap 2, 2 debate rounds, 3 attempts, every mode and form, teams with and without providers | `FindingsFaithful`, `CallsAccounted`, `ChainEnds` |
| `coder_safety` | 3 findings, 2 threads, Ctrl+C, deletion, drain timeout | `HandledOnce`, `NothingLeftPending`, `RunEnds` |
| `service_safety` | 2 runs on 2 projects with 1 finding id, 2 jobs and an invocation, 1 slot, 1 retry, 1 restart | `StoreConsistent`, `VerdictIsForKey`, `TerminalIsFinal`, `JobSettles` |
| `audit_safety` | 3 paths, window 2, 2 executions, 1 refused write, 1 troubled path per execution, deletion | `PlanOrder`, `RecordTruthful`, `CompletedIsCovered`, `FirstExecutionKeeps`, `ExecutionEnds` |
| `graph` | 2 builders, 2 trees (1 enriched), 2 sink settings, 2 commands, 1 fault | `CacheSound`, `ReturnedIsComplete`, `AuditMissesNothing` |
| `paths` | 4 functions, every program of up to 3 calls and diamonds with one more, depth cap 2 or 4, count cap none or 2, 2 audited paths | `EnumerationSound`, `UnitsFollowPaths`, `ReportTruthful`, `RunEnds` |
| `paths_recursion` | the same | **violation** of `ReachableIsEnumerated` |
| `deploy` | 2 workspaces, 2 passwords, 2 versions; 2 commands, 1 fault, 1 edit or upgrade, 3 of these in all | `NothingStaleInUse`, `RemovedByResetOnly`, `AdviceWorks` |
| `config` | 4 home files, 2 more settings out of some fifty, in any layer | `LayersResolved` |
| `portal` | 3 accounts, 2 slots, 2 runs, 3 findings, 5 workloads of 3 or 4 requests, 1 write of the worker | `AdminRemains`, `SessionsClosed`, `RecordsWhole`, `TilesAddUp` |

**Why the bounds are enough.** The pool needs two workers, so that one lives
while the other dies, and two paths, so that a worker claims a second path while
its first result is on the way. The window slides only when there are more
paths than its size. Two coder threads and three findings let one finding be
verified, one queue and one be appended. One slot and two jobs make the
semaphore and re-creation of a failed job matter; a job and an invocation make
the two kinds of holders wait for each other; two projects meet under one key, and
the retry is the second submission of a project. One resume is enough for
every property of `AuditRun`, because an execution reads only the database.
`MaxTroubled` bounds the paths of an execution that are skipped, fail, raise or crash:
one of them beside two audited ones is before, between or after those in the window.
Two replicas are the least that can disagree, race and fail apart; two keys the
least that can be merged or kept apart; and three attempts are the code's own.
A torn checkpoint, a second builder and an edit each need one fault and one
more build. Four functions give a cycle with a way in and a diamond with a
tail, and each cap is met both below and at its value. Two settings are the
least that can conflict between layers or shapes. Two overlapping requests are
the least that race, and a workload contains the requests that touch the same
rows. Where section 5 has a theorem, the property does not depend on the bounds
at all.

**Deadlock** is checked except in `coder_safety` (the interrupted main thread
can wait for its own lock), and in the runs of `GraphBuild`, `UnitChain`, `Portal`
and `CallPaths`, whose systems are done when the commands, the path, the
requests or the enumeration are.

**Fairness.** Threads and processes that can run do run: the monitor, a worker's
main loop, its feeder, the fetcher, the main thread, a callback that has begun,
the service's coroutines with their timeouts, the thread of a path and its
replicas' calls (each has a timeout), the command that runs, the sequential walk
of the enumeration. In `Deployment` the operator who wants an audit follows
the advice. Nothing makes a fault, a submission, a shutdown, Ctrl+C, a DELETE or
a restart happen. In `CoderDispatch` a verification may stall for ever, in
`CoderService` Claude Code may hang, and in `PathStreamer` the graph database
answers. `AuditRun` assumes nothing of the pool: `ExecutionEnds` has two ends that
are not the end of the execution, waiting for an answer the pool owes
(`AwaitsPool`; `FuturesResolve` says when the pool gives it) and the lock of
`cancel_all`.

## 4. Where code and statements disagree

With a run of its own:

* **`paths_recursion`.** `paths_max_count: 0` means "no cap; enumerate every
  reachable path" (`config.py:219`). A chain is yielded only where its last
  function calls nothing or at the depth cap; when all callees of the last
  function are on the chain already, it is dropped, and a function reached only
  that way is on no path.

The others are steps the models take, which a property has to except or leave
aside:

*Audit and coder*

* The scan of dead workers routes orphaned claims to `WORKER_CRASHED` "so the master
  never hangs" (`worker_pool.py:611`). A dead worker is scanned once; when its claim
  was not flushed, or is read after that scan, nobody speaks for the path while
  another worker lives. And when all workers are dead the monitor fails what is
  outstanding and ends, after which the loop tops up its window with a path that
  nobody will answer. `FuturesResolve` excepts these two (`Stranded`), and
  `ExecutionEnds` the master that waits for such an answer (`AwaitsPool`).
* Keys are `default-run::F-000n`, because the workflow passes no run id
  (`workflow.py:349`, `coder.py:935`): until the job is reaped, a later run's F-0001
  gets the verdict on an earlier one's, while `docs/coder.md:86` says that Claude
  confirmed "the finding". `VerdictIsForKey` says no more than that key and project
  agree.
* `cancel_all` calls `future.cancel()` under its lock; for a queued task that
  runs the done-callback in the same thread, which takes the same lock
  (`coder.py:1404`, against "exits within ~2 seconds", `docs/coder.md:74`).
  `RunEnds` of `CoderDispatch` and `ExecutionEnds` of `AuditRun` name this end.
* A callback that fires before `findings.append` finds no finding and drops the
  verdict, and a late one loses against the copy that reconciliation writes
  back: a completed run can hold a Pending finding (`docs/coder.md:71`).
* A callback that read `_cancelling` before Ctrl+C writes its verdict over the
  `Skipped` of the handler (`workflow.py:2100`); Ctrl+C between
  `pending_coder.discard` and the write leaves a finding Pending (`torn`,
  `workflow.py:2191`); a callback re-raises the deletion of the run into
  `_fire_settled`, which swallows it (`coder.py:1349`).
* A live job of another project answers 409 although "idempotency keys are per-project"
  (`job.py:111`). A job cancelled while it runs may settle as `done` with a
  transport error (`worker.py:149`). When `communicate()` itself raises, the process
  is neither awaited nor killed (`worker.py:211`).
* When `open_run` is refused the audit goes on without a row: its findings reach
  no database, or a row of their own without a run (`postgres_sink.py:268`).
* The first snapshot of a resume replaces the saved state (`services.py:1160`),
  its findings are numbered from F-0001 again (`workflow.py:665`) and replace
  rows, although "resume must not lose anything captured by the prior execution"
  (`postgres_sink.py:320`): `FirstExecutionKeeps` ends at the first resume.
  Failed and skipped paths are carried over as completed (`services.py:969`),
  although `workflow.py:1107` says a resume re-runs them.
* `WORKER_CRASHED` leaves no entry in the run's record, although
  `worker_pool.py:86` says it is recorded in `failed_paths`; `CompletedIsCovered`
  excepts crashed paths. A Ctrl+C inside `InlineExecutor.submit_path` is stored in
  the future; the rest of the window is audited before it is seen
  (`worker_pool.py:258`).

*Agent chain*

* A cancelled team is to exit "within at most 0.5 s instead of blocking on
  executor.__exit__" (`agents.py:29`). It raises inside the `with` block of the
  pool, whose exit joins the threads (`Unwind`); `ChainEnds` holds because a call
  ends at last, and says nothing of how soon.
* Deep mode never downgrades a Valid verdict that the exploiter refutes,
  although `docs/audit-modes.md:84` says both modes do, and it runs the exploiter
  on what a debate called a false positive. `debate.enabled` and
  `halt_on_consensus` are ignored; at `max_rounds` the largest verdict is taken,
  not Inconclusive (`config.py:531`).
* An agentic call that fails is an answer, by default `no_issue`, and the path
  completes; a prompt call that fails makes it LLM_FAILED. The debate's calls are neither
  retried nor classified. Deep mode's agentic transcripts are never popped.
* In agentic form the lists of the analyzer and the exploiter are "silently
  ignored" (`docs/configuration.md:125`), but the judge of what the replicas
  answered takes its model from them, and an empty list fails the path.
* The cost estimate's three calls per finding are below the true bound, four
  (`CallsBounded`).

*Graph and paths*

* A crash in enrichment and a reset of Neo4j can make `build_graph` return a
  build that the database does not hold; `ReturnedIsReady` excepts builds reset
  before they had returned (`lost`). A second builder's crash turns a ready build back to
  "building"; `manifest.json` is written in place.
* `audit.sinks` is not part of the fingerprint; the tree may be edited between
  the fingerprint and a stage; decorators and registrations are read without the
  build's id.
* A cycle nobody calls is not walked while another entry exists. The count
  marker also appears when exactly `max_count` paths exist, and is suppressed
  after a depth marker.
* `cross_path_definitions` is to hold the definition sites outside the path of what
  the path reads (`context.py:21`). It is always empty, because the query loads the
  uses of the path's functions only (`neo4j_repository.py:621`); the symbols of a
  slice are not modelled.
* The reconciliation column is `NULL` for path-only audits, says `docs/portal.md:395`.
  The workflow stamps every group, as its own comment wants (`workflow.py:879`), and
  that is what `VerdictsKept` describes; it stamps none when the reconciler raises.
* Two sinks of one producer share a unit fingerprint.
  Only a group's first finding gets the reconciliation payload. `enumerate_units`
  has no caller.

*Configuration and containers*

* After an upgrade of the package, preflight admits an audit against a schema
  that lacks the new columns (`preflight.py:715`): it asks for the minimum, not
  for the head. `portal init` and `coder init` reuse the old image.
* A changed report database password does not reach the existing volume; the
  backend's URL is fixed at its creation; `coder reset` stops before the home
  volume when removing the image fails; the mount check is skipped when the
  inspect fails or no workspace is set.
* A file with `teaming.*` keys and no `audit.mode` is to be migrated
  (`config.py:497`). An `audit:` section that is written down and left empty stops the
  migration and is then read as absent, so `teaming.enabled` loads as fast mode. Such
  a section also erases what the layers below said, or raises AttributeError or
  TypeError rather than ConfigError. `LayersResolved` speaks of sources without
  empty sections (`NoEmptySection`).
* A team's provider list is "required when `audit.mode` is `deep`"
  (`docs/portal-settings.md:62`). Deep mode is accepted with empty lists, and
  the teams refuse it when the audit runs (`agents.py:580`, `TeamRefused`); no
  property says that what is accepted can be run.
* Variables refuse the 0 that YAML accepts
  for the exploiter's replication.

*Portal*

* "Self-reference rejection" (`api/findings.py:454`) compares texts: the finding's
  own UUID in capitals or without hyphens is stored. `FeedbackWellFormed` says that
  a pointer is to a finding of the run, not that it is to another one.
* The tiles are to "reflect exactly the row set" of the list under the same filters
  (`api/runs.py:214`). A filter left out has a default in the one and none in the
  other, and the empty marker `?validation_status=` restricts nothing in
  `_resolve_filter` but becomes `IN ('')` in `list_run_findings`. `TilesAddUp` speaks
  of the tiles alone.
* Changing a password revokes only the session that asked (`docs/portal.md:198`
  says the others go too). `sessions_invalid_before` moves back when two writers
  overlap (`Closing`); a login that read its row before a reset commits gets a
  valid session after it.
* A duplicate may point to a finding that becomes a duplicate later, so chains
  and, by overlapping requests, cycles are stored. After two overlapping PATCHes
  the last history row need not be the stored label.
* Deleting an account that has reviewed something, two overlapping first labels
  and a late duplicate during `delete_run` end in a database error, not a 4xx.
  Two overlapping `delete_run`s are both logged. An override that overlaps a
  resume leaves a terminal status without `completed_at`.

## 5. Proofs

Every theorem holds for all values of the constants that satisfy the module's
named assumptions; the bounds of section 3 are among the constants, so they are
arbitrary here. An invariant that a run checks is seldom inductive: each module
strengthens it, TLC has checked the strengthened form on the run's instance or a
smaller one, and
the three facts `Init => Inv`, `Inv /\ [Next]_vars => Inv'` and `Inv => property`
are proved, one case per action.

| Module | Theorem | States |
|---|---|---|
| `SubprocessPoolProofs` | `TypeCorrect`, `CrashedNotRun`, `PoolClaimIsCurrent`, `PoolImplementsPathPool` | `TypeOK`, `CrashedIsNotRun`, `ClaimIsCurrent`, `ImplementsPathPool` |
| `PathProofs`, of `CallPaths` | `PathsEnumerationSound`, `PathsUnitsFollow`, `PathsReportTruthful` | `EnumerationSound`, `UnitsFollowPaths`, `ReportTruthful` |
| `PathProofs`, of `PathStreamer` | `StreamerTypeCorrect`, `StreamerImplementsPathStream` | `TypeOK`, `ImplementsPathStream` |
| `CoderProofs`, of `CoderDispatch` | `DispatchHandlesOnce`, `DispatchLeavesNothingPending` | `HandledOnce`, `NothingLeftPending` |
| `CoderProofs`, of `CoderService` | `ServiceStoreConsistent`, `ServiceTerminalIsFinal`, `ServiceVerdictIsForKey` | `StoreConsistent`, `TerminalIsFinal`, `VerdictIsForKey` |
| `AuditRunProofs` | `RunNumbersInPlanOrder`, `RunRecordIsTruthful`, `RunCompletesCovered`, `RunFirstExecutionKeeps` | `PlanOrder`, `RecordTruthful`, `CompletedIsCovered`, `FirstExecutionKeeps` |
| `GraphBuildProofs` | `GraphCacheSound`, `GraphReturnedIsComplete`, `GraphAuditMissesNothing` | `CacheSound`, `ReturnedIsComplete`, `AuditMissesNothing` |
| `UnitChainProofs` | `ChainCallsAccounted`, `ChainFindingsFaithful` | `CallsAccounted`, `FindingsFaithful` |
| `PortalProofs` | `AdminInvariant`, `PortalImplementsUsers`, `PortalKeepsAnAdmin`, `PortalClosesSessions`, `PortalRecordsWhole`, `PortalTilesAddUp` | `AdminInv`, `UsersSpec`, `AdminRemains`, `SessionsClosed`, `RecordsWhole`, `TilesAddUp` |
| `SetupProofs`, of `Deployment` | `DeploymentNothingStale`, `DeploymentRemovedByReset` | `NothingStaleInUse`, `RemovedByResetOnly` |
| `SetupProofs`, of `ConfigLoad` | `ConfigLayersResolved` | `LayersResolved` |

**SubprocessPool** (at least two workers, any plan and faults). `TypeOK` alone is
not inductive: a worker's `Put` makes a message of `cur[w]`, which must be a path
(`Busy`). `CrashedIsNotRun` needs `Custody`: a submitted path is on the request
queue, at most once, or has left its traces (the path a worker holds, its
recorded claim, its messages on their way) at one worker only, never both. So the
claim that the monitor finds on record for a dead worker names a path that nobody
else holds and nobody can take. `ClaimIsCurrent` is about what is still on its way,
and `InTurn` describes that by positions in the result queue and the worker's
buffer: claims and results of one worker alternate (`Alternate`), the newest tells
where the worker is (`NewestTells`), the oldest what is on record for it
(`OldestTells`). The lemmas `Moved`, `Stayed`, `Appended` and `Taken` say what each kind
of step does to the positions. `PoolImplementsPathPool` is the step simulation:
every action submits one future, sets pending futures, or stutters.

**PathStreamer** (any source with any repetitions, any queue capacity; the
sentinels are not paths, `PathSeqAssumption`). The invariant follows an entry
through the queue: each is the first path of the source outside what was given
and what is queued before it (`QueuedInTurn`), and `FetcherKnows` says what `seen`
and `pos` mean at each place of the fetcher. It is claimed only until `close`
(`Open`), after which the queue is drained and nothing is given.

**CallPaths** (any finite set of functions, any calls between them, any caps).
That the walk is complete is not an induction over chains but an invariant.
`Remaining` is the set of wanted chains that are still ahead: those that start at
an entry not walked yet, or leave the stack at some position by a callee its
iterator has left, or end on top of it. `WalkComplete` says that every wanted chain
is yielded or remaining, and that all that remains comes after all that was
yielded; each turn of the loop only moves a chain from one set to the other. It
rests on `WalkOrder`: the stack is a chain without repetition from an entry, and
what the iterators have left comes after it. When the stack and the entries are
used up, nothing is ahead. `WalkMarked` says that a chain cut short has left its
marker, and that the walk is left only with nothing ahead or at the count cap,
marked. That no chain is longer than there are functions is the pigeonhole
principle. Coverage of a program without recursion follows from a longest chain
through a function (`LongestChain`): nobody calls its first function and its last
calls nobody, so it is wanted (`OnFullChain`). Of a finished run the invariant
says that its payloads are those of the groups, each on the group's first member
(`Reconciled`), or that there are none and some group has several
(`Unreconciled`). `CallsAssumption` is what the parser
promises: a call is made by a function with source and names at most one callee.

**CoderDispatch** (any findings and threads). `Once`: nothing is known of a
finding before it is built, and what `poll_completed` took is no longer pending.
`Tracked`: the finding being submitted is not in the list yet, a callback about to
discard a finding has written it, and while the cancellation handler marks, the
Pending findings are those it has still to mark, or torn.

**CoderService** (any runs, projects, slots, retries and restarts). The index
entry of a job is cleared under the key of its origin, so jobs in the store have
one (`Originated`), and the state of an invocation's process follows from where
its handler is (`ProcessState`). `ServiceVerdictIsForKey` needs `Polled`: a client
polls a job that was created under its own key and for its own project, as long
as that job is in the store.
`InvocationsAssumption` says that finitely many invocations are made, which
`Cardinality` needs.

**AuditRun** (any plan, window, executions and refused transactions). The window
is the tail of what was taken (`Contiguous`), so `Base`, the number of reaped
paths, orders everything else: findings are of reaped paths (`FindingsReaped`), a
reaped path has an entry or crashed (`ReapedIsCovered`), a completing execution
has reaped all (`AllReaped`). `DoneWasAudited` speaks of the four places that can
say "done" at once: memory, what a resume loaded, the database and the pool's
answers. `InFirst` says that during the first execution rows and resume state agree
with memory, which makes `FirstExecutionKeeps` a property of single steps.

**GraphBuild** (any processes, trees, sinks, builds and faults). The parts of
`GraphInv` are: `Typed`, with what a process has read where it is; `Cache`, that at
a fingerprint nobody shares there is one process and what it is about to write
agrees with the directory; `Fresh`, that everything read or stored at a tree that
was not edited is of that tree; `Published`, that a writer has written every kind
before the one it is at, in an order in which no `MATCH` misses a node, and a
ready build holds its payload; `Single` and `Attended`, that a manifest saying
ready is of a build that Neo4j has; `Paged`, that a path not yet read has at
least `offset` paths before it, whatever is added. `RankAssumption` is that the
order of records is one.

**UnitChain** (any replication, cap, rounds and attempts). `Within`: a call is in
flight only inside the `with` block of its stage. `Answered`: a failed prompt call
is still visible as raised, or has ended the path. `Transcribed` and `Bounded` count:
two analyzer calls, one validator and one exploiter call at most go into a
finding, and no stage starts once the cap is reached. `FindingsFaithful` needs to
know of the candidate at hand and of those to come: their keys and those of the
findings never meet (`Apart`), together they hold every candidate reported, with its
evidence (`Covered`), and the team's n-th finding stems from its n-th record or a
later one (`Placed`), which bounds the findings without counting. `Weighed` is the
label so far. `ConsolidatedFacts` is the heart of it: for every judgement, the
clusters that deduplication hands over share no key and lose no record.

**Portal** (finite sets of accounts and findings, any slots, every start with an
enabled administrator). `AdminRemains` says nothing about requests that have counted
the administrators and not yet committed, so `AdminInv` does: who has staged a
removal holds the advisory lock, and what is staged is harmless, for it makes an
administrator, its target is none, or there is another one. The handlers without
a lock keep that, because they write neither a role nor, but to enable, `off`
(`Shaped`). The subtle case is the administrator who disables himself: his row was
read before the lock was taken, and the count is asked only because a row that
let him in says `admin` (`Asked`). `SessionsClosed` needs that a writer of a stamp read
the clock after it loaded the row, so that its UPDATE names the stamp (`Timely`), and
that a closed cookie is older than the stamp of its account, which keeps its row
or is gone for good (`Shut`). `RecordsWhole` needs that a staged duplicate points to
a finding of its run (`Sound`), which no overlapping commit can change, and
that no handler but an unreferenced deletion takes an account away
(`AccountsStay`, `ReviewersStay`). `TilesAddUp` is the algebra of the metrics: it
holds of every assignment of verdicts and feedback, by splitting cardinalities.
`PortalImplementsUsers` carries the accounts' theorems over to the composition.

**Deployment** (any workspaces, passwords and versions, any number of commands,
faults, edits and upgrades). What makes a verb safe is the order of its calls, so
`Ordered` says of the calls a command has left that each one which relies on
something comes after the call that provides it, or that it is there already: an
image and a volume before their container, a container before its start, its
removal before its image's and volume's, the project check before the admission.
Such an order holds of a suffix of the program until the earlier call is made
(`TailPrecedes`), and of a concatenation when it holds of its parts (`JoinPrecedes`),
which is how `init_all`'s program gets it from the three inits'; `ProgramSound`
goes through the sixteen verbs. A call that fails ends the command wherever it
is, which leaves no call and so no obligation: that is why a half-finished init
or reset is harmless. For a reset `Resetting` adds that what is not removed yet
is still to be removed, so nothing is left when it returns. `ServedSchema` needs
that images are never newer than the package and, of the migrations, that a new
version only extends them (`HeadsAssumption`): otherwise a reset under a running
backend followed by `migrate` would leave it a schema older than it needs.

**ConfigLoad** (any home files, any settings in any of the sources; a path is a
non-empty sequence). `Tree` is the merge of the five sources, and `TreeIsEffective`
shows that it says of every path what `Effective`, which merges nothing, says: a
source decides wherever it says something of the path, around it or below it.
`Read` tells by the sources what `data` is at each step, up to the tree with what
the legacy settings fill (`IsFilled`), and `Moded` that the mode's part of the
configuration is still the one that was validated. The case that needs care is a
value where a section is expected: it keeps the migration out. A null is excluded
by the property (`NoEmptySection`), and anything else
the builders refuse, all the way down to `audit.validator.debate`
(`NothingAbove`).

Only model-checked: every liveness property (`FuturesResolve`, `CallsReturn`,
`RunEnds` of both modules that have one, `JobSettles`, `ExecutionEnds`, `ChainEnds`,
`AdviceWorks`), which is out of the prover's reach. Every invariant, action property and
refinement that a passing run checks is also proved.

## 6. Not modelled, and the plan

Not modelled: parsers and prompts (text), what a provider answers (an arbitrary
choice), Neo4j and Postgres themselves beyond the constraints named, the portal's
read-only routes and configuration snapshots (numbered `max(version) + 1` without a
lock), the CLI, export and the frontend. Of modelled parts: coverage, debate and
progress rows of the sink, state units of the planner, symbols of a slice, the
deadline arithmetic of the cancellation token, the graph database's container,
which has the report database's manager, and a token's expiry. `multiprocessing.Queue`'s reader lock,
which a killed worker may leave taken (`worker_pool.py:343`), is not modelled, nor
are two processes that resume the same run at once (`postgres_sink.py:1195`) or a
graph database that never answers the streamer (`streamer.py:119`).

The order of work was: the pool and the coder stage, where threads meet; the
service; the streamer; the run and its resumption; then the chain of a path, the
graph build and the enumeration; the containers and the configuration; the
portal; then the proofs, in the same order.
