------------------------------- MODULE AuditRun -------------------------------
(***************************************************************************)
(* One audit run in the report database and the executions that work on    *)
(* it: AuditWorkflow.run's sliding window over the paths (workflow.py),    *)
(* _drive_workflow's and resume_audit's persistence (services.py) and the  *)
(* row the Postgres sink keeps (postgres_sink.py).                         *)
(*                                                                         *)
(* An execution audits paths through a worker pool or inline, records      *)
(* their outcomes in plan order, and after each one writes a snapshot and  *)
(* the resume state in two transactions.  It ends by completing, failing,  *)
(* being cancelled, or dying at any point; a later execution resumes from  *)
(* what the database holds.  The coder stage is CoderDispatch, the pool is *)
(* SubprocessPool and the order of paths comes from PathStreamer.          *)
(***************************************************************************)
EXTENDS Integers, Sequences, FiniteSets

CONSTANTS
    PathCount,      \* paths of the plan
    Window,         \* streamer.batch_size
    MaxExecutions,  \* bound: the first execution and resumes
    MaxLost,        \* bound: transactions the database refuses
    MaxTroubled,    \* bound: paths an execution takes and does not audit to the end
    MayDelete       \* an admin may delete the run

ASSUME PathCountAssumption == PathCount \in Nat
ASSUME WindowAssumption == Window \in Nat /\ Window >= 1
ASSUME BoundsAssumption == {MaxExecutions, MaxLost, MaxTroubled} \subseteq Nat
ASSUME MayDeleteAssumption == MayDelete \in BOOLEAN

Paths == 1..PathCount       \* in plan order: ORDER BY path_fingerprint

VARIABLES
    \* the execution's memory
    pc,             \* where the main thread is; "off" when there is none
    inline,         \* worker_count = 1: InlineExecutor
    taken,          \* plan_index: paths taken from the streamer
    window,         \* in_flight
    fut,            \* the future of each path
    shared,         \* shared_state (and checkpoints, which has its keys)
    completed,      \* completed_units
    findings,       \* findings: F-000n is the n-th entry, given by its path
    prior,          \* prior_shared_state; its keys are skip_paths
    interrupted,    \* the first SIGINT has come
    flushed,        \* cancel_state["flushed"] of _drive_workflow
    attached,       \* the sink's _run_id names the run's row
    \* the database
    status,         \* audit_runs.status; "none" before open_run
    resumeState,    \* audit_runs.resume_state["shared_state"]
    resumable,      \* audit_runs.resume_state IS NOT NULL
    rows,           \* the path each findings row F-000n is about; 0 for none
    \* history and bounds
    audited,        \* paths some execution audited to the end
    executions, lost

memory == <<inline, taken, window, fut, shared, completed, findings, prior,
            interrupted, flushed, attached>>
database == <<status, resumeState, resumable, rows>>
history == <<audited, executions, lost>>
vars == <<pc, memory, database, history>>

Nothing == [p \in Paths |-> "none"]

Init ==
    /\ pc = "off" /\ inline = FALSE
    /\ taken = 0 /\ window = <<>> /\ fut = Nothing /\ shared = Nothing
    /\ completed = {} /\ findings = <<>> /\ prior = Nothing
    /\ interrupted = FALSE /\ flushed = FALSE /\ attached = FALSE
    /\ status = "none" /\ resumeState = Nothing /\ resumable = FALSE
    /\ rows = [n \in Paths |-> 0]
    /\ audited = {} /\ executions = 0 /\ lost = 0

\* The main thread goes on at l; when the process ends its memory is gone.
Goto(l) ==
    /\ pc' = l
    /\ IF l # "off" THEN UNCHANGED memory
       ELSE /\ inline' = FALSE
            /\ taken' = 0 /\ window' = <<>> /\ fut' = Nothing
            /\ shared' = Nothing /\ completed' = {} /\ findings' = <<>>
            /\ prior' = Nothing /\ interrupted' = FALSE /\ flushed' = FALSE
            /\ attached' = FALSE

-----------------------------------------------------------------------------
(* Starting. *)

\* A fresh AuditWorkflow.run, after open_run left the row with this status and
\* the sink attached to it or not.
Begin(state, opened, at) ==
    /\ executions < MaxExecutions /\ executions' = executions + 1
    /\ pc' = "topup" /\ inline' \in BOOLEAN /\ prior' = state
    /\ status' = opened /\ attached' = at
    /\ UNCHANGED <<taken, window, fut, shared, completed, findings,
                   interrupted, flushed, resumeState, resumable, rows, audited>>

\* The transaction of open_run is refused: logged, rolled back and dropped.
OpenRefused == lost < MaxLost /\ lost' = lost + 1

\* run_audit: open_run inserts the row.  Refused before the insert is flushed,
\* the sink has no run id and the audit goes on; refused after it, the id it
\* stamped names no row and the "audit started" event raises.
RunAudit ==
    /\ pc = "off" /\ executions = 0
    /\ \/ UNCHANGED lost /\ Begin(Nothing, "in_progress", TRUE)
       \/ OpenRefused /\ Begin(Nothing, status, FALSE)
       \/ /\ OpenRefused /\ executions < MaxExecutions
          /\ executions' = executions + 1
          /\ UNCHANGED <<pc, memory, database, audited>>

\* fetch_resume_target: any row that is not completed.
ResumeTarget == status \in {"in_progress", "failed", "cancelled"}

\* resume_audit of that row, once it has a resume state.  A refused open_run
\* leaves the row as it is, its id stamped or not.
ResumeAudit ==
    /\ pc = "off" /\ ResumeTarget /\ resumable
    /\ \/ UNCHANGED lost /\ Begin(resumeState, "in_progress", TRUE)
       \/ OpenRefused /\ \E at \in BOOLEAN : Begin(resumeState, status, at)

-----------------------------------------------------------------------------
(* The sliding window. *)

\* PathOutcome.  The loop has a branch for CANCELLED too, but no path ends so
\* there: _cancelling is set by the handlers that leave the loop, and a worker
\* process has a workflow of its own in which nobody sets it.
Outcomes == {"finding", "clean", "skipped", "failed"}
Done == {"finding", "clean"}

\* Paths of this execution that were answered and not audited to the end.
Troubled == Cardinality({p \in Paths : fut[p] \in {"skipped", "failed", "raised", "interrupt", "crashed"}})

CanTopUp == pc = "topup" /\ taken < PathCount /\ Len(window) < Window

TakeNext ==
    /\ CanTopUp
    /\ taken' = taken + 1
    /\ window' = Append(window, taken + 1)

\* _topup of a path with a prior entry: carried over and reported at once.
TopUpResumed ==
    /\ TakeNext /\ prior[taken + 1] # "none"
    /\ fut' = [fut EXCEPT ![taken + 1] = "resumed"]
    /\ shared' = [shared EXCEPT ![taken + 1] = prior[taken + 1]]
    /\ completed' = completed \cup {taken + 1}
    /\ pc' = "emit"
    /\ UNCHANGED <<inline, findings, prior, interrupted, flushed, attached, database,
                   history>>

\* _topup of a path to audit, on a subprocess pool.
TopUpSubmit ==
    /\ TakeNext /\ prior[taken + 1] = "none" /\ ~inline
    /\ fut' = [fut EXCEPT ![taken + 1] = "pending"]
    /\ UNCHANGED <<pc, inline, shared, completed, findings, prior,
                   interrupted, flushed, attached, database, history>>

\* Inline, submit_path audits the path before it returns; whatever
\* _process_one_path raises is kept in the future, a KeyboardInterrupt too.
TopUpInline(o) ==
    /\ TakeNext /\ prior[taken + 1] = "none" /\ inline
    /\ o \in Outcomes \cup {"raised", "interrupt"}
    /\ o = "interrupt" => ~interrupted
    /\ o \in Done \/ Troubled < MaxTroubled
    /\ fut' = [fut EXCEPT ![taken + 1] = o]
    /\ interrupted' = (interrupted \/ o = "interrupt")
    /\ audited' = IF o \in Done THEN audited \cup {taken + 1} ELSE audited
    /\ UNCHANGED <<pc, inline, shared, completed, findings, prior, flushed, attached,
                   database, executions, lost>>

\* The pool answers: see PathPool.
Resolve(p, o) ==
    /\ pc # "off" /\ fut[p] = "pending"
    /\ o \in Outcomes \cup {"crashed"}
    /\ o \in Done \/ Troubled < MaxTroubled
    /\ fut' = [fut EXCEPT ![p] = o]
    /\ audited' = IF o \in Done THEN audited \cup {p} ELSE audited
    /\ UNCHANGED <<pc, inline, taken, window, shared, completed, findings,
                   prior, interrupted, flushed, attached, database, executions, lost>>

\* streamer.next_or_none raises what the fetcher met.
TopUpFails ==
    /\ pc = "topup" /\ Len(window) < Window
    /\ pc' = "failing"
    /\ UNCHANGED <<memory, database, history>>

\* Mutant: stops with paths still in flight once the last one is submitted.
TopUpDoneEarly ==
    /\ pc = "topup" /\ ~CanTopUp
    /\ pc' = IF taken = PathCount THEN "drain" ELSE "reap"
    /\ UNCHANGED <<memory, database, history>>

\* The window is full or the plan is exhausted; an empty window ends the loop.
TopUpDone ==
    /\ pc = "topup" /\ ~CanTopUp
    /\ pc' = IF window = <<>> THEN "drain" ELSE "reap"
    /\ UNCHANGED <<memory, database, history>>

\* What integrating the result of path p does to the run's state.
Entry(o) == CASE o \in Done -> "done"
              [] o = "skipped" -> "skipped"
              [] o = "failed" -> "failed"
              [] OTHER -> "none"

Integrate(p) ==
    /\ shared' = [shared EXCEPT ![p] = Entry(fut[p])]
    /\ completed' = IF fut[p] \in Done THEN completed \cup {p} ELSE completed
    /\ findings' = IF fut[p] = "finding" THEN Append(findings, p) ELSE findings

\* Mutant: takes results as they come.
ReapAny(p) ==
    /\ pc = "reap" /\ \E i \in 1..Len(window) : window[i] = p
    /\ fut[p] \in Outcomes \cup {"crashed"}
    /\ window' = SelectSeq(window, LAMBDA q : q # p)
    /\ Integrate(p)
    /\ pc' = "emit"
    /\ UNCHANGED <<inline, taken, fut, prior, interrupted, flushed, attached, database,
                   history>>

\* The oldest path's result is integrated; WORKER_CRASHED leaves no trace.
Reap(p) ==
    /\ pc = "reap" /\ p = Head(window)
    /\ fut[p] \in Outcomes \cup {"crashed"}
    /\ window' = Tail(window)
    /\ Integrate(p)
    /\ pc' = "emit"
    /\ UNCHANGED <<inline, taken, fut, prior, interrupted, flushed, attached, database,
                   history>>

\* Mutant: waits for the future of a resumed path, which has none.
ReapOtherWaits(p) ==
    /\ pc = "reap" /\ p = Head(window)
    /\ fut[p] \in {"raised", "interrupt"}
    /\ window' = Tail(window)
    /\ pc' = IF fut[p] = "raised" THEN "failing" ELSE "cancel"
    /\ UNCHANGED <<inline, taken, fut, shared, completed, findings, prior,
                   interrupted, flushed, attached, database, history>>

\* A resumed path, or a result() that raises.
ReapOther(p) ==
    /\ pc = "reap" /\ p = Head(window)
    /\ fut[p] \in {"resumed", "raised", "interrupt"}
    /\ window' = Tail(window)
    /\ pc' = CASE fut[p] = "resumed" -> "topup"
               [] fut[p] = "raised" -> "failing"
               [] fut[p] = "interrupt" -> "cancel"
    /\ UNCHANGED <<inline, taken, fut, shared, completed, findings, prior,
                   interrupted, flushed, attached, database, history>>

-----------------------------------------------------------------------------
(* The report sink: each write is one transaction; one that fails is logged *)
(* and dropped, and a missing row raises RunDeletedExternallyError.         *)

\* _resolve_run_row finds the row, or none under the run id it has.
RowThere == attached /\ status # "deleted"
RowGone == attached /\ status = "deleted"

\* A sink without a run id does nothing, or makes an orphan row of its own,
\* which is not followed here: it may be there or gone like any other.
Write(from, to, gone, db) ==
    /\ pc = from
    /\ \/ RowThere /\ db /\ Goto(to) /\ UNCHANGED lost
       \/ /\ RowThere /\ lost < MaxLost
          /\ lost' = lost + 1 /\ Goto(to) /\ UNCHANGED database
       \/ ~RowThere /\ Goto(gone) /\ UNCHANGED <<database, lost>>
       \/ ~attached /\ Goto(to) /\ UNCHANGED <<database, lost>>
    /\ UNCHANGED <<audited, executions>>

\* Mutant: the newest finding comes first.
UpsertNewestFirst(ns) ==
    rows' = [n \in Paths |->
               IF n \in ns THEN findings[Len(findings) + 1 - n] ELSE rows[n]]

\* _upsert_finding of the findings numbered ns: a row is found by its finding
\* id, inserted or updated, and never removed.
Upsert(ns) == rows' = [n \in Paths |-> IF n \in ns THEN findings[n] ELSE rows[n]]

Numbers == 1..Len(findings)

\* _sync_findings: all of them.
SyncFindings == Upsert(Numbers) /\ UNCHANGED <<status, resumeState, resumable>>

\* upsert_finding, for each finding with a new verdict.
UpsertSettled ==
    /\ \E ns \in SUBSET Numbers : Upsert(ns)
    /\ UNCHANGED <<status, resumeState, resumable>>

\* Mutant: saves the paths in flight as well.
SaveSubmitted ==
    /\ resumeState' = [p \in Paths |-> IF fut[p] # "none" /\ shared[p] = "none"
                                         THEN "done" ELSE shared[p]]
    /\ resumable' = TRUE
    /\ UNCHANGED <<status, rows>>

SaveShared ==
    /\ resumeState' = shared /\ resumable' = TRUE
    /\ UNCHANGED <<status, rows>>

ClearShared ==
    /\ resumeState' = Nothing /\ resumable' = TRUE
    /\ UNCHANGED <<status, rows>>

SetStatus(s) ==
    /\ status' = s
    /\ UNCHANGED <<resumeState, resumable, rows>>

Finalize ==
    /\ status' = "completed" /\ Upsert(Numbers)
    /\ UNCHANGED <<resumeState, resumable>>

\* _on_progress after each path.
EmitSnapshot == Write("emit", "save", "aborting", SyncFindings)
SaveResumeState == Write("save", "topup", "aborting", SaveShared)

\* The handler of a deleted run: cancel_all of the pool and of the coder.
Abort ==
    /\ pc = "aborting" /\ Goto("off")
    /\ UNCHANGED <<database, history>>

\* The run-end coder drain of CoderDispatch: verdicts upsert their findings,
\* and the deletion of the run may be seen or swallowed.
CoderDrain ==
    /\ pc = "drain"
    /\ \/ Goto("reconcile")
       \/ ~RowThere /\ Goto("off")
    /\ IF RowThere THEN UpsertSettled ELSE UNCHANGED database
    /\ UNCHANGED history

\* The completion sequence of _drive_workflow.  _apply_reconciliation upserts
\* every finding and logs what goes wrong.
Reconcile ==
    /\ pc = "reconcile" /\ pc' = "persist"
    /\ IF RowThere THEN SyncFindings ELSE UNCHANGED database
    /\ UNCHANGED <<memory, history>>

\* neo4j.persist_audit_run and state_store.save_audit_run; an exception here
\* is handled by nobody.
Persist ==
    /\ pc = "persist" /\ (Goto("finalemit") \/ Goto("off"))
    /\ UNCHANGED <<database, history>>

FinalSnapshot == Write("finalemit", "clear", "off", SyncFindings)
ClearResumeState == Write("clear", "close", "off", ClearShared)
CloseRun == Write("close", "off", "off", Finalize)

\* An exception of the loop: fail_run(status="failed").
FailRun == Write("failing", "off", "off", SetStatus("failed"))

\* The KeyboardInterrupt handler of the loop: on_cancel, which counts as
\* flushed even when the sink dropped its write ...
OnCancel ==
    /\ pc = "cancel" /\ pc' = "cancelemit"
    /\ flushed' \in IF attached THEN {RowThere} ELSE BOOLEAN
    /\ \/ ~RowThere /\ UNCHANGED <<database, lost>>
       \/ RowThere /\ SetStatus("cancelled") /\ UNCHANGED lost
       \/ /\ RowThere /\ lost < MaxLost
          /\ lost' = lost + 1 /\ UNCHANGED database
    /\ UNCHANGED <<inline, taken, window, fut, shared, completed, findings,
                   prior, interrupted, attached, audited, executions>>

\* ... on_progress with the partial run, whose exceptions are dropped ...
CancelSnapshot == Write("cancelemit", "cancelsave", "cancelresume", SyncFindings)
CancelSave == Write("cancelsave", "cancelresume", "cancelresume", SaveShared)

\* ... and in _drive_workflow the resume state once more, then fail_run when
\* on_cancel did not flush.
CancelResume ==
    Write("cancelresume", IF flushed THEN "off" ELSE "cancelfail", "off",
          SaveShared)
CancelFail == Write("cancelfail", "off", "off", SetStatus("cancelled"))

-----------------------------------------------------------------------------
(* The environment. *)

Looping == {"topup", "reap", "emit", "save"}
Completing == {"reconcile", "persist", "finalemit", "clear", "close"}

\* Ctrl+C in the loop, or in the run-end drain, which has no on_cancel.
Interrupt ==
    /\ ~interrupted /\ interrupted' = TRUE
    /\ \/ pc \in Looping /\ pc' = "cancel"
       \/ pc = "drain" /\ pc' = "cancelemit"
    /\ UNCHANGED <<inline, taken, window, fut, shared, completed, findings,
                   prior, flushed, attached, database, history>>

\* CoderDispatcher.cancel_all, which both handlers call, waits for the lock it
\* holds: see CoderDispatch.
CoderLocks ==
    /\ pc \in {"cancelemit", "aborting"} /\ pc' = "lockedout"
    /\ UNCHANGED <<memory, database, history>>

\* The process dies: killed, out of memory, a second Ctrl+C (os._exit), or a
\* Ctrl+C where nothing catches it before the command line does.
Crash ==
    /\ pc # "off" /\ Goto("off")
    /\ UNCHANGED <<database, history>>

DeleteRun ==
    /\ MayDelete /\ status \notin {"none", "deleted"}
    /\ status' = "deleted"
    /\ UNCHANGED <<pc, memory, resumeState, resumable, rows, history>>

\* Nobody resumes the run any more.
Idle == pc = "off" /\ UNCHANGED vars

-----------------------------------------------------------------------------
Loop ==
    \/ TopUpResumed \/ TopUpSubmit \/ TopUpFails \/ TopUpDone
    \/ \E o \in Outcomes \cup {"raised", "interrupt"} : TopUpInline(o)
    \/ \E p \in Paths : Reap(p) \/ ReapOther(p)

Persistence ==
    \/ EmitSnapshot \/ SaveResumeState \/ Abort \/ CoderDrain \/ Reconcile
    \/ Persist \/ FinalSnapshot \/ ClearResumeState \/ CloseRun \/ FailRun
    \/ OnCancel \/ CancelSnapshot \/ CancelSave \/ CancelResume \/ CancelFail

PoolAnswers == \E p \in Paths, o \in Outcomes \cup {"crashed"} : Resolve(p, o)

Next ==
    \/ RunAudit \/ ResumeAudit \/ Loop \/ Persistence \/ PoolAnswers
    \/ Interrupt \/ CoderLocks \/ Crash \/ DeleteRun \/ Idle

Spec == Init /\ [][Next]_vars

\* The main thread goes on.  PathPool promises no answer, so none is assumed.
FairSpec == Spec /\ WF_vars(Loop \/ Persistence)

-----------------------------------------------------------------------------
Entries == {"none", "done", "skipped", "failed"}

TypeOK ==
    /\ pc \in Looping \cup Completing \cup
             {"off", "drain", "failing", "cancel", "cancelemit", "cancelsave",
              "cancelresume", "cancelfail", "aborting", "lockedout"}
    /\ flushed \in BOOLEAN /\ attached \in BOOLEAN /\ inline \in BOOLEAN
    /\ interrupted \in BOOLEAN /\ resumable \in BOOLEAN
    /\ taken \in 0..PathCount
    /\ window \in Seq(Paths) /\ Len(window) <= Window
    /\ fut \in [Paths -> Outcomes \cup {"none", "resumed", "pending",
                                        "crashed", "raised", "interrupt"}]
    /\ shared \in [Paths -> Entries]
    /\ completed \subseteq Paths
    /\ findings \in Seq(Paths)
    /\ prior \in [Paths -> Entries]
    /\ status \in {"none", "in_progress", "completed", "failed", "cancelled",
                   "deleted"}
    /\ resumeState \in [Paths -> Entries]
    /\ rows \in [Paths -> Paths \cup {0}]
    /\ audited \subseteq Paths
    /\ executions \in 0..MaxExecutions /\ lost \in 0..MaxLost

\* "finding-ids stay deterministic across topologies": whatever order the
\* workers answer in, findings are numbered in plan order, one per path.
PlanOrder ==
    \A i, j \in 1..Len(findings) : i < j => findings[i] < findings[j]

\* What a resume skips as done was audited to the end by some execution,
\* across crashes, cancellations and lost writes.
SkippedWasAudited ==
    \A p \in Paths : resumeState[p] = "done" => p \in audited

\* A run that gets to close_run has an entry for every path of the plan,
\* except the paths whose worker crashed: no path is lost between the
\* streamer, the window and the record, nor by resuming.
CompletedIsCovered ==
    pc \in Completing =>
        \A p \in Paths : shared[p] # "none" \/ fut[p] = "crashed"

\* The oldest path is with the pool and unanswered (future.result() has no
\* timeout, and a pool may strand a future: see SubprocessPool).
AwaitsPool == pc = "reap" /\ fut[Head(window)] = "pending"

\* An execution ends, unless it waits for an answer the pool owes or has
\* locked itself out in the coder's cancel_all: nothing else of the window,
\* the handlers and the database's refusals can stop it on the way.
ExecutionEnds == pc # "off" ~> (pc = "off" \/ AwaitsPool \/ pc = "lockedout")

\* What a run counts as completed was audited to the end by some execution,
\* except the skipped and failed paths a resume carries over (_topup).
CompletedWasAudited ==
    completed \subseteq audited \cup {p \in Paths : prior[p] \in {"skipped", "failed"}}

\* As long as the run has not been resumed, a row F-000n, which reviewers
\* label, stays a row about the same path, and what the database knows to be
\* done stays known until the run completes: through crashes, cancellation
\* and dropped writes.  A resume starts from empty lists and keeps neither.
FirstExecutionKeeps ==
    [][executions' = 1 /\ pc # "clear" =>
         /\ \A n \in Paths : rows[n] # 0 => rows'[n] = rows[n]
         /\ \A p \in Paths : resumeState[p] # "none" => resumeState'[p] = resumeState[p]]_vars

\* What the database and the run hold for done was audited, in every state an
\* execution or the database reaches.
RecordTruthful == TypeOK /\ SkippedWasAudited /\ CompletedWasAudited

=============================================================================
