---------------------------- MODULE CoderDispatch ----------------------------
(***************************************************************************)
(* The coder stage of an audit run: CoderDispatcher (audit/coder.py) and   *)
(* the part of AuditWorkflow.run (audit/workflow.py) that emits findings,  *)
(* submits them for verification, applies the verdicts, and drains,        *)
(* cancels or reconciles at the end.                                       *)
(*                                                                         *)
(* Three kinds of thread touch the findings list: the workflow's main      *)
(* thread, the executor threads that run a verification and then its       *)
(* on_settled callback, and, when a task is already done as its callback   *)
(* is added, the main thread running that callback itself.                 *)
(***************************************************************************)
EXTENDS Integers, FiniteSets

CONSTANTS
    FindingCount,   \* findings the audit emits (bound)
    Concurrency,    \* coder.concurrency
    MayCancel,      \* the operator may press Ctrl+C
    MayDelete,      \* the run may be deleted in the portal
    MayTimeOut      \* the run-end drain may hit its timeout

ASSUME FindingCountAssumption == FindingCount \in Nat
ASSUME ConcurrencyAssumption == Concurrency \in Nat /\ Concurrency >= 1
ASSUME EnvAssumption == {MayCancel, MayDelete, MayTimeOut} \subseteq BOOLEAN

Findings == 1..FindingCount      \* F-0001, F-0002, ...

VARIABLES
    mpc,            \* where the main thread is
    cur,            \* the finding the main thread handles; 0 for none
    emitted,        \* findings built so far: len(findings) and the one at hand
    todo,           \* findings the main thread still has to apply or mark
    status,         \* findings[idx].coder_status; "absent" before append
    reconciled,     \* findings already stamped by _apply_reconciliation
    pendingCoder,   \* pending_coder of AuditWorkflow.run
    task,           \* the Future of each finding
    registered,     \* add_done_callback has been called
    pend,           \* CoderDispatcher._pending
    cb,             \* where each on_settled callback is
    lockedOut,      \* the main thread waits for the lock it holds itself
    cancelling,     \* AuditWorkflow._cancelling
    rowGone,        \* the run's row was deleted in the portal
    timedOut,       \* the run-end drain gave up
    torn            \* the finding whose _apply was interrupted, if any

listVars == <<status, reconciled, pendingCoder>>
coderVars == <<task, registered, pend, cb, lockedOut>>
envVars == <<cancelling, rowGone, timedOut, torn>>
dispatchVars == <<mpc, cur, emitted, todo, listVars, coderVars, envVars>>

\* _lock is held across a blocking step only by the main thread in cancel_all.
LockFree == ~lockedOut

InList(f) == status[f] # "absent"

DispatchInit ==
    /\ mpc = "loop"
    /\ cur = 0
    /\ emitted = 0
    /\ todo = {}
    /\ status = [f \in Findings |-> "absent"]
    /\ reconciled = {}
    /\ pendingCoder = {}
    /\ task = [f \in Findings |-> "none"]
    /\ registered = {}
    /\ pend = {}
    /\ cb = [f \in Findings |-> "none"]
    /\ lockedOut = FALSE
    /\ cancelling = FALSE
    /\ rowGone = FALSE
    /\ timedOut = FALSE
    /\ torn = {}

-----------------------------------------------------------------------------
(* The main thread: emitting findings. *)

\* A finding the validator called False Positive is appended as Skipped and
\* never dispatched.
EmitFalsePositive ==
    /\ mpc = "loop" /\ emitted < FindingCount
    /\ emitted' = emitted + 1
    /\ status' = [status EXCEPT ![emitted + 1] = "Skipped"]
    /\ UNCHANGED <<mpc, cur, todo, reconciled, pendingCoder, coderVars,
                   envVars>>

\* CoderDispatcher.submit up to the release of the lock.
SubmitCoder ==
    /\ mpc = "loop" /\ emitted < FindingCount /\ LockFree
    /\ emitted' = emitted + 1
    /\ cur' = emitted + 1
    /\ task' = [task EXCEPT ![emitted + 1] = "queued"]
    /\ pend' = pend \cup {emitted + 1}
    /\ mpc' = "addcb"
    /\ UNCHANGED <<todo, listVars, registered, cb, lockedOut, envVars>>

\* future.add_done_callback: a task that is already done has its callback run
\* here, by the main thread.
AddDoneCallback ==
    /\ mpc = "addcb"
    /\ registered' = registered \cup {cur}
    /\ IF task[cur] = "done"
         THEN cb' = [cb EXCEPT ![cur] = "fire"] /\ mpc' = "inline"
         ELSE UNCHANGED cb /\ mpc' = "append"
    /\ UNCHANGED <<cur, emitted, todo, listVars, task, pend, lockedOut,
                   envVars>>

InlineReturn ==
    /\ mpc = "inline" /\ cb[cur] = "end"
    /\ mpc' = "append"
    /\ UNCHANGED <<cur, emitted, todo, listVars, coderVars, envVars>>

\* pending_coder.add and findings.append of the Pending finding.
AppendFinding ==
    /\ mpc = "append"
    /\ pendingCoder' = pendingCoder \cup {cur}
    /\ status' = [status EXCEPT ![cur] = "Pending"]
    /\ mpc' = "loop" /\ cur' = 0
    /\ UNCHANGED <<emitted, todo, reconciled, coderVars, envVars>>

\* on_progress after a path raises RunDeletedExternallyError.
ProgressSeesDeletion ==
    /\ mpc = "loop" /\ rowGone
    /\ mpc' = "abort"
    /\ UNCHANGED <<cur, emitted, todo, listVars, coderVars, envVars>>

\* The per-path loop is over.
LoopDone ==
    /\ mpc = "loop" /\ emitted = FindingCount
    /\ mpc' = "firstpoll"
    /\ UNCHANGED <<cur, emitted, todo, listVars, coderVars, envVars>>

-----------------------------------------------------------------------------
(* The main thread: applying settled tasks. *)

Settled == {f \in pend : task[f] = "done"}

\* poll_completed, from the loop's _drain_coder_results, from the first poll
\* of the run-end one, or from CoderDispatcher.drain.
PollCompleted ==
    /\ LockFree /\ Settled # {}
    /\ \/ mpc = "loop" /\ mpc' = "apply_loop"
       \/ mpc = "firstpoll" /\ mpc' = "apply_first"
       \/ mpc = "drain" /\ ~cancelling /\ mpc' = "apply_drain"
    /\ todo' = Settled
    /\ pend' = pend \ Settled
    /\ UNCHANGED <<cur, emitted, listVars, task, registered, cb, lockedOut,
                   envVars>>

\* _apply of _drain_coder_results starts with pending_coder.discard ...
ApplyDiscard(f) ==
    /\ mpc \in {"apply_loop", "apply_first", "apply_drain"}
    /\ f \in todo /\ cur = 0
    /\ todo' = todo \ {f}
    /\ cur' = f
    /\ pendingCoder' = pendingCoder \ {f}
    /\ UNCHANGED <<mpc, emitted, status, reconciled, coderVars, envVars>>

\* ... and then writes the finding and upserts its row.  A sink error other
\* than the deletion of the run is logged and dropped; CoderDispatcher.drain
\* drops the deletion as well.
ApplyWrite ==
    /\ mpc \in {"apply_loop", "apply_first", "apply_drain"} /\ cur # 0
    /\ cur' = 0
    /\ status' = [status EXCEPT ![cur] = IF InList(cur) THEN "Verdict" ELSE @]
    /\ IF rowGone /\ InList(cur) /\ mpc # "apply_drain"
         THEN mpc' = IF mpc = "apply_loop" THEN "abort" ELSE "aborted"
         ELSE UNCHANGED mpc
    /\ UNCHANGED <<emitted, todo, reconciled, pendingCoder, coderVars,
                   envVars>>

ApplyDone ==
    /\ todo = {} /\ cur = 0
    /\ \/ mpc = "apply_loop" /\ mpc' = "loop"
       \/ mpc = "apply_first" /\ mpc' = "drain"
       \/ mpc = "apply_drain" /\ mpc' = "drain"
    /\ UNCHANGED <<cur, emitted, todo, listVars, coderVars, envVars>>

FirstPollEmpty ==
    /\ mpc = "firstpoll" /\ LockFree /\ Settled = {}
    /\ mpc' = "drain"
    /\ UNCHANGED <<cur, emitted, todo, listVars, coderVars, envVars>>

\* Mutant: the drain has no deadline.
DrainNoDeadline ==
    /\ mpc = "drain" /\ pend = {}
    /\ mpc' = "reconcile"
    /\ UNCHANGED <<cur, emitted, todo, listVars, coderVars, envVars>>

\* CoderDispatcher.drain returns: nothing is pending, or nothing settled and
\* shutdown_timeout_seconds are over.
DrainReturn ==
    /\ mpc = "drain"
    /\ \/ pend = {} /\ UNCHANGED timedOut
       \/ MayTimeOut /\ pend # {} /\ Settled = {} /\ timedOut' = TRUE
    /\ mpc' = "reconcile"
    /\ UNCHANGED <<cur, emitted, todo, listVars, coderVars, cancelling,
                   rowGone, torn>>

\* _apply_reconciliation reads one finding ...
ReconcileRead(f) ==
    /\ mpc = "reconcile" /\ f \notin reconciled /\ InList(f)
    /\ \A g \in Findings : InList(g) /\ g < f => g \in reconciled
    /\ cur' = f
    /\ mpc' = IF status[f] = "Pending" THEN "rec_pending" ELSE "rec_settled"
    /\ UNCHANGED <<emitted, todo, listVars, coderVars, envVars>>

\* ... and writes back its copy with the reconciliation payload.
ReconcileWrite ==
    /\ mpc \in {"rec_pending", "rec_settled"}
    /\ status' = [status EXCEPT ![cur] =
                    IF mpc = "rec_pending" THEN "Pending" ELSE @]
    /\ reconciled' = reconciled \cup {cur}
    /\ mpc' = "reconcile" /\ cur' = 0
    /\ UNCHANGED <<emitted, todo, pendingCoder, coderVars, envVars>>

Complete ==
    /\ mpc = "reconcile" /\ \A f \in Findings : InList(f) => f \in reconciled
    /\ mpc' = "completed"
    /\ UNCHANGED <<cur, emitted, todo, listVars, coderVars, envVars>>

-----------------------------------------------------------------------------
(* The main thread: cancellation. *)

\* KeyboardInterrupt in the loop or in the run-end drain: _cancelling.set().
\* A callback the main thread was running is abandoned.
Interrupt ==
    /\ MayCancel /\ ~cancelling
    /\ mpc \in {"loop", "addcb", "inline", "append", "apply_loop",
                "firstpoll", "apply_first", "drain", "apply_drain"}
    /\ cancelling' = TRUE
    /\ mpc' = "cancel"
    /\ cb' = IF mpc = "inline" THEN [cb EXCEPT ![cur] = "end"] ELSE cb
    /\ todo' = {} /\ cur' = 0
    /\ torn' = IF mpc \in {"apply_loop", "apply_first", "apply_drain"}
                 THEN {cur} \cap Findings ELSE {}
    /\ UNCHANGED <<emitted, listVars, task, registered, pend, lockedOut,
                   rowGone, timedOut>>

Cancellable == {f \in pend : task[f] = "queued"}

AfterCancelAll == IF mpc = "cancel" THEN "mark" ELSE "aborted"

\* CoderDispatcher.cancel_all.  Future.cancel runs the done-callbacks of a
\* queued task in the calling thread, and _fire_settled takes the lock that
\* cancel_all holds.
CancelAll ==
    /\ mpc \in {"cancel", "abort"} /\ LockFree
    /\ IF Cancellable \cap registered # {}
         THEN /\ \E f \in Cancellable \cap registered :
                   task' = [task EXCEPT ![f] = "cancelled"]
              /\ lockedOut' = TRUE
              /\ UNCHANGED <<mpc, pend, todo, cancelling>>
         ELSE /\ task' = [f \in Findings |->
                            IF f \in Cancellable THEN "cancelled" ELSE task[f]]
              /\ pend' = pend \ Cancellable
              /\ mpc' = AfterCancelAll
              /\ todo' = IF mpc = "cancel" THEN pendingCoder ELSE {}
              /\ cancelling' = TRUE
              /\ UNCHANGED lockedOut
    /\ UNCHANGED <<cur, emitted, listVars, registered, cb, rowGone, timedOut,
                   torn>>

\* Mutant: leaves a finding alone whose task is already running or done.
MarkSkippedQueuedOnly(f) ==
    /\ mpc = "mark" /\ f \in todo
    /\ todo' = todo \ {f}
    /\ status' = [status EXCEPT ![f] =
                    IF InList(f) /\ task[f] = "cancelled" THEN "Skipped" ELSE @]
    /\ pendingCoder' = pendingCoder \ {f}
    /\ UNCHANGED <<mpc, cur, emitted, reconciled, coderVars, envVars>>

\* One iteration of _mark_pending_coder_skipped over list(pending_coder).
MarkSkipped(f) ==
    /\ mpc = "mark" /\ f \in todo
    /\ todo' = todo \ {f}
    /\ status' = [status EXCEPT ![f] = IF InList(f) THEN "Skipped" ELSE @]
    /\ pendingCoder' = pendingCoder \ {f}
    /\ UNCHANGED <<mpc, cur, emitted, reconciled, coderVars, envVars>>

RaiseUserCancelled ==
    /\ mpc = "mark" /\ todo = {}
    /\ mpc' = "cancelled"
    /\ UNCHANGED <<cur, emitted, todo, listVars, coderVars, envVars>>

-----------------------------------------------------------------------------
(* The executor threads. *)

\* A thread is busy until the callback of its task has returned.
BusyThreads ==
    Cardinality({f \in Findings :
        \/ task[f] = "running"
        \/ cb[f] \notin {"none", "end"} /\ ~(mpc = "inline" /\ cur = f)})

StartVerify(f) ==
    /\ task[f] = "queued" /\ BusyThreads < Concurrency
    /\ \A g \in Findings : g < f => task[g] # "queued"
    /\ task' = [task EXCEPT ![f] = "running"]
    /\ UNCHANGED <<mpc, cur, emitted, todo, listVars, registered, pend, cb,
                   lockedOut, envVars>>

\* CoderAgent.verify returned or raised: the future is done; callbacks follow.
FinishVerify(f) ==
    /\ task[f] = "running"
    /\ task' = [task EXCEPT ![f] = "done"]
    /\ cb' = IF f \in registered THEN [cb EXCEPT ![f] = "fire"] ELSE cb
    /\ UNCHANGED <<mpc, cur, emitted, todo, listVars, registered, pend,
                   lockedOut, envVars>>

\* Mutant: the task is not popped, only looked up.
FireWithoutPop(f) ==
    /\ cb[f] = "fire" /\ LockFree
    /\ cb' = [cb EXCEPT ![f] = IF f \in pend THEN "popped" ELSE "end"]
    /\ UNCHANGED <<mpc, cur, emitted, todo, listVars, task, registered, pend,
                   lockedOut, envVars>>

\* _fire_settled: pop the task, or leave it to whoever popped it first.
FireSettled(f) ==
    /\ cb[f] = "fire" /\ LockFree
    /\ cb' = [cb EXCEPT ![f] = IF f \in pend THEN "popped" ELSE "end"]
    /\ pend' = pend \ {f}
    /\ UNCHANGED <<mpc, cur, emitted, todo, listVars, task, registered,
                   lockedOut, envVars>>

\* _on_settled reads _cancelling once, before it looks the finding up.
SettledCheck(f) ==
    /\ cb[f] = "popped"
    /\ cb' = [cb EXCEPT ![f] = IF cancelling THEN "skip" ELSE "verdict"]
    /\ UNCHANGED <<mpc, cur, emitted, todo, listVars, task, registered, pend,
                   lockedOut, envVars>>

\* findings[idx] = ..., or "unknown finding ...; ignoring".
SettledWrite(f) ==
    /\ cb[f] \in {"skip", "verdict"}
    /\ status' = [status EXCEPT ![f] =
                    IF ~InList(f) THEN @
                    ELSE IF cb[f] = "skip" THEN "Skipped" ELSE "Verdict"]
    /\ cb' = [cb EXCEPT ![f] = IF InList(f) THEN "written" ELSE "end"]
    /\ UNCHANGED <<mpc, cur, emitted, todo, reconciled, pendingCoder, task,
                   registered, pend, lockedOut, envVars>>

\* pending_coder.discard and the upsert of the row.  The deletion of the run
\* is re-raised, and _fire_settled swallows it.
SettledPublish(f) ==
    /\ cb[f] = "written"
    /\ pendingCoder' = pendingCoder \ {f}
    /\ cb' = [cb EXCEPT ![f] = "end"]
    /\ UNCHANGED <<mpc, cur, emitted, todo, status, reconciled, task,
                   registered, pend, lockedOut, envVars>>

\* A portal user deletes the run.
DeleteRun ==
    /\ MayDelete /\ ~rowGone
    /\ rowGone' = TRUE
    /\ UNCHANGED <<mpc, cur, emitted, todo, listVars, coderVars, cancelling,
                   timedOut, torn>>

-----------------------------------------------------------------------------
RunOver == mpc \in {"completed", "cancelled", "aborted"}

\* What is left after the run: abandoned tasks run out on their own.
Finished == RunOver /\ UNCHANGED dispatchVars

MainStep ==
    \/ EmitFalsePositive \/ SubmitCoder \/ AddDoneCallback \/ InlineReturn
    \/ AppendFinding \/ ProgressSeesDeletion \/ LoopDone \/ PollCompleted
    \/ (\E f \in Findings : ApplyDiscard(f)) \/ ApplyWrite \/ ApplyDone \/ FirstPollEmpty
    \/ DrainReturn \/ (\E f \in Findings : ReconcileRead(f))
    \/ ReconcileWrite \/ Complete \/ CancelAll
    \/ (\E f \in Findings : MarkSkipped(f)) \/ RaiseUserCancelled

CallbackStep(f) ==
    FireSettled(f) \/ SettledCheck(f) \/ SettledWrite(f) \/ SettledPublish(f)

ExecutorStep(f) == StartVerify(f) \/ FinishVerify(f) \/ CallbackStep(f)

DispatchNext ==
    \/ MainStep
    \/ Interrupt
    \/ \E f \in Findings : ExecutorStep(f)
    \/ DeleteRun
    \/ Finished

DispatchSpec == DispatchInit /\ [][DispatchNext]_dispatchVars

\* The main thread and a callback that has started run on; a verification
\* itself may stall, which is what the drain's timeout is for.
Fairness ==
    /\ WF_dispatchVars(MainStep)
    /\ \A f \in Findings : WF_dispatchVars(CallbackStep(f))

FairDispatch == DispatchSpec /\ Fairness

-----------------------------------------------------------------------------
DispatchTypeOK ==
    /\ mpc \in {"loop", "addcb", "inline", "append", "apply_loop",
                "firstpoll", "apply_first", "drain", "apply_drain",
                "reconcile", "rec_pending", "rec_settled", "completed",
                "cancel", "mark", "cancelled", "abort", "aborted"}
    /\ cur \in Findings \cup {0}
    /\ emitted \in 0..FindingCount
    /\ todo \subseteq Findings
    /\ status \in [Findings -> {"absent", "Pending", "Verdict", "Skipped"}]
    /\ reconciled \subseteq Findings
    /\ pendingCoder \subseteq Findings
    /\ task \in [Findings -> {"none", "queued", "running", "done",
                              "cancelled"}]
    /\ registered \subseteq Findings
    /\ pend \subseteq Findings
    /\ cb \in [Findings -> {"none", "fire", "popped", "skip", "verdict",
                            "written", "end"}]
    /\ torn \subseteq Findings
    /\ {lockedOut, cancelling, rowGone, timedOut} \subseteq BOOLEAN

\* "exactly-once semantics regardless of which path wins" (submit): a settled
\* task is popped by the callback or by poll_completed, and once popped it is
\* pending no more, so no verdict is handled twice.
HandledOnce ==
    \A f \in Findings : cb[f] \in {"popped", "skip", "verdict", "written"} =>
        f \notin pend /\ ~(f \in todo /\ mpc # "mark")

\* Until reconciliation, a finding shown as Pending is in pending_coder,
\* except the one _apply is writing: that set is all the cancellation handler
\* looks at to snap findings to Skipped.
PendingIsTracked ==
    \A f \in Findings :
        (status[f] = "Pending" /\ mpc \notin {"reconcile", "rec_pending",
                                              "rec_settled", "completed"})
            => f \in pendingCoder \/ f = cur \/ f \in torn

\* A cancelled run leaves no finding Pending, whatever the coder threads were
\* doing when the operator pressed Ctrl+C; the one exception is a finding
\* whose verdict the main thread was applying at that moment.
CancelledHasNoPending ==
    mpc = "cancelled" =>
        \A f \in Findings : status[f] = "Pending" => f \in torn

\* The run ends although verifications stall, completed, cancelled or aborted,
\* because the run-end drain is bounded.  The one thing that keeps it is
\* cancel_all waiting for the lock it holds, in the callback of a queued task.
RunEnds == <>(RunOver \/ lockedOut)

\* What is shown as Pending is tracked, and a cancelled run shows nothing as
\* Pending, in every state a run reaches.
NothingLeftPending == DispatchTypeOK /\ PendingIsTracked /\ CancelledHasNoPending

=============================================================================
