--------------------------- MODULE SubprocessPool ---------------------------
(***************************************************************************)
(* audit/worker_pool.py: LocalSubprocessPool and _subprocess_worker_main.  *)
(*                                                                         *)
(* The master submits paths to a shared request queue; spawned workers     *)
(* take one path at a time, announce it with a "claim" message, run it and *)
(* answer with a "result" message.  A monitor thread of the master drains  *)
(* the result queue into per-path futures, and on every empty tick routes  *)
(* the claims of dead workers to WORKER_CRASHED.                           *)
(*                                                                         *)
(* multiprocessing.Queue is external: put() appends to a buffer of the     *)
(* calling process and a feeder thread moves it to the shared pipe later   *)
(* (FeederFlush), so a killed process loses what was not flushed.  The     *)
(* master's own puts are never lost and go straight to the pipe.           *)
(***************************************************************************)
EXTENDS Integers, Sequences, FiniteSets

CONSTANTS
    WorkerCount,   \* audit.worker_count
    PathCount,     \* length of the plan (bound)
    MaxRaises,     \* bound: BaseExceptions that escape _process_one_path
    MaxKills       \* bound: workers killed from outside (OOM, kill -9)

ASSUME WorkerCountAssumption == WorkerCount \in Nat /\ WorkerCount >= 2
ASSUME PathCountAssumption == PathCount \in Nat
ASSUME FaultAssumption == MaxRaises \in Nat /\ MaxKills \in Nat

Workers == 1..WorkerCount
Paths == 1..PathCount

NoPath == 0          \* no current path / no claim
Sentinel == 0        \* the None put on the request queue by shutdown()

Messages == [kind : {"claim", "result"}, index : Paths, worker : Workers]

VARIABLES
    requestQ,        \* _request_q: path indices and sentinels, in order
    wpc,             \* where each worker is in _subprocess_worker_main
    cur,             \* the path a worker has taken from the queue
    buf,             \* messages a worker has put but not yet flushed
    resultQ,         \* _result_q: messages in the pipe
    fut,             \* the Future of each path; "pending" = in _futures
    claims,          \* _claims: worker -> path it announced
    deadSeen,        \* _dead_workers_seen
    mon,             \* where the monitor thread is in _monitor_loop
    scan,            \* next worker _check_dead_workers looks at
    sigterm,         \* workers with a SIGTERM on the way
    shut,            \* progress of shutdown()
    joining,         \* next worker shutdown() joins
    closed,          \* _closed
    cancelled,       \* cancel_all() was called
    raises, kills    \* faults so far

workerVars == <<requestQ, wpc, cur, buf>>
masterVars == <<fut, claims, deadSeen>>
shutVars == <<shut, joining, closed, cancelled>>
vars == <<requestQ, wpc, cur, buf, resultQ, fut, claims, deadSeen, mon, scan,
          sigterm, shut, joining, closed, cancelled, raises, kills>>

Dead(w) == wpc[w] = "dead"
AllWorkersDead == \A w \in Workers : Dead(w)
HasOutstanding == \E i \in Paths : fut[i] = "pending"

Init ==
    /\ requestQ = <<>>
    /\ wpc = [w \in Workers |-> "idle"]
    /\ cur = [w \in Workers |-> NoPath]
    /\ buf = [w \in Workers |-> <<>>]
    /\ resultQ = <<>>
    /\ fut = [i \in Paths |-> "unsubmitted"]
    /\ claims = [w \in Workers |-> NoPath]
    /\ deadSeen = {}
    /\ mon = "top"
    /\ scan = 1
    /\ sigterm = {}
    /\ shut = "no"
    /\ joining = 1
    /\ closed = FALSE
    /\ cancelled = FALSE
    /\ raises = 0
    /\ kills = 0

-----------------------------------------------------------------------------
(* The master thread. *)

\* submit_path: paths are submitted once, in plan order.
SubmitPath(i) ==
    /\ shut = "no" /\ ~cancelled
    /\ fut[i] = "unsubmitted"
    /\ \A j \in Paths : j < i => fut[j] # "unsubmitted"
    /\ fut' = [fut EXCEPT ![i] = "pending"]
    /\ requestQ' = Append(requestQ, i)
    /\ UNCHANGED <<wpc, cur, buf, resultQ, claims, deadSeen, mon, scan,
                   sigterm, shutVars, raises, kills>>

\* cancel_all: SIGTERM to every live worker.
CancelAll ==
    /\ shut = "no" /\ ~cancelled
    /\ cancelled' = TRUE
    /\ sigterm' = sigterm \cup {w \in Workers : ~Dead(w)}
    /\ UNCHANGED <<workerVars, resultQ, masterVars, mon, scan, shut, joining,
                   closed, raises, kills>>

\* shutdown(): one sentinel per worker, then the joins unless wait is FALSE.
\* A second call returns at once (_shutdown_called).
Shutdown(wait) ==
    /\ shut = "no"
    /\ requestQ' = requestQ \o [k \in Workers |-> Sentinel]
    /\ shut' = IF wait THEN "join" ELSE "closed"
    /\ closed' = ~wait
    /\ UNCHANGED <<wpc, cur, buf, resultQ, masterVars, mon, scan, sigterm,
                   joining, cancelled, raises, kills>>

\* p.join(timeout=grace) returned because the worker is gone.
ShutdownJoined ==
    /\ shut = "join" /\ joining \in Workers
    /\ Dead(joining)
    /\ joining' = joining + 1
    /\ UNCHANGED <<workerVars, resultQ, masterVars, mon, scan, sigterm, shut,
                   closed, cancelled, raises, kills>>

\* The grace ran out: p.terminate().
ShutdownTerminate ==
    /\ shut = "join" /\ joining \in Workers
    /\ ~Dead(joining) /\ joining \notin sigterm
    /\ sigterm' = sigterm \cup {joining}
    /\ UNCHANGED <<workerVars, resultQ, masterVars, mon, scan, shutVars,
                   raises, kills>>

\* SIGTERM did not end it in 2 s: p.kill().
ShutdownKill ==
    /\ shut = "join" /\ joining \in Workers
    /\ ~Dead(joining) /\ joining \in sigterm
    /\ wpc' = [wpc EXCEPT ![joining] = "dead"]
    /\ cur' = [cur EXCEPT ![joining] = NoPath]
    /\ buf' = [buf EXCEPT ![joining] = <<>>]
    /\ joining' = joining + 1
    /\ UNCHANGED <<requestQ, resultQ, masterVars, mon, scan, sigterm, shut,
                   closed, cancelled, raises, kills>>

\* _closed.set() once every worker was joined.
ShutdownClose ==
    /\ shut = "join" /\ joining = WorkerCount + 1
    /\ shut' = "closed"
    /\ closed' = TRUE
    /\ UNCHANGED <<workerVars, resultQ, masterVars, mon, scan, sigterm,
                   joining, cancelled, raises, kills>>

-----------------------------------------------------------------------------
(* A worker process. *)

\* Mutant: the None check is gone, the sentinel is taken for a path.
WorkerGetNoSentinel(w) ==
    /\ wpc[w] = "idle" /\ requestQ # <<>>
    /\ requestQ' = Tail(requestQ)
    /\ wpc' = [wpc EXCEPT ![w] = "got"]
    /\ cur' = [cur EXCEPT ![w] = Head(requestQ)]
    /\ UNCHANGED <<buf, resultQ, masterVars, mon, scan, sigterm, shutVars,
                   raises, kills>>

\* request_queue.get(): a path, or the sentinel that ends the loop.
WorkerGet(w) ==
    /\ wpc[w] = "idle" /\ requestQ # <<>>
    /\ requestQ' = Tail(requestQ)
    /\ IF Head(requestQ) = Sentinel
         THEN wpc' = [wpc EXCEPT ![w] = "exiting"] /\ UNCHANGED cur
         ELSE /\ wpc' = [wpc EXCEPT ![w] = "got"]
              /\ cur' = [cur EXCEPT ![w] = Head(requestQ)]
    /\ UNCHANGED <<buf, resultQ, masterVars, mon, scan, sigterm, shutVars,
                   raises, kills>>

Put(w, kind) ==
    buf' = [buf EXCEPT ![w] =
              Append(@, [kind |-> kind, index |-> cur[w], worker |-> w])]

\* result_queue.put(("claim", index, worker_id)), before the path is run.
WorkerClaim(w) ==
    /\ wpc[w] = "got"
    /\ Put(w, "claim")
    /\ wpc' = [wpc EXCEPT ![w] = "running"]
    /\ UNCHANGED <<requestQ, cur, resultQ, masterVars, mon, scan, sigterm,
                   shutVars, raises, kills>>

\* _process_one_path returned: put(("result", result, worker_id)).
WorkerResult(w) ==
    /\ wpc[w] = "running"
    /\ Put(w, "result")
    /\ wpc' = [wpc EXCEPT ![w] = "idle"]
    /\ cur' = [cur EXCEPT ![w] = NoPath]
    /\ UNCHANGED <<requestQ, resultQ, masterVars, mon, scan, sigterm,
                   shutVars, raises, kills>>

\* A BaseException escaped _process_one_path: the worker goes to its finally.
WorkerRaise(w) ==
    /\ wpc[w] = "running" /\ raises < MaxRaises
    /\ raises' = raises + 1
    /\ wpc' = [wpc EXCEPT ![w] = "exiting"]
    /\ cur' = [cur EXCEPT ![w] = NoPath]
    /\ UNCHANGED <<requestQ, buf, resultQ, masterVars, mon, scan, sigterm,
                   shutVars, kills>>

\* finally: result_queue.close() and join_thread() wait for the feeder.
WorkerExit(w) ==
    /\ wpc[w] = "exiting" /\ buf[w] = <<>>
    /\ wpc' = [wpc EXCEPT ![w] = "dead"]
    /\ UNCHANGED <<requestQ, cur, buf, resultQ, masterVars, mon, scan,
                   sigterm, shutVars, raises, kills>>

\* The feeder thread of the worker's queue writes one message to the pipe.
FeederFlush(w) ==
    /\ ~Dead(w) /\ buf[w] # <<>>
    /\ resultQ' = Append(resultQ, Head(buf[w]))
    /\ buf' = [buf EXCEPT ![w] = Tail(@)]
    /\ UNCHANGED <<requestQ, wpc, cur, masterVars, mon, scan, sigterm,
                   shutVars, raises, kills>>

Die(w) ==
    /\ ~Dead(w)
    /\ wpc' = [wpc EXCEPT ![w] = "dead"]
    /\ cur' = [cur EXCEPT ![w] = NoPath]
    /\ buf' = [buf EXCEPT ![w] = <<>>]

\* SIGTERM has its default action in a spawned child: no finally runs.
WorkerTerminated(w) ==
    /\ w \in sigterm
    /\ Die(w)
    /\ UNCHANGED <<requestQ, resultQ, masterVars, mon, scan, sigterm,
                   shutVars, raises, kills>>

\* Killed from outside.
WorkerKilled(w) ==
    /\ kills < MaxKills
    /\ kills' = kills + 1
    /\ Die(w)
    /\ UNCHANGED <<requestQ, resultQ, masterVars, mon, scan, sigterm,
                   shutVars, raises>>

-----------------------------------------------------------------------------
(* The monitor thread. *)

\* while not self._closed.is_set()
MonitorTop ==
    /\ mon = "top"
    /\ mon' = IF closed THEN "ended" ELSE "get"
    /\ UNCHANGED <<workerVars, resultQ, masterVars, scan, sigterm, shutVars,
                   raises, kills>>

\* A claim message: _claims[worker] = index.
MonitorClaim ==
    /\ mon = "get" /\ resultQ # <<>> /\ Head(resultQ).kind = "claim"
    /\ claims' = [claims EXCEPT ![Head(resultQ).worker] = Head(resultQ).index]
    /\ resultQ' = Tail(resultQ)
    /\ mon' = "top"
    /\ UNCHANGED <<workerVars, fut, deadSeen, scan, sigterm, shutVars,
                   raises, kills>>

\* Mutant: the worker's claim is not popped.
MonitorResultKeepsClaim ==
    /\ mon = "get" /\ resultQ # <<>> /\ Head(resultQ).kind = "result"
    /\ fut' = [fut EXCEPT ![Head(resultQ).index] =
                 IF @ = "pending" THEN "result" ELSE @]
    /\ resultQ' = Tail(resultQ)
    /\ mon' = "top"
    /\ UNCHANGED <<workerVars, claims, deadSeen, scan, sigterm, shutVars,
                   raises, kills>>

\* Mutant: a late result is set although the future was already crashed.
MonitorResultOverwrites ==
    /\ mon = "get" /\ resultQ # <<>> /\ Head(resultQ).kind = "result"
    /\ fut' = [fut EXCEPT ![Head(resultQ).index] = "result"]
    /\ claims' = [claims EXCEPT ![Head(resultQ).worker] = NoPath]
    /\ resultQ' = Tail(resultQ)
    /\ mon' = "top"
    /\ UNCHANGED <<workerVars, deadSeen, scan, sigterm, shutVars, raises,
                   kills>>

\* A result message: pop the future and the worker's claim, set the result
\* if the future is still there.
MonitorResult ==
    /\ mon = "get" /\ resultQ # <<>> /\ Head(resultQ).kind = "result"
    /\ LET m == Head(resultQ) IN
         /\ fut' = [fut EXCEPT ![m.index] =
                      IF @ = "pending" THEN "result" ELSE @]
         /\ claims' = [claims EXCEPT ![m.worker] = NoPath]
    /\ resultQ' = Tail(resultQ)
    /\ mon' = "top"
    /\ UNCHANGED <<workerVars, deadSeen, scan, sigterm, shutVars, raises,
                   kills>>

\* Mutant: no scan for individual deaths, only the "all dead" fallback.
MonitorEmptyFallbackOnly ==
    /\ mon = "get" /\ resultQ = <<>>
    /\ mon' = "scan"
    /\ scan' = WorkerCount + 1
    /\ UNCHANGED <<workerVars, resultQ, masterVars, sigterm, shutVars, raises,
                   kills>>

\* get(timeout=0.5) raised Empty.
MonitorEmpty ==
    /\ mon = "get" /\ resultQ = <<>>
    /\ mon' = "scan"
    /\ scan' = 1
    /\ UNCHANGED <<workerVars, resultQ, masterVars, sigterm, shutVars, raises,
                   kills>>

\* Mutant: the is_alive() check is gone.
MonitorScanAlive ==
    /\ mon = "scan" /\ scan \in Workers
    /\ IF scan \notin deadSeen
         THEN /\ deadSeen' = deadSeen \cup {scan}
              /\ claims' = [claims EXCEPT ![scan] = NoPath]
              /\ fut' = [i \in Paths |->
                           IF i = claims[scan] /\ fut[i] = "pending"
                             THEN "worker_crashed" ELSE fut[i]]
         ELSE UNCHANGED masterVars
    /\ scan' = scan + 1
    /\ UNCHANGED <<workerVars, resultQ, mon, sigterm, shutVars, raises, kills>>

\* One iteration of _check_dead_workers: a worker that died since the last
\* tick has its claim popped and the claimed future crashed.
MonitorScan ==
    /\ mon = "scan" /\ scan \in Workers
    /\ IF Dead(scan) /\ scan \notin deadSeen
         THEN /\ deadSeen' = deadSeen \cup {scan}
              /\ claims' = [claims EXCEPT ![scan] = NoPath]
              /\ fut' = [i \in Paths |->
                           IF i = claims[scan] /\ fut[i] = "pending"
                             THEN "worker_crashed" ELSE fut[i]]
         ELSE UNCHANGED masterVars
    /\ scan' = scan + 1
    /\ UNCHANGED <<workerVars, resultQ, mon, sigterm, shutVars, raises, kills>>

\* The fallback after the scan: every worker is dead and futures are left.
MonitorFailOutstanding ==
    /\ mon = "scan" /\ scan = WorkerCount + 1
    /\ AllWorkersDead /\ HasOutstanding
    /\ fut' = [i \in Paths |->
                 IF fut[i] = "pending" THEN "worker_crashed" ELSE fut[i]]
    /\ claims' = [w \in Workers |-> NoPath]
    /\ mon' = "ended"
    /\ UNCHANGED <<workerVars, resultQ, deadSeen, scan, sigterm, shutVars,
                   raises, kills>>

MonitorContinue ==
    /\ mon = "scan" /\ scan = WorkerCount + 1
    /\ ~(AllWorkersDead /\ HasOutstanding)
    /\ mon' = "top"
    /\ UNCHANGED <<workerVars, resultQ, masterVars, scan, sigterm, shutVars,
                   raises, kills>>

Monitor ==
    \/ MonitorTop \/ MonitorClaim \/ MonitorResult \/ MonitorEmpty
    \/ MonitorScan \/ MonitorFailOutstanding \/ MonitorContinue

-----------------------------------------------------------------------------
\* The pool is shut down and nothing is left running.
Finished ==
    /\ shut = "closed" /\ mon = "ended" /\ AllWorkersDead
    /\ UNCHANGED vars

ShutdownStep ==
    ShutdownJoined \/ ShutdownTerminate \/ ShutdownKill \/ ShutdownClose

WorkerMain(w) ==
    \/ WorkerGet(w) \/ WorkerClaim(w) \/ WorkerResult(w) \/ WorkerExit(w)
    \/ WorkerTerminated(w)

WorkerStep(w) == WorkerMain(w) \/ FeederFlush(w)

WorkerFault(w) == WorkerRaise(w) \/ WorkerKilled(w)

Next ==
    \/ \E i \in Paths : SubmitPath(i)
    \/ CancelAll
    \/ \E wait \in BOOLEAN : Shutdown(wait)
    \/ ShutdownStep
    \/ \E w \in Workers : WorkerStep(w) \/ WorkerFault(w)
    \/ Monitor
    \/ Finished

Spec == Init /\ [][Next]_vars

\* Processes and threads that can run do run; calls of the master and faults
\* need never happen.  A path's agent chain ends because every model call has
\* a timeout, and the feeder is a thread of its own.
Fairness ==
    /\ WF_vars(Monitor)
    /\ WF_vars(ShutdownStep)
    /\ \A w \in Workers :
         WF_vars(WorkerMain(w)) /\ WF_vars(FeederFlush(w))

FairSpec == Spec /\ Fairness

-----------------------------------------------------------------------------
TypeOK ==
    /\ requestQ \in Seq(Paths \cup {Sentinel})
    /\ wpc \in [Workers -> {"idle", "got", "running", "exiting", "dead"}]
    /\ cur \in [Workers -> Paths \cup {NoPath}]
    /\ buf \in [Workers -> Seq(Messages)]
    /\ resultQ \in Seq(Messages)
    /\ fut \in [Paths -> {"unsubmitted", "pending", "result",
                          "worker_crashed"}]
    /\ claims \in [Workers -> Paths \cup {NoPath}]
    /\ deadSeen \subseteq Workers
    /\ mon \in {"top", "get", "scan", "ended"}
    /\ scan \in 1..(WorkerCount + 1)
    /\ sigterm \subseteq Workers
    /\ shut \in {"no", "join", "closed"}
    /\ joining \in 1..(WorkerCount + 1)
    /\ closed \in BOOLEAN /\ cancelled \in BOOLEAN
    /\ raises \in 0..MaxRaises /\ kills \in 0..MaxKills

(* What the pool promises the aggregator. *)

Pool == INSTANCE PathPool WITH open <- (shut = "no")

\* Every future is submitted once and set at most once, whatever workers die
\* and however late their answers come (_monitor_loop, _check_dead_workers
\* and _fail_outstanding all pop a future before they set it).
ImplementsPathPool == Pool!Spec

\* When no worker fails by itself, every future submitted to an open pool is
\* set: a completed path by its result, a cancelled one by the "all workers
\* dead" fallback.  The master blocks on future.result() with no timeout.
FaultlessResolves ==
    [](raises = 0 /\ kills = 0) =>
        \A i \in Paths : fut[i] = "pending" ~> (fut[i] # "pending" \/ shut # "no")

\* A path reported WORKER_CRASHED is not being run by a live worker and will
\* not be: the claim that routed it belongs to a dead worker, and what is
\* left on the request queue has nobody to take it.
CrashedIsNotRun ==
    \A i \in Paths : fut[i] = "worker_crashed" =>
        /\ \A w \in Workers : cur[w] # i
        /\ (\E k \in 1..Len(requestQ) : requestQ[k] = i) => AllWorkersDead

\* The way of worker w's messages to the monitor: the pipe, which it shares
\* with the others, then its own buffer; and their positions on it.
Way(w) == resultQ \o buf[w]
InFlight(w) == {k \in 1..Len(Way(w)) : Way(w)[k].worker = w}
Oldest(w, k) == k \in InFlight(w) /\ \A l \in InFlight(w) : k <= l

\* "A worker holds at most one in-flight claim": the claim the monitor has on
\* record for a live worker is the path it runs, or the matching result is
\* the next message of that worker.  This is what lets _monitor_loop pop the
\* claim by worker id without looking at the index.
ClaimIsCurrent ==
    \A w \in Workers : (~Dead(w) /\ claims[w] # NoPath) =>
        /\ InFlight(w) = {} => wpc[w] = "exiting" \/ cur[w] = claims[w]
        /\ \A k \in InFlight(w) : Oldest(w, k) =>
               Way(w)[k].kind = "result" /\ Way(w)[k].index = claims[w]

\* Somebody can still speak of path i: it is queued or held by a worker, its
\* result is on the way, or its claim is, or is recorded, of a worker that
\* _check_dead_workers has yet to find dead.
OnItsWay(i) ==
    \/ \E k \in 1..Len(requestQ) : requestQ[k] = i
    \/ \E w \in Workers :
         \/ cur[w] = i
         \/ claims[w] = i /\ w \notin deadSeen
         \/ \E k \in InFlight(w) :
              /\ Way(w)[k].index = i
              /\ Way(w)[k].kind = "result" \/ w \notin deadSeen

\* The two ways in which the code loses an outstanding future: it was
\* submitted after the "all workers dead" fallback ended the monitor; or its
\* worker died with the claim unflushed or not yet read, and another worker
\* lives, so that neither the scan nor the fallback speaks for it.
Stranded(i) ==
    /\ fut[i] = "pending"
    /\ mon = "ended" \/ (~AllWorkersDead /\ ~OnItsWay(i))

\* A future is set unless it is stranded in one of these two ways: the claim
\* of a dead worker is found while others live, and the fallback speaks for
\* what is left when all are dead (_check_dead_workers, _fail_outstanding).
SetUnlessStranded ==
    \A i \in Paths :
        fut[i] = "pending" ~> (fut[i] # "pending" \/ shut # "no" \/ Stranded(i))

\* The monitor of a pool that is not closed ends only with every future of
\* that moment set (the break after _fail_outstanding).
EndLeavesNothing ==
    [][(mon # "ended" /\ mon' = "ended" /\ ~closed) =>
           \A i \in Paths : fut'[i] # "pending"]_vars

\* What the master, blocked on future.result() without a timeout, can rely
\* on: an answer when no worker fails by itself, and with failures an answer
\* for every future but the stranded ones.
FuturesResolve == FaultlessResolves /\ SetUnlessStranded /\ EndLeavesNothing

=============================================================================
