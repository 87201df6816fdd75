----------------------------- MODULE CoderService -----------------------------
(***************************************************************************)
(* The coder microservice (xauditor_coder_service: job.py, worker.py,      *)
(* app.py) and its HTTP client (HttpCoderTransport, audit/coder.py).       *)
(*                                                                         *)
(* Clients post a verification under an idempotency key and poll the job   *)
(* until it settles; an operator may DELETE jobs; the service runs at most *)
(* MaxConcurrent Claude Code processes, reaps old terminal jobs and loses  *)
(* every job when it restarts.  Synchronous agent invocations              *)
(* (AgentInvocation) take their slots from the same semaphore.  The        *)
(* service is one asyncio event loop, so what happens between two awaits   *)
(* is one step.                                                            *)
(***************************************************************************)
EXTENDS Integers, FiniteSets, AgentInvocation

CONSTANTS
    Runs, FindingIds,  \* audit runs and the finding ids each of them uses
    ProjectOf,         \* the project a run audits
    MaxConcurrent,     \* XAUDITOR_CODER_SERVICE_MAX_CONCURRENT
    MaxJobs,           \* bound: jobs ever created and invocations ever posted
    MaxRestarts,       \* bound: restarts of the service
    MaxRetries         \* bound: findings verified again after a Fail

ASSUME RunsAssumption == DOMAIN ProjectOf = Runs
ASSUME MaxConcurrentAssumption == MaxConcurrent \in Nat /\ MaxConcurrent >= 1
ASSUME BoundsAssumption == {MaxJobs, MaxRestarts, MaxRetries} \subseteq Nat

Requests == Runs \X FindingIds
Jobs == 1..MaxJobs
NoJob == 0

\* idempotency_key = f"{run_id}::{finding_id}".  AuditWorkflow builds its
\* CoderDispatcher without a run_id, so every run's is "default-run" and the
\* finding id is all that tells keys apart.
Key(c) == c[2]
Keys == FindingIds
Project(c) == ProjectOf[c[1]]

Terminal == {"done", "error", "cancelled"}

VARIABLES
    created,        \* number of jobs created: the next uuid
    store,          \* JobStore._jobs
    byKey,          \* JobStore._by_idempotency
    origin,         \* the request a job was created for: key, project, payload
    jstatus,        \* JobState.status
    result,         \* JobState.result
    cancelReq,      \* JobState.cancel_event
    wpc,            \* where the job's coroutine is
    proc,           \* the Claude Code process of the job
    cpc, cjob,      \* where each client is, and the job it polls
    verdict,        \* what the client returned
    restarts, retries

serviceVars == <<created, store, byKey, origin, jstatus, result, cancelReq,
                 wpc, proc>>
clientVars == <<cpc, cjob, verdict>>
jobVars == <<created, store, byKey, origin, jstatus, result, cancelReq, wpc,
             proc, cpc, cjob, verdict, restarts, retries>>
vars == <<jobVars, invocationVars>>

NoRequest == <<"none", "none">>
Answer(kind, of) == [kind |-> kind, of |-> of]

Init ==
    /\ created = 0
    /\ store = {}
    /\ byKey = [k \in Keys |-> NoJob]
    /\ origin = [j \in Jobs |-> NoRequest]
    /\ jstatus = [j \in Jobs |-> "pending"]
    /\ result = [j \in Jobs |-> "none"]
    /\ cancelReq = {}
    /\ wpc = [j \in Jobs |-> "none"]
    /\ proc = [j \in Jobs |-> "none"]
    /\ cpc = [c \in Requests |-> "start"]
    /\ cjob = [c \in Requests |-> NoJob]
    /\ verdict = [c \in Requests |-> Answer("none", NoRequest)]
    /\ restarts = 0
    /\ retries = 0
    /\ InvocationInit

-----------------------------------------------------------------------------
(* JobStore. *)

Posted == created + Cardinality({i \in Invocations : ipc[i] # "idle"})

\* The job an idempotency key is bound to, if it is worth returning.
Existing(c) ==
    LET j == byKey[Key(c)] IN
    IF j # NoJob /\ jstatus[j] \in {"pending", "done"} THEN j ELSE NoJob

\* Mutant: the failed job is left in the store next to its replacement.
CreateBesideOld(c) ==
    LET j == created + 1 IN
    /\ Posted < MaxJobs
    /\ created' = j
    /\ store' = store \cup {j}
    /\ byKey' = [byKey EXCEPT ![Key(c)] = j]
    /\ origin' = [origin EXCEPT ![j] = c]
    /\ wpc' = [wpc EXCEPT ![j] = "queued"]
    /\ UNCHANGED <<jstatus, result, cancelReq, proc>>

\* submit() of a key with no usable job: drop an errored or cancelled job and
\* create a fresh one; its coroutine waits for the semaphore.
Create(c) ==
    LET j == created + 1 IN
    /\ Posted < MaxJobs
    /\ created' = j
    /\ store' = (store \ {byKey[Key(c)]}) \cup {j}
    /\ byKey' = [byKey EXCEPT ![Key(c)] = j]
    /\ origin' = [origin EXCEPT ![j] = c]
    /\ wpc' = [wpc EXCEPT ![j] = "queued"]
    /\ UNCHANGED <<jstatus, result, cancelReq, proc>>

\* Mutant: a job that is already terminal is written again.
MarkTerminalAgain(j, s, r) ==
    /\ jstatus' = [jstatus EXCEPT ![j] = IF j \in store THEN s ELSE @]
    /\ result' = [result EXCEPT ![j] = IF j \in store THEN r ELSE @]

\* mark_terminal: a no-op for a job that is gone or already terminal.
MarkTerminal(j, s, r) ==
    IF j \in store /\ jstatus[j] \notin Terminal
      THEN /\ jstatus' = [jstatus EXCEPT ![j] = s]
           /\ result' = [result EXCEPT ![j] = r]
      ELSE UNCHANGED <<jstatus, result>>

\* reap_terminal: a terminal job whose TTL is over leaves with its key; what
\* is left of a coroutine keeps only its cancel event and its process.
Reap(j) ==
    /\ j \in store /\ jstatus[j] \in Terminal
    /\ store' = store \ {j}
    /\ byKey' = [byKey EXCEPT ![Key(origin[j])] = NoJob]
    /\ origin' = [origin EXCEPT ![j] = NoRequest]
    /\ jstatus' = [jstatus EXCEPT ![j] = "pending"]
    /\ result' = [result EXCEPT ![j] = "none"]
    /\ UNCHANGED <<created, cancelReq, wpc, proc, clientVars, restarts, retries>>

-----------------------------------------------------------------------------
(* HttpCoderTransport.invoke, one client per finding. *)

Settle(c, a) ==
    /\ cpc' = [cpc EXCEPT ![c] = "settled"]
    /\ cjob' = [cjob EXCEPT ![c] = NoJob]
    /\ verdict' = [verdict EXCEPT ![c] = a]

\* Mutant: a key that is bound to another project is answered all the same.
PostAnyProject(c, lost) ==
    /\ cpc[c] = "start"
    /\ LET j == Existing(c) IN
         /\ IF j # NoJob THEN UNCHANGED serviceVars ELSE Create(c)
         /\ IF lost
              THEN Settle(c, Answer("Fail", NoRequest))
              ELSE /\ cpc' = [cpc EXCEPT ![c] = "polling"]
                   /\ cjob' = [cjob EXCEPT ![c] =
                                 IF j # NoJob THEN j ELSE created + 1]
                   /\ UNCHANGED verdict
    /\ UNCHANGED <<restarts, retries>>

\* POST /verifications.  When the answer is lost the job exists all the same.
Post(c, lost) ==
    /\ cpc[c] = "start"
    /\ LET j == Existing(c) IN
         IF j # NoJob /\ Project(origin[j]) # Project(c)
         THEN \* HTTP 409
              /\ Settle(c, Answer("conflict", NoRequest))
              /\ UNCHANGED serviceVars
         ELSE /\ IF j # NoJob THEN UNCHANGED serviceVars ELSE Create(c)
              /\ IF lost
                   THEN Settle(c, Answer("Fail", NoRequest))
                   ELSE /\ cpc' = [cpc EXCEPT ![c] = "polling"]
                        /\ cjob' = [cjob EXCEPT ![c] =
                                      IF j # NoJob THEN j ELSE created + 1]
                        /\ UNCHANGED verdict
    /\ UNCHANGED <<restarts, retries>>

\* The project is unknown, the service is down or the request times out.
PostFails(c) ==
    /\ cpc[c] = "start"
    /\ Settle(c, Answer("Fail", NoRequest))
    /\ UNCHANGED <<serviceVars, restarts, retries>>

\* GET /verifications/{id} answers 404 or a terminal status.
PollSettles(c) ==
    /\ cpc[c] = "polling"
    /\ LET j == cjob[c] IN
         \/ /\ j \notin store \/ jstatus[j] \in {"error", "cancelled"}
            /\ Settle(c, Answer("Fail", NoRequest))
         \/ /\ j \in store /\ jstatus[j] = "done"
            /\ Settle(c, Answer(result[j], origin[j]))
    /\ UNCHANGED <<serviceVars, restarts, retries>>

\* The poll's deadline is over, or the connection is.
PollFails(c) ==
    /\ cpc[c] = "polling"
    /\ Settle(c, Answer("Fail", NoRequest))
    /\ UNCHANGED <<serviceVars, restarts, retries>>

\* The finding is verified again in a later audit of the same run.
Retry(c) ==
    /\ cpc[c] = "settled" /\ verdict[c].kind = "Fail" /\ retries < MaxRetries
    /\ retries' = retries + 1
    /\ cpc' = [cpc EXCEPT ![c] = "start"]
    /\ verdict' = [verdict EXCEPT ![c] = Answer("none", NoRequest)]
    /\ UNCHANGED <<serviceVars, cjob, restarts>>

-----------------------------------------------------------------------------
(* The service's coroutines. *)

Active == {"spawning", "waiting", "timeout"}
\* Mutant: a slot is never given back.
SlotsLeaked ==
    MaxConcurrent - Cardinality({j \in Jobs : wpc[j] \in Active})
                  - Cardinality({i \in Invocations :
                                   ipc[i] \in InSlot \cup {"answered"}})
\* The one semaphore of create_app, for jobs and invocations.
Slots == MaxConcurrent - Cardinality({j \in Jobs : wpc[j] \in Active})
                       - Cardinality({i \in Invocations : ipc[i] \in InSlot})

\* _run_with_semaphore: the slot is taken; a job cancelled while it was
\* queued ends here.
Acquire(j) ==
    /\ wpc[j] = "queued" /\ Slots > 0
    /\ IF j \in cancelReq
         THEN /\ MarkTerminal(j, "cancelled", "none")
              /\ wpc' = [wpc EXCEPT ![j] = "end"]
         ELSE /\ wpc' = [wpc EXCEPT ![j] = "spawning"]
              /\ UNCHANGED <<jstatus, result>>
    /\ UNCHANGED <<created, store, byKey, origin, cancelReq, proc, clientVars,
                   restarts, retries>>

\* create_subprocess_exec returned.
Spawn(j) ==
    /\ wpc[j] = "spawning"
    /\ proc' = [proc EXCEPT ![j] = "running"]
    /\ wpc' = [wpc EXCEPT ![j] = "waiting"]
    /\ UNCHANGED <<created, store, byKey, origin, jstatus, result, cancelReq,
                   clientVars, restarts, retries>>

\* It raised FileNotFoundError or OSError.
SpawnFails(j) ==
    /\ wpc[j] = "spawning"
    /\ MarkTerminal(j, "done", "inconclusive")
    /\ wpc' = [wpc EXCEPT ![j] = "end"]
    /\ UNCHANGED <<created, store, byKey, origin, cancelReq, proc, clientVars,
                   restarts, retries>>

\* Claude Code answers and exits.
ProcessExits(j) ==
    /\ proc[j] = "running"
    /\ proc' = [proc EXCEPT ![j] = "exited"]
    /\ UNCHANGED <<created, store, byKey, origin, jstatus, result, cancelReq,
                   wpc, clientVars, restarts, retries>>

\* _wait_cancel_and_kill: SIGTERM, then SIGKILL.
CancelKills(j) ==
    /\ wpc[j] = "waiting" /\ j \in cancelReq /\ proc[j] = "running"
    /\ proc' = [proc EXCEPT ![j] = "killed"]
    /\ UNCHANGED <<created, store, byKey, origin, jstatus, result, cancelReq,
                   wpc, clientVars, restarts, retries>>

\* asyncio.wait returned with the cancel task and without the output.
WakeCancelled(j) ==
    /\ wpc[j] = "waiting" /\ j \in cancelReq /\ proc[j] # "running"
    /\ MarkTerminal(j, "cancelled", "none")
    /\ wpc' = [wpc EXCEPT ![j] = "end"]
    /\ UNCHANGED <<created, store, byKey, origin, cancelReq, proc, clientVars,
                   restarts, retries>>

\* asyncio.wait returned with the output; the cancel task may be done too.
WakeOutput(j) ==
    /\ wpc[j] = "waiting" /\ proc[j] # "running"
    /\ MarkTerminal(j, "done",
                    IF proc[j] = "exited" THEN "verdict" ELSE "inconclusive")
    /\ wpc' = [wpc EXCEPT ![j] = "end"]
    /\ UNCHANGED <<created, store, byKey, origin, cancelReq, proc, clientVars,
                   restarts, retries>>

\* request_timeout_seconds are over: the process is terminated ...
WakeTimeout(j) ==
    /\ wpc[j] = "waiting" /\ proc[j] = "running"
    /\ proc' = [proc EXCEPT ![j] = "killed"]
    /\ wpc' = [wpc EXCEPT ![j] = "timeout"]
    /\ UNCHANGED <<created, store, byKey, origin, jstatus, result, cancelReq,
                   clientVars, restarts, retries>>

\* ... and the job settles as an Inconclusive verdict.
FinishTimeout(j) ==
    /\ wpc[j] = "timeout"
    /\ MarkTerminal(j, "done", "inconclusive")
    /\ wpc' = [wpc EXCEPT ![j] = "end"]
    /\ UNCHANGED <<created, store, byKey, origin, cancelReq, proc, clientVars,
                   restarts, retries>>

\* The last-resort except of run_verification: communicate() raised or its
\* output could not be read.  The job settles and gives its slot back; a
\* process that still runs is left to itself.
WorkerCrash(j) ==
    /\ wpc[j] = "waiting"
    /\ MarkTerminal(j, "done", "inconclusive")
    /\ wpc' = [wpc EXCEPT ![j] = "crashed"]
    /\ UNCHANGED <<created, store, byKey, origin, cancelReq, proc, clientVars,
                   restarts, retries>>

\* DELETE /verifications/{id}: set the event; a job without a process is
\* settled at once.
Delete(j) ==
    /\ j \in store /\ j \notin cancelReq
    /\ cancelReq' = cancelReq \cup {j}
    /\ IF jstatus[j] = "pending" /\ proc[j] = "none"
         THEN MarkTerminal(j, "cancelled", "none")
         ELSE UNCHANGED <<jstatus, result>>
    /\ UNCHANGED <<created, store, byKey, origin, wpc, proc, clientVars,
                   restarts, retries>>

\* The container restarts: jobs live in process memory only, and Claude Code
\* runs inside the container.
Restart ==
    /\ restarts < MaxRestarts
    /\ restarts' = restarts + 1
    /\ store' = {}
    /\ byKey' = [k \in Keys |-> NoJob]
    /\ origin' = [j \in Jobs |-> NoRequest]
    /\ jstatus' = [j \in Jobs |-> "pending"]
    /\ result' = [j \in Jobs |-> "none"]
    /\ cancelReq' = {}
    /\ wpc' = [j \in Jobs |-> "none"]
    /\ proc' = [j \in Jobs |-> "none"]
    /\ DropInvocations
    /\ UNCHANGED <<created, clientVars, retries>>

-----------------------------------------------------------------------------
AllSettled ==
    /\ \A c \in Requests : cpc[c] = "settled"
    /\ \A j \in Jobs : wpc[j] \in {"none", "end", "crashed"}
    /\ \A i \in Invocations : ipc[i] \in {"idle", "answered"}
    /\ UNCHANGED vars

ClientStep(c) ==
    (\E lost \in BOOLEAN : Post(c, lost)) \/ PostFails(c) \/ PollSettles(c)
    \/ PollFails(c)

WorkerStep(j) ==
    \/ Acquire(j) \/ Spawn(j) \/ SpawnFails(j) \/ CancelKills(j)
    \/ WakeCancelled(j) \/ WakeOutput(j) \/ WakeTimeout(j) \/ FinishTimeout(j)
    \/ WorkerCrash(j)

JobStep ==
    \/ \E c \in Requests : ClientStep(c) \/ Retry(c)
    \/ \E j \in Jobs : WorkerStep(j) \/ ProcessExits(j) \/ Delete(j) \/ Reap(j)

InvocationStep(i) == HandlerStep(i) \/ (Slots > 0 /\ Admit(i))

Next ==
    \/ JobStep /\ UNCHANGED invocationVars
    \/ /\ \E i \in Invocations :
            \/ Posted < MaxJobs /\ Invoke(i)
            \/ InvocationStep(i) \/ InvocationExits(i) \/ Disconnect(i)
       /\ UNCHANGED jobVars
    \/ Restart
    \/ AllSettled

Spec == Init /\ [][Next]_vars

\* The event loop runs every coroutine that can go on, and the watchdog's
\* timeout fires; a Claude Code process need never answer.
FairSpec ==
    /\ Spec
    /\ \A j \in Jobs : WF_vars(WorkerStep(j) /\ UNCHANGED invocationVars)
    /\ \A i \in Invocations : WF_vars(InvocationStep(i) /\ UNCHANGED jobVars)

-----------------------------------------------------------------------------
Results == {"none", "verdict", "inconclusive"}

TypeOK ==
    /\ created \in 0..MaxJobs
    /\ store \subseteq 1..created
    /\ byKey \in [Keys -> Jobs \cup {NoJob}]
    /\ origin \in [Jobs -> Requests \cup {NoRequest}]
    /\ jstatus \in [Jobs -> {"pending"} \cup Terminal]
    /\ result \in [Jobs -> Results]
    /\ cancelReq \subseteq Jobs
    /\ wpc \in [Jobs -> {"none", "queued", "end", "crashed"} \cup Active]
    /\ proc \in [Jobs -> {"none", "running", "exited", "killed"}]
    /\ cpc \in [Requests -> {"start", "polling", "settled"}]
    /\ cjob \in [Requests -> Jobs \cup {NoJob}]
    /\ verdict \in [Requests -> [kind : Results \cup {"Fail", "conflict"},
                                 of : Requests \cup {NoRequest}]]
    /\ restarts \in 0..MaxRestarts /\ retries \in 0..MaxRetries
    /\ InvocationTypeOK

\* The two dicts of JobStore agree at every moment: a key is bound exactly to
\* the one job in the store that was created under it, across re-creation,
\* reaping and cancellation.  Reaping pops keys without looking at the id.
IndexConsistent ==
    /\ \A k \in Keys : byKey[k] # NoJob =>
         byKey[k] \in store /\ Key(origin[byKey[k]]) = k
    /\ \A j \in store : byKey[Key(origin[j])] = j

\* mark_terminal is idempotent: a settled job keeps its status and result
\* although DELETE, the watchdog and the worker may all try to settle it.
TerminalIsFinal ==
    [][\A j \in store \cap store' : jstatus[j] \in Terminal =>
         jstatus'[j] = jstatus[j] /\ result'[j] = result[j]]_vars

\* No Claude Code process outlives the coroutine that started it and holds
\* its slot: not after a timeout, a cancellation, or a DELETE that settled
\* the job while the process was being spawned.  Only the last-resort except
\* leaves one behind.
NoOrphanProcess ==
    \A j \in Jobs : proc[j] = "running" => wpc[j] \in {"waiting", "crashed"}

\* run_verification "always flips the job to a terminal status": every job is
\* settled in the end, or dropped by a restart, even when Claude Code hangs
\* and however many jobs and invocations queue for the semaphore; an agent
\* invocation, that of a client long gone too, is answered and gives its slot
\* back.
JobSettles ==
    /\ \A j \in Jobs : (j \in store /\ jstatus[j] = "pending")
                         ~> (j \notin store \/ jstatus[j] \in Terminal)
    /\ \A i \in Invocations : (ipc[i] = "queued") ~> (ipc[i] = "answered")

\* "Idempotency keys are per-project" (JobStore.submit): a verdict comes from
\* a job of the same project under the finding's own key, through reaping,
\* re-creation by another project, retries and restarts.
VerdictIsForKey ==
    \A c \in Requests : verdict[c].kind = "verdict" =>
        /\ Key(verdict[c].of) = Key(c)
        /\ Project(verdict[c].of) = Project(c)

\* The tables of JobStore agree, and so do jobs, invocations and processes, in
\* every state the service reaches.
StoreConsistent ==
    TypeOK /\ IndexConsistent /\ NoOrphanProcess /\ KilledIsNotACrash

=============================================================================
