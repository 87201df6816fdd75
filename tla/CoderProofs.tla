----------------------------- MODULE CoderProofs -----------------------------
(***************************************************************************)
(* Proofs about the coder, on both sides of its service: CoderService, for *)
(* any runs, findings, projects, slots, agent invocations, retries and     *)
(* restarts, and CoderDispatch, the stage of a run that calls it, for any  *)
(* number of findings and coder threads.                                   *)
(***************************************************************************)
EXTENDS CoderService, CoderDispatch, FiniteSetTheorems, TLAPS

USE DEF jobVars, serviceVars, clientVars, invocationVars

LEMMA ConstFacts ==
    /\ NoJob \notin Jobs /\ Jobs \subseteq Nat
    /\ MaxJobs \in Nat /\ MaxRestarts \in Nat /\ MaxRetries \in Nat
    /\ \A c \in Requests : Key(c) \in Keys
BY BoundsAssumption DEF Jobs, NoJob, Keys, Key, Requests

(***************************************************************************)
(* Typing.  A job's index entry is cleared under the key of its origin, so *)
(* the jobs in the store have one.                                         *)
(***************************************************************************)
Originated == \A j \in store : origin[j] \in Requests

\* The next job's number is free: Posted counts at least the jobs.
LEMMA NextJob ==
    ASSUME TypeOK, Posted < MaxJobs
    PROVE  created + 1 \in Jobs /\ created + 1 \in 0..MaxJobs
<1>1. IsFiniteSet({i \in Invocations : ipc[i] # "idle"})
    BY InvocationsAssumption, FS_Subset
<1>2. Cardinality({i \in Invocations : ipc[i] # "idle"}) \in Nat
    BY <1>1, FS_CardinalityType
<1> QED BY <1>2, ConstFacts DEF TypeOK, Posted, Jobs

LEMMA TypeInit == Init => TypeOK /\ Originated
BY ConstFacts DEF Init, TypeOK, Originated, Results, Terminal, Answer, Active,
                  InvocationInit, InvocationTypeOK, InSlot, Responses

\* What an agent invocation does, it does to its own variables.
LEMMA InvocationTypeStep ==
    ASSUME InvocationTypeOK, NEW i \in Invocations,
           \/ Invoke(i) \/ InvocationStep(i) \/ InvocationExits(i)
           \/ Disconnect(i)
    PROVE  InvocationTypeOK'
<1> USE DEF InvocationTypeOK, InSlot, Respond
<1>1. CASE Invoke(i)
    BY <1>1 DEF Invoke, Responses
<1>2. CASE Admit(i)
    BY <1>2 DEF Admit, Responses
<1>3. CASE InvocationSpawn(i)
    BY <1>3 DEF InvocationSpawn, Responses
<1>4. CASE InvocationExits(i) \/ InvocationCancelKills(i) \/ Disconnect(i)
    BY <1>4 DEF InvocationExits, InvocationCancelKills, Disconnect
<1>5. CASE InvocationTimeout(i)
    BY <1>5 DEF InvocationTimeout
<1>6. CASE WakeGone(i) \/ Terminated(i) \/ InvocationCrash(i)
    BY <1>6 DEF WakeGone, Terminated, InvocationCrash, Responses
<1>7. CASE InvocationOutput(i)
    <2>1. PICK out \in Outputs : Respond(i, ParseAndValidate(out))
        BY <1>7 DEF InvocationOutput
    <2>2. ParseAndValidate(out) \in Responses
        BY DEF ParseAndValidate, Responses, Outputs
    <2> QED BY <1>7, <2>1, <2>2 DEF InvocationOutput
<1> QED BY <1>1, <1>2, <1>3, <1>4, <1>5, <1>6, <1>7
        DEF InvocationStep, HandlerStep

LEMMA SettleTyped ==
    ASSUME TypeOK, NEW c \in Requests, NEW kind \in Results \cup {"Fail", "conflict"},
           NEW of \in Requests \cup {NoRequest}, Settle(c, Answer(kind, of))
    PROVE  /\ cpc' \in [Requests -> {"start", "polling", "settled"}]
           /\ cjob' \in [Requests -> Jobs \cup {NoJob}]
           /\ verdict' \in [Requests -> [kind : Results \cup {"Fail", "conflict"},
                                        of : Requests \cup {NoRequest}]]
BY DEF TypeOK, Settle, Answer

LEMMA MarkTyped ==
    ASSUME TypeOK, NEW j \in Jobs, NEW s \in Terminal, NEW r \in Results,
           MarkTerminal(j, s, r)
    PROVE  /\ jstatus' \in [Jobs -> {"pending"} \cup Terminal]
           /\ result' \in [Jobs -> Results]
BY DEF TypeOK, MarkTerminal

LEMMA CreateTyped ==
    ASSUME TypeOK, Originated, NEW c \in Requests, Create(c)
    PROVE  /\ created' \in 0..MaxJobs
           /\ store' \subseteq 1..created'
           /\ byKey' \in [Keys -> Jobs \cup {NoJob}]
           /\ origin' \in [Jobs -> Requests \cup {NoRequest}]
           /\ wpc' \in [Jobs -> {"none", "queued", "end", "crashed"} \cup Active]
           /\ UNCHANGED <<jstatus, result, cancelReq, proc>>
           /\ Originated'
<1>1. created + 1 \in Jobs /\ created + 1 \in 0..MaxJobs
    BY NextJob DEF Create
<1>2. created' = created + 1 /\ store' \subseteq store \cup {created + 1}
    BY DEF Create
<1>3. store' \subseteq 1..created'
    BY <1>1, <1>2 DEF TypeOK
<1>4. created + 1 \notin store
    BY <1>1 DEF TypeOK
<1>5. Originated'
    BY <1>1, <1>2, <1>4 DEF TypeOK, Originated, Create
<1> QED BY <1>1, <1>2, <1>3, <1>5, ConstFacts DEF TypeOK, Create

LEMMA TypeStep ==
    TypeOK /\ Originated /\ [Next]_vars => TypeOK' /\ Originated'
<1> SUFFICES ASSUME TypeOK, Originated, [Next]_vars
             PROVE  TypeOK' /\ Originated'
    OBVIOUS
<1> USE ConstFacts
<1>1. store \subseteq Jobs
    BY DEF TypeOK, Jobs
<1>2. \A kind \in {"Fail", "conflict"} : kind \in Results \cup {"Fail", "conflict"}
    OBVIOUS
<1>3. ASSUME NEW c \in Requests, ClientStep(c) \/ Retry(c),
             UNCHANGED invocationVars
      PROVE  TypeOK' /\ Originated'
    <2>1. ASSUME NEW lost \in BOOLEAN, Post(c, lost)
          PROVE  TypeOK' /\ Originated'
        <3>1. UNCHANGED serviceVars \/ Create(c)
            BY <2>1 DEF Post
        <3>2. created' \in 0..MaxJobs /\ store' \subseteq 1..created'
            BY <3>1, CreateTyped DEF TypeOK
        <3>3. byKey' \in [Keys -> Jobs \cup {NoJob}]
            BY <3>1, CreateTyped DEF TypeOK
        <3>4. origin' \in [Jobs -> Requests \cup {NoRequest}] /\ Originated'
            BY <3>1, CreateTyped DEF TypeOK, Originated
        <3>5. wpc' \in [Jobs -> {"none", "queued", "end", "crashed"} \cup Active]
            BY <3>1, CreateTyped DEF TypeOK
        <3>6. UNCHANGED <<jstatus, result, cancelReq, proc>>
            BY <3>1, CreateTyped
        <3>7. \/ \E k \in {"Fail", "conflict"} : Settle(c, Answer(k, NoRequest))
              \/ /\ cpc' = [cpc EXCEPT ![c] = "polling"]
                 /\ cjob' \in [Requests -> Jobs \cup {NoJob}]
                 /\ UNCHANGED verdict
            <4>1. Existing(c) \in Jobs \cup {NoJob}
                BY DEF Existing, TypeOK
            <4>2. ASSUME Create(c) PROVE created + 1 \in Jobs
                BY <4>2, NextJob DEF Create
            <4> QED BY <2>1, <4>1, <4>2 DEF Post, TypeOK
        <3>8. /\ cpc' \in [Requests -> {"start", "polling", "settled"}]
              /\ cjob' \in [Requests -> Jobs \cup {NoJob}]
              /\ verdict' \in [Requests -> [kind : Results \cup {"Fail", "conflict"},
                                           of : Requests \cup {NoRequest}]]
            <4>1. CASE \E k \in {"Fail", "conflict"} : Settle(c, Answer(k, NoRequest))
                BY <4>1, SettleTyped
            <4> QED BY <3>7, <4>1 DEF TypeOK
        <3> QED BY <1>3, <2>1, <3>2, <3>3, <3>4, <3>5, <3>6, <3>8
                DEF TypeOK, Post, InvocationTypeOK
    <2>2. ASSUME UNCHANGED <<serviceVars, restarts, retries>>,
                 NEW k \in Results \cup {"Fail", "conflict"},
                 NEW o \in Requests \cup {NoRequest}, Settle(c, Answer(k, o))
          PROVE  TypeOK' /\ Originated'
        <3>1. /\ cpc' \in [Requests -> {"start", "polling", "settled"}]
              /\ cjob' \in [Requests -> Jobs \cup {NoJob}]
              /\ verdict' \in [Requests -> [kind : Results \cup {"Fail", "conflict"},
                                           of : Requests \cup {NoRequest}]]
            BY <2>2, SettleTyped
        <3> QED BY <1>3, <2>2, <3>1 DEF TypeOK, Originated, InvocationTypeOK
    <2>3. CASE PostFails(c) \/ PollFails(c)
        BY <2>2, <2>3 DEF PostFails, PollFails
    <2>4. CASE PollSettles(c)
        <3>1. cjob[c] \in store => /\ result[cjob[c]] \in Results
                                  /\ origin[cjob[c]] \in Requests
            BY <1>1 DEF TypeOK, Originated
        <3> QED BY <2>2, <2>4, <3>1 DEF PollSettles
    <2>5. CASE Retry(c)
        <3>1. verdict' \in [Requests -> [kind : Results \cup {"Fail", "conflict"},
                                        of : Requests \cup {NoRequest}]]
            BY <2>5 DEF Retry, TypeOK, Answer, Results
        <3> QED BY <1>3, <2>5, <3>1 DEF Retry, TypeOK, Originated, InvocationTypeOK
    <2> QED BY <1>3, <2>1, <2>3, <2>4, <2>5 DEF ClientStep
<1>4. ASSUME NEW j \in Jobs, WorkerStep(j) \/ ProcessExits(j) \/ Delete(j) \/ Reap(j),
             UNCHANGED invocationVars
      PROVE  TypeOK' /\ Originated'
    <2> USE DEF Terminal, Results, Active
    <2>1. /\ jstatus' \in [Jobs -> {"pending"} \cup Terminal]
          /\ result' \in [Jobs -> Results]
        <3>1. \/ \E s \in Terminal, r \in Results : MarkTerminal(j, s, r)
              \/ UNCHANGED <<jstatus, result>>
              \/ Reap(j)
            BY <1>4 DEF WorkerStep, Acquire, Spawn, SpawnFails, CancelKills,
                 WakeCancelled, WakeOutput, WakeTimeout, FinishTimeout, WorkerCrash,
                 ProcessExits, Delete
        <3> HIDE DEF Terminal, Results
        <3>2. CASE Reap(j)
            BY <3>2 DEF Reap, TypeOK, Results
        <3> QED BY <3>1, <3>2, MarkTyped DEF TypeOK
    <2>2. wpc' \in [Jobs -> {"none", "queued", "end", "crashed"} \cup Active]
        BY <1>4 DEF TypeOK, WorkerStep, Acquire, Spawn, SpawnFails, CancelKills,
             WakeCancelled, WakeOutput, WakeTimeout, FinishTimeout, WorkerCrash,
             ProcessExits, Delete, Reap
    <2>3. proc' \in [Jobs -> {"none", "running", "exited", "killed"}]
        BY <1>4 DEF TypeOK, WorkerStep, Acquire, Spawn, SpawnFails, CancelKills,
             WakeCancelled, WakeOutput, WakeTimeout, FinishTimeout, WorkerCrash,
             ProcessExits, Delete, Reap
    <2>4. cancelReq' \subseteq Jobs
        BY <1>4 DEF TypeOK, WorkerStep, Acquire, Spawn, SpawnFails, CancelKills,
             WakeCancelled, WakeOutput, WakeTimeout, FinishTimeout, WorkerCrash,
             ProcessExits, Delete, Reap
    <2>5. UNCHANGED <<created, clientVars, restarts, retries>>
        BY <1>4 DEF WorkerStep, Acquire, Spawn, SpawnFails, CancelKills,
             WakeCancelled, WakeOutput, WakeTimeout, FinishTimeout, WorkerCrash,
             ProcessExits, Delete, Reap
    <2>6. \/ UNCHANGED <<store, byKey, origin>>
          \/ /\ j \in store /\ store' = store \ {j}
             /\ byKey' = [byKey EXCEPT ![Key(origin[j])] = NoJob]
             /\ origin' = [origin EXCEPT ![j] = NoRequest]
        BY <1>4 DEF WorkerStep, Acquire, Spawn, SpawnFails, CancelKills,
             WakeCancelled, WakeOutput, WakeTimeout, FinishTimeout, WorkerCrash,
             ProcessExits, Delete, Reap
    <2>7. /\ store' \subseteq 1..created' /\ Originated'
          /\ byKey' \in [Keys -> Jobs \cup {NoJob}]
          /\ origin' \in [Jobs -> Requests \cup {NoRequest}]
        BY <1>1, <2>5, <2>6 DEF TypeOK, Originated
    <2> QED BY <1>4, <2>1, <2>2, <2>3, <2>4, <2>5, <2>7
            DEF TypeOK, InvocationTypeOK
<1>5. ASSUME NEW i \in Invocations, UNCHANGED jobVars,
             Invoke(i) \/ InvocationStep(i) \/ InvocationExits(i) \/ Disconnect(i)
      PROVE  TypeOK' /\ Originated'
    <2>1. InvocationTypeOK'
        BY <1>5, InvocationTypeStep DEF TypeOK
    <2> QED BY <1>5, <2>1 DEF TypeOK, Originated
<1>6. CASE Restart
    <2>1. InvocationTypeOK'
        BY <1>6 DEF Restart, DropInvocations, InvocationTypeOK, TypeOK
    <2> QED BY <1>6, <2>1
            DEF Restart, TypeOK, Originated, Results
<1>7. CASE AllSettled \/ UNCHANGED vars
    BY <1>7 DEF AllSettled, vars, TypeOK, Originated, InvocationTypeOK
<1> QED BY <1>3, <1>4, <1>5, <1>6, <1>7 DEF Next, JobStep

(***************************************************************************)
(* The two dicts of JobStore, and processes.                               *)
(***************************************************************************)
\* A job that has not been created has no coroutine; what the process of an
\* invocation has come to follows from where its handler is.
ProcessState ==
    /\ \A j \in Jobs : j > created => wpc[j] = "none"
    /\ \A i \in Invocations :
         /\ ipc[i] \in {"idle", "queued", "spawning"} => iproc[i] = "none"
         /\ ipc[i] = "waiting" /\ iproc[i] = "killed" => i \in gone
         /\ ipc[i] # "answered" => answer[i] = "none"

Consistent ==
    IndexConsistent /\ NoOrphanProcess /\ KilledIsNotACrash /\ ProcessState

LEMMA ConsistentInit == Init => Consistent
BY DEF Init, Consistent, IndexConsistent, NoOrphanProcess, KilledIsNotACrash,
       ProcessState, InvocationInit

LEMMA IndexStep ==
    TypeOK /\ Originated /\ IndexConsistent /\ [Next]_vars => IndexConsistent'
<1> SUFFICES ASSUME TypeOK, Originated, IndexConsistent, [Next]_vars
             PROVE  IndexConsistent'
    OBVIOUS
<1> USE ConstFacts
<1>1. store \subseteq Jobs
    BY DEF TypeOK, Jobs
<1>2. ASSUME UNCHANGED <<store, byKey, origin>> PROVE IndexConsistent'
    BY <1>2 DEF IndexConsistent
<1>3. ASSUME NEW c \in Requests, Create(c) PROVE IndexConsistent'
    <2> DEFINE j == created + 1
               old == byKey[Key(c)]
    <2>1. j \in Jobs /\ j \notin store
        BY <1>3, NextJob DEF Create, TypeOK
    <2>2. /\ store' = (store \ {old}) \cup {j}
          /\ byKey' = [byKey EXCEPT ![Key(c)] = j]
          /\ origin' = [origin EXCEPT ![j] = c]
        BY <1>3 DEF Create
    <2> HIDE DEF j
    <2>3. ASSUME NEW k \in Keys, byKey'[k] # NoJob
          PROVE  byKey'[k] \in store' /\ Key(origin'[byKey'[k]]) = k
        <3>1. CASE k = Key(c)
            BY <2>1, <2>2, <3>1 DEF TypeOK
        <3>2. CASE k # Key(c)
            <4>1. byKey'[k] = byKey[k] /\ byKey[k] \in store
                BY <2>2, <2>3, <3>2 DEF TypeOK, IndexConsistent
            <4>2. byKey[k] # old
                BY <2>3, <3>2, <4>1 DEF IndexConsistent
            <4> QED BY <1>1, <2>1, <2>2, <4>1, <4>2 DEF TypeOK, IndexConsistent
        <3> QED BY <3>1, <3>2
    <2>4. ASSUME NEW x \in store' PROVE byKey'[Key(origin'[x])] = x
        <3>1. CASE x = j
            BY <2>1, <2>2, <3>1 DEF TypeOK
        <3>2. CASE x # j
            <4>1. x \in store /\ x # old /\ origin'[x] = origin[x]
                BY <1>1, <2>2, <2>4, <3>2 DEF TypeOK
            <4>2. byKey[Key(origin[x])] = x /\ Key(origin[x]) \in Keys
                BY <4>1 DEF IndexConsistent, Originated
            <4> QED BY <2>2, <4>1, <4>2 DEF TypeOK
        <3> QED BY <3>1, <3>2
    <2> QED BY <2>3, <2>4 DEF IndexConsistent
<1>4. ASSUME NEW c \in Requests, ClientStep(c) \/ Retry(c)
      PROVE  IndexConsistent'
    <2>1. Create(c) \/ UNCHANGED serviceVars
        BY <1>4 DEF ClientStep, Post, PostFails, PollSettles, PollFails, Retry
    <2> QED BY <1>2, <1>3, <2>1
<1>5. ASSUME NEW j \in Jobs, Reap(j) PROVE IndexConsistent'
    <2>1. Key(origin[j]) \in Keys /\ byKey[Key(origin[j])] = j
        BY <1>5 DEF Reap, Originated, IndexConsistent
    <2> QED BY <1>1, <1>5, <2>1 DEF Reap, TypeOK, Originated, IndexConsistent
<1>6. ASSUME NEW j \in Jobs, WorkerStep(j) \/ ProcessExits(j) \/ Delete(j)
      PROVE  IndexConsistent'
    BY <1>2, <1>6 DEF WorkerStep, Acquire, Spawn, SpawnFails, CancelKills,
             WakeCancelled, WakeOutput, WakeTimeout, FinishTimeout, WorkerCrash,
             ProcessExits, Delete
<1>7. CASE Restart
    BY <1>7 DEF Restart, IndexConsistent
<1>8. CASE UNCHANGED jobVars \/ AllSettled
    BY <1>2, <1>8 DEF AllSettled, vars
<1> QED BY <1>4, <1>5, <1>6, <1>7, <1>8 DEF Next, JobStep, vars

LEMMA InvocationProcessStep ==
    ASSUME InvocationTypeOK, KilledIsNotACrash, ProcessState,
           NEW i \in Invocations,
           \/ Invoke(i) \/ InvocationStep(i) \/ InvocationExits(i)
           \/ Disconnect(i),
           UNCHANGED jobVars
    PROVE  KilledIsNotACrash' /\ ProcessState'
<1> USE DEF InvocationTypeOK, KilledIsNotACrash, ProcessState, InSlot, Respond
<1>1. CASE Invoke(i)
    BY <1>1 DEF Invoke
<1>2. CASE Admit(i)
    BY <1>2 DEF Admit
<1>3. CASE InvocationSpawn(i)
    BY <1>3 DEF InvocationSpawn
<1>4. CASE InvocationExits(i) \/ InvocationCancelKills(i)
    BY <1>4 DEF InvocationExits, InvocationCancelKills
<1>5. CASE Disconnect(i)
    BY <1>5 DEF Disconnect
<1>6. CASE InvocationTimeout(i)
    BY <1>6 DEF InvocationTimeout
<1>7. CASE WakeGone(i) \/ Terminated(i) \/ InvocationCrash(i)
    BY <1>7 DEF WakeGone, Terminated, InvocationCrash
<1>8. CASE InvocationOutput(i)
    BY <1>8 DEF InvocationOutput
<1> QED BY <1>1, <1>2, <1>3, <1>4, <1>5, <1>6, <1>7, <1>8
        DEF InvocationStep, HandlerStep

LEMMA ProcessStep ==
    TypeOK /\ NoOrphanProcess /\ KilledIsNotACrash /\ ProcessState /\ [Next]_vars
      => NoOrphanProcess' /\ KilledIsNotACrash' /\ ProcessState'
<1> SUFFICES ASSUME TypeOK, NoOrphanProcess, KilledIsNotACrash, ProcessState,
                    [Next]_vars
             PROVE  NoOrphanProcess' /\ KilledIsNotACrash' /\ ProcessState'
    OBVIOUS
<1> USE ConstFacts
<1>1. ASSUME UNCHANGED invocationVars,
             \A j \in Jobs : j > created' => wpc'[j] = "none"
      PROVE  KilledIsNotACrash' /\ ProcessState'
    BY <1>1 DEF KilledIsNotACrash, ProcessState
<1>2. ASSUME NEW c \in Requests, ClientStep(c) \/ Retry(c),
             UNCHANGED invocationVars
      PROVE  NoOrphanProcess' /\ KilledIsNotACrash' /\ ProcessState'
    <2>1. Create(c) \/ UNCHANGED serviceVars
        BY <1>2 DEF ClientStep, Post, PostFails, PollSettles, PollFails, Retry
    <2>2. CASE Create(c)
        <3>1. created + 1 \in Jobs
            BY <2>2, NextJob DEF Create
        <3>2. created' = created + 1 /\ proc' = proc
              /\ wpc' = [wpc EXCEPT ![created + 1] = "queued"]
            BY <2>2 DEF Create
        <3>3. proc[created + 1] # "running"
            BY <3>1 DEF NoOrphanProcess, ProcessState, TypeOK
        <3>4. \A j \in Jobs : j > created' => wpc'[j] = "none"
            BY <3>1, <3>2 DEF ProcessState, TypeOK
        <3> QED BY <1>1, <1>2, <3>2, <3>3, <3>4 DEF NoOrphanProcess, TypeOK
    <2> QED BY <1>1, <1>2, <2>1, <2>2 DEF NoOrphanProcess, ProcessState
<1>3. ASSUME NEW j \in Jobs,
             WorkerStep(j) \/ ProcessExits(j) \/ Delete(j) \/ Reap(j),
             UNCHANGED invocationVars
      PROVE  NoOrphanProcess' /\ KilledIsNotACrash' /\ ProcessState'
    <2>1. NoOrphanProcess'
        BY <1>3 DEF NoOrphanProcess, TypeOK, Reap, WorkerStep, Acquire, Spawn, SpawnFails, CancelKills,
             WakeCancelled, WakeOutput, WakeTimeout, FinishTimeout, WorkerCrash,
             ProcessExits, Delete
    <2>2. created' = created /\ (wpc[j] = "none" => wpc' = wpc)
          /\ \A k \in Jobs : k # j => wpc'[k] = wpc[k]
        <3>1. wpc[j] = "none" => proc[j] # "running"
            BY DEF NoOrphanProcess
        <3> QED BY <1>3, <3>1 DEF TypeOK, Reap, WorkerStep, Acquire, Spawn, SpawnFails, CancelKills,
             WakeCancelled, WakeOutput, WakeTimeout, FinishTimeout, WorkerCrash,
             ProcessExits, Delete
    <2> QED BY <1>1, <1>3, <2>1, <2>2 DEF ProcessState
<1>4. ASSUME NEW i \in Invocations, UNCHANGED jobVars,
             Invoke(i) \/ InvocationStep(i) \/ InvocationExits(i) \/ Disconnect(i)
      PROVE  NoOrphanProcess' /\ KilledIsNotACrash' /\ ProcessState'
    BY <1>4, InvocationProcessStep DEF TypeOK, NoOrphanProcess
<1>5. CASE Restart
    BY <1>5 DEF Restart, DropInvocations, NoOrphanProcess, KilledIsNotACrash,
                ProcessState, TypeOK, InvocationTypeOK
<1>6. CASE AllSettled \/ UNCHANGED vars
    BY <1>1, <1>6 DEF AllSettled, vars, NoOrphanProcess, ProcessState
<1> QED BY <1>2, <1>3, <1>4, <1>5, <1>6 DEF Next, JobStep

LEMMA ServiceInvariant == Spec => [](TypeOK /\ Originated /\ Consistent)
<1>1. TypeOK /\ Originated /\ Consistent /\ [Next]_vars
        => TypeOK' /\ Originated' /\ Consistent'
    BY TypeStep, IndexStep, ProcessStep DEF Consistent
<1> QED BY TypeInit, ConsistentInit, <1>1, PTL DEF Spec

\* The two dicts of JobStore agree, no Claude Code process outlives its
\* coroutine, and a killed invocation is not reported as a crash, for any
\* number of clients, slots and restarts.
THEOREM ServiceStoreConsistent == Spec => []StoreConsistent
<1>1. TypeOK /\ Consistent => StoreConsistent
    BY DEF Consistent, StoreConsistent
<1> QED BY ServiceInvariant, <1>1, PTL

(***************************************************************************)
(* Settled jobs and the verdicts taken from them.                          *)
(***************************************************************************)
\* mark_terminal is idempotent: DELETE, the timeout and the worker cannot
\* settle a job twice.
THEOREM ServiceTerminalIsFinal == Spec => TerminalIsFinal
<1> DEFINE Final == \A j \in store \cap store' : jstatus[j] \in Terminal =>
                      jstatus'[j] = jstatus[j] /\ result'[j] = result[j]
<1>1. TypeOK /\ [Next]_vars => [Final]_vars
    <2> SUFFICES ASSUME TypeOK, [Next]_vars PROVE [Final]_vars
        OBVIOUS
    <2> USE ConstFacts
    <2>1. store \subseteq Jobs
        BY DEF TypeOK, Jobs
    <2>2. ASSUME UNCHANGED <<jstatus, result>> PROVE Final
        BY <2>2
    <2>3. ASSUME NEW c \in Requests, ClientStep(c) \/ Retry(c) PROVE Final
        BY <2>2, <2>3 DEF ClientStep, Post, PostFails, PollSettles, PollFails,
                          Retry, Create
    <2>4. ASSUME NEW j \in Jobs, NEW s, NEW r, MarkTerminal(j, s, r) PROVE Final
        BY <2>1, <2>4 DEF MarkTerminal, TypeOK
    <2>5. ASSUME NEW j \in Jobs, WorkerStep(j) \/ ProcessExits(j) \/ Delete(j)
          PROVE  Final
        <3>1. \/ \E s, r : MarkTerminal(j, s, r)
              \/ UNCHANGED <<jstatus, result>>
            BY <2>5 DEF WorkerStep, Acquire, Spawn, SpawnFails, CancelKills,
             WakeCancelled, WakeOutput, WakeTimeout, FinishTimeout, WorkerCrash,
             ProcessExits, Delete
        <3> QED BY <2>2, <2>4, <3>1
    <2>6. ASSUME NEW j \in Jobs, Reap(j) PROVE Final
        BY <2>1, <2>6 DEF Reap, TypeOK
    <2>7. CASE Restart
        BY <2>7 DEF Restart
    <2>8. CASE UNCHANGED jobVars \/ AllSettled \/ UNCHANGED vars
        BY <2>2, <2>8 DEF AllSettled, vars
    <2> QED BY <2>3, <2>5, <2>6, <2>7, <2>8 DEF Next, JobStep
<1> QED BY ServiceInvariant, <1>1, PTL DEF Spec, TerminalIsFinal

\* What a client asked for, and what it is answered from, have the same key
\* and the same project.
SameQuestion(o, c) == Key(o) = Key(c) /\ Project(o) = Project(c)

\* A client polls a job of its own key and project, as long as it is there.
Polled ==
    \A c \in Requests :
        /\ cjob[c] <= created
        /\ cjob[c] \in store => SameQuestion(origin[cjob[c]], c)

LEMMA PolledStep ==
    TypeOK /\ Originated /\ Consistent /\ Polled /\ VerdictIsForKey
      /\ [Next]_vars => Polled' /\ VerdictIsForKey'
<1> SUFFICES ASSUME TypeOK, Originated, Consistent, Polled,
                    VerdictIsForKey, [Next]_vars
             PROVE  Polled' /\ VerdictIsForKey'
    OBVIOUS
<1> USE ConstFacts
<1>0. store \subseteq Jobs
    BY DEF TypeOK, Jobs
<1>1. ASSUME NEW c \in Requests, NEW lost \in BOOLEAN, Post(c, lost)
      PROVE  Polled' /\ VerdictIsForKey'
    <2>1. verdict' = verdict \/ \E k \in {"Fail", "conflict"} :
                                  verdict' = [verdict EXCEPT ![c] = Answer(k, NoRequest)]
        BY <1>1 DEF Post, Settle
    <2>2. VerdictIsForKey'
        BY <2>1 DEF VerdictIsForKey, TypeOK, Answer
    <2>3. CASE Existing(c) # NoJob
        <3>1. Existing(c) \in store /\ Key(origin[Existing(c)]) = Key(c)
            BY <2>3 DEF Existing, Consistent, IndexConsistent
        <3>2. /\ UNCHANGED serviceVars
              /\ \/ cjob' = [cjob EXCEPT ![c] = NoJob]
                 \/ /\ Project(origin[Existing(c)]) = Project(c)
                    /\ cjob' = [cjob EXCEPT ![c] = Existing(c)]
            BY <1>1, <2>3 DEF Post, Settle
        <3>3. NoJob <= created /\ NoJob \notin store
            BY <1>0 DEF TypeOK, NoJob
        <3>4. \A x \in store : x <= created
            BY DEF TypeOK
        <3>5. Existing(c) <= created
            BY <3>1, <3>4
        <3> QED BY <2>2, <3>1, <3>2, <3>3, <3>5 DEF Polled, SameQuestion, TypeOK
    <2>4. CASE Existing(c) = NoJob
        <3> DEFINE j == created + 1
        <3>1. Create(c) /\ cjob' \in {[cjob EXCEPT ![c] = NoJob], [cjob EXCEPT ![c] = j]}
            BY <1>1, <2>4 DEF Post, Settle
        <3>2. j \in Jobs /\ created \in Nat
            BY <3>1, NextJob DEF Create, TypeOK
        <3>3. /\ created' = j /\ store' \subseteq store \cup {j}
              /\ origin' = [origin EXCEPT ![j] = c]
            BY <3>1 DEF Create
        <3>4. NoJob <= j /\ NoJob \notin store'
            BY <1>0, <3>2, <3>3 DEF NoJob
        <3>5. origin'[j] = c
            BY <3>2, <3>3 DEF TypeOK
        <3>6. ASSUME NEW d \in Requests
              PROVE  /\ cjob'[d] <= created'
                     /\ cjob'[d] \in store' => SameQuestion(origin'[cjob'[d]], d)
            <4>1. CASE d = c
                BY <3>1, <3>2, <3>3, <3>4, <3>5, <4>1 DEF TypeOK, SameQuestion
            <4>2. CASE d # c
                <5>1. cjob'[d] = cjob[d] /\ cjob[d] <= created
                    BY <3>1, <4>2 DEF TypeOK, Polled
                <5>2. cjob[d] \in Jobs \/ cjob[d] = 0
                    BY DEF TypeOK, NoJob
                <5>3. cjob[d] \in Nat
                    BY <5>2 DEF Jobs
                <5>4. cjob[d] # j /\ cjob[d] <= j
                    BY <3>2, <5>1, <5>3
                <5> QED BY <3>3, <5>1, <5>4, <1>0 DEF TypeOK, Polled
            <4> QED BY <4>1, <4>2
        <3> QED BY <2>2, <3>6 DEF Polled
    <2> QED BY <2>3, <2>4
<1>2. ASSUME NEW c \in Requests, PostFails(c) \/ PollFails(c) \/ PollSettles(c)
      PROVE  Polled' /\ VerdictIsForKey'
    <2>1. UNCHANGED serviceVars /\ cjob' = [cjob EXCEPT ![c] = NoJob]
        BY <1>2 DEF PostFails, PollFails, PollSettles, Settle
    <2>2. NoJob <= created /\ NoJob \notin store
        BY <1>0 DEF TypeOK, NoJob
    <2>3. Polled'
        BY <2>1, <2>2 DEF Polled, TypeOK
    <2>4. ASSUME verdict'[c].kind = "verdict"
          PROVE  SameQuestion(verdict'[c].of, c)
        <3>1. verdict'[c] = Answer("Fail", NoRequest)
              \/ /\ cjob[c] \in store
                 /\ verdict'[c] = Answer(result[cjob[c]], origin[cjob[c]])
            BY <1>2 DEF PostFails, PollFails, PollSettles, Settle, TypeOK
        <3>2. cjob[c] \in store /\ verdict'[c].of = origin[cjob[c]]
            BY <2>4, <3>1 DEF Answer
        <3> QED BY <3>2 DEF Polled
    <2>5. \A d \in Requests : d # c => verdict'[d] = verdict[d]
        BY <1>2 DEF PostFails, PollFails, PollSettles, Settle, TypeOK
    <2> QED BY <2>3, <2>4, <2>5 DEF VerdictIsForKey, SameQuestion
<1>3. ASSUME NEW c \in Requests, Retry(c)
      PROVE  Polled' /\ VerdictIsForKey'
    BY <1>3 DEF Retry, Answer, TypeOK, Polled, VerdictIsForKey
<1>4. ASSUME NEW j \in Jobs,
             WorkerStep(j) \/ ProcessExits(j) \/ Delete(j) \/ Reap(j)
      PROVE  Polled' /\ VerdictIsForKey'
    <2>1. UNCHANGED <<created, clientVars>>
        BY <1>4 DEF Reap, WorkerStep, Acquire, Spawn, SpawnFails, CancelKills,
             WakeCancelled, WakeOutput, WakeTimeout, FinishTimeout, WorkerCrash,
             ProcessExits, Delete
    <2>2. store' \subseteq store /\ \A x \in store' : origin'[x] = origin[x]
        BY <1>0, <1>4 DEF TypeOK, Reap, WorkerStep, Acquire, Spawn, SpawnFails, CancelKills,
             WakeCancelled, WakeOutput, WakeTimeout, FinishTimeout, WorkerCrash,
             ProcessExits, Delete
    <2> QED BY <2>1, <2>2 DEF Polled, VerdictIsForKey
<1>5. CASE Restart
    BY <1>5 DEF Restart, Polled, VerdictIsForKey
<1>6. CASE UNCHANGED jobVars \/ AllSettled \/ UNCHANGED vars
    BY <1>6 DEF AllSettled, vars, Polled, VerdictIsForKey
<1> QED BY <1>1, <1>2, <1>3, <1>4, <1>5, <1>6 DEF Next, JobStep, ClientStep

\* A verdict comes from a job of the client's own key and project, although
\* runs of other projects use the same keys, for any number of them and
\* through reaping, re-creation, retries and restarts.
THEOREM ServiceVerdictIsForKey == Spec => []VerdictIsForKey
<1>1. Init => Polled /\ VerdictIsForKey
    BY DEF Init, Polled, VerdictIsForKey, Answer, NoJob
<1>2. Spec => [](TypeOK /\ Originated /\ Consistent)
    BY ServiceInvariant
<1>3. Spec => [](Polled /\ VerdictIsForKey)
    BY <1>1, <1>2, PolledStep, PTL DEF Spec
<1> QED BY <1>3, PTL

-----------------------------------------------------------------------------
(***************************************************************************)
(* The other side of the service, CoderDispatch: with or without Ctrl+C,   *)
(* deletion and drain timeout.                                             *)
(***************************************************************************)

LEMMA FindingFacts ==
    /\ Findings \subseteq Nat /\ 0 \notin Findings
    /\ \A n \in 0..FindingCount : n < FindingCount => n + 1 \in Findings
    /\ \A n \in 0..FindingCount : n < FindingCount => n + 1 \in 0..FindingCount
BY FindingCountAssumption DEF Findings

(***************************************************************************)
(* Typing.  cur is written as a key of status, so the inductive invariant  *)
(* says when the main thread has a finding at hand.                        *)
(***************************************************************************)
Submitting == {"addcb", "inline", "append"}
Applying == {"apply_loop", "apply_first", "apply_drain"}
Reconciling == {"reconcile", "rec_pending", "rec_settled", "completed"}

AtHand ==
    /\ mpc \in Submitting => cur = emitted /\ cur \in Findings
    /\ mpc \in {"rec_pending", "rec_settled"} => cur \in Findings
    /\ mpc \notin Submitting \cup Applying \cup {"rec_pending", "rec_settled"}
         => cur = 0

LEMMA DispatchTypeInit == DispatchInit => DispatchTypeOK /\ AtHand
<1> SUFFICES ASSUME DispatchInit PROVE DispatchTypeOK /\ AtHand
    OBVIOUS
<1>1. {lockedOut, cancelling, rowGone, timedOut} \subseteq BOOLEAN
    BY DEF DispatchInit
<1> QED BY <1>1, FindingCountAssumption
        DEF DispatchInit, DispatchTypeOK, AtHand, Submitting, Applying

LEMMA DispatchTypeStep ==
    DispatchTypeOK /\ AtHand /\ [DispatchNext]_dispatchVars
        => DispatchTypeOK' /\ AtHand'
<1> SUFFICES ASSUME DispatchTypeOK, AtHand, [DispatchNext]_dispatchVars
             PROVE  DispatchTypeOK' /\ AtHand'
    OBVIOUS
<1> USE FindingFacts
    DEF DispatchTypeOK, AtHand, Submitting, Applying, listVars, coderVars, envVars
<1>1. CASE EmitFalsePositive
    BY <1>1 DEF EmitFalsePositive
<1>2. CASE SubmitCoder
    BY <1>2 DEF SubmitCoder
<1>3. CASE AddDoneCallback
    BY <1>3 DEF AddDoneCallback
<1>4. CASE InlineReturn
    BY <1>4 DEF InlineReturn
<1>5. CASE AppendFinding
    BY <1>5 DEF AppendFinding
<1>6. CASE ProgressSeesDeletion \/ LoopDone \/ FirstPollEmpty \/ DrainReturn
    BY <1>6 DEF ProgressSeesDeletion, LoopDone, FirstPollEmpty, DrainReturn
<1>7. CASE PollCompleted
    BY <1>7 DEF PollCompleted, Settled
<1>8. ASSUME NEW f \in Findings, ApplyDiscard(f) PROVE DispatchTypeOK' /\ AtHand'
    BY <1>8 DEF ApplyDiscard
<1>9. CASE ApplyWrite
    BY <1>9 DEF ApplyWrite
<1>10. CASE ApplyDone
    BY <1>10 DEF ApplyDone
<1>11. ASSUME NEW f \in Findings, ReconcileRead(f) PROVE DispatchTypeOK' /\ AtHand'
    BY <1>11 DEF ReconcileRead
<1>12. CASE ReconcileWrite
    BY <1>12 DEF ReconcileWrite
<1>13. CASE Complete \/ RaiseUserCancelled
    BY <1>13 DEF Complete, RaiseUserCancelled
<1>14. CASE CancelAll
    <2>1. task' \in [Findings -> {"none", "queued", "running", "done",
                                  "cancelled"}]
        BY <1>14 DEF CancelAll
    <2>2. pend' \subseteq Findings /\ todo' \subseteq Findings
        BY <1>14 DEF CancelAll
    <2>3. lockedOut' \in BOOLEAN /\ cancelling' \in BOOLEAN
        BY <1>14 DEF CancelAll
    <2>4. mpc' \in {mpc, "mark", "aborted"}
        BY <1>14 DEF CancelAll, AfterCancelAll
    <2> QED BY <1>14, <2>1, <2>2, <2>3, <2>4 DEF CancelAll
<1>15. ASSUME NEW f \in Findings, MarkSkipped(f) PROVE DispatchTypeOK' /\ AtHand'
    BY <1>15 DEF MarkSkipped
<1>16. CASE Interrupt
    BY <1>16 DEF Interrupt
<1>17. ASSUME NEW f \in Findings, ExecutorStep(f) PROVE DispatchTypeOK' /\ AtHand'
    <2>1. CASE StartVerify(f)
        BY <2>1 DEF StartVerify
    <2>2. CASE FinishVerify(f)
        BY <2>2 DEF FinishVerify
    <2>3. CASE CallbackStep(f)
        BY <2>3 DEF CallbackStep, FireSettled, SettledCheck, SettledWrite, SettledPublish
    <2> QED BY <1>17, <2>1, <2>2, <2>3 DEF ExecutorStep
<1>18. CASE DeleteRun
    BY <1>18 DEF DeleteRun
<1>19. CASE Finished \/ UNCHANGED dispatchVars
    BY <1>19 DEF Finished, dispatchVars
<1> QED BY <1>1, <1>2, <1>3, <1>4, <1>5, <1>6, <1>7, <1>8, <1>9, <1>10, <1>11,
           <1>12, <1>13, <1>14, <1>15, <1>16, <1>17, <1>18, <1>19
        DEF DispatchNext, MainStep

(***************************************************************************)
(* Handled once.                                                           *)
(***************************************************************************)
\* Nothing is known of a finding before it is built, and what poll_completed
\* took is pending no more.
Once ==
    /\ \A f \in Findings : f > emitted =>
         /\ task[f] = "none" /\ cb[f] = "none" /\ status[f] = "absent"
         /\ f \notin pend \cup todo \cup pendingCoder
    /\ \A f \in todo : mpc # "mark" => f \notin pend
    /\ mpc \in {"rec_pending", "rec_settled"} => status[cur] # "absent"

LEMMA OnceInit == DispatchInit => Once /\ HandledOnce
BY DEF DispatchInit, Once, HandledOnce

LEMMA OnceStep ==
    DispatchTypeOK /\ AtHand /\ Once /\ HandledOnce /\ [DispatchNext]_dispatchVars
      => Once' /\ HandledOnce'
<1> SUFFICES ASSUME DispatchTypeOK, AtHand, Once, HandledOnce, [DispatchNext]_dispatchVars
             PROVE  Once' /\ HandledOnce'
    OBVIOUS
<1> USE FindingFacts
    DEF DispatchTypeOK, AtHand, Once, HandledOnce, InList, Submitting, Applying,
        listVars, coderVars, envVars
<1>1. CASE EmitFalsePositive
    BY <1>1 DEF EmitFalsePositive
<1>2. CASE SubmitCoder
    BY <1>2 DEF SubmitCoder
<1>3. CASE AddDoneCallback
    BY <1>3 DEF AddDoneCallback
<1>4. CASE InlineReturn
    BY <1>4 DEF InlineReturn
<1>5. CASE AppendFinding
    BY <1>5 DEF AppendFinding
<1>6. CASE ProgressSeesDeletion \/ LoopDone \/ FirstPollEmpty \/ DrainReturn
    BY <1>6 DEF ProgressSeesDeletion, LoopDone, FirstPollEmpty, DrainReturn
<1>7. CASE PollCompleted
    BY <1>7 DEF PollCompleted, Settled
<1>8. ASSUME NEW f \in Findings, ApplyDiscard(f) PROVE Once' /\ HandledOnce'
    BY <1>8 DEF ApplyDiscard
<1>9. CASE ApplyWrite
    BY <1>9 DEF ApplyWrite
<1>10. CASE ApplyDone
    BY <1>10 DEF ApplyDone
<1>11. ASSUME NEW f \in Findings, ReconcileRead(f) PROVE Once' /\ HandledOnce'
    BY <1>11 DEF ReconcileRead
<1>12. CASE ReconcileWrite
    BY <1>12 DEF ReconcileWrite
<1>13. CASE Complete \/ RaiseUserCancelled
    BY <1>13 DEF Complete, RaiseUserCancelled
<1>14. CASE CancelAll
    <2>1. UNCHANGED <<cur, emitted, status, pendingCoder, cb>>
        BY <1>14 DEF CancelAll
    <2>2. \A f \in Findings : task[f] = "none" => task'[f] = "none"
        BY <1>14 DEF CancelAll, Cancellable
    <2>3. pend' \subseteq pend /\ mpc \in {"cancel", "abort"}
        BY <1>14 DEF CancelAll
    <2>4. \/ mpc' = mpc /\ todo' = todo
          \/ mpc' = "mark" /\ todo' = pendingCoder
          \/ mpc' = "aborted" /\ todo' = {}
        BY <1>14 DEF CancelAll, AfterCancelAll
    <2> QED BY <2>1, <2>2, <2>3, <2>4
<1>15. ASSUME NEW f \in Findings, MarkSkipped(f) PROVE Once' /\ HandledOnce'
    BY <1>15 DEF MarkSkipped
<1>16. CASE Interrupt
    BY <1>16 DEF Interrupt
<1>17. ASSUME NEW f \in Findings, ExecutorStep(f) PROVE Once' /\ HandledOnce'
    <2>1. CASE StartVerify(f)
        BY <2>1 DEF StartVerify
    <2>2. CASE FinishVerify(f)
        BY <2>2 DEF FinishVerify
    <2>3. CASE FireSettled(f)
        BY <2>3 DEF FireSettled
    <2>4. CASE SettledCheck(f)
        BY <2>4 DEF SettledCheck
    <2>5. CASE SettledWrite(f)
        BY <2>5 DEF SettledWrite
    <2>6. CASE SettledPublish(f)
        BY <2>6 DEF SettledPublish
    <2> QED BY <1>17, <2>1, <2>2, <2>3, <2>4, <2>5, <2>6
            DEF ExecutorStep, CallbackStep
<1>18. CASE DeleteRun
    BY <1>18 DEF DeleteRun
<1>19. CASE Finished \/ UNCHANGED dispatchVars
    BY <1>19 DEF Finished, dispatchVars
<1> QED BY <1>1, <1>2, <1>3, <1>4, <1>5, <1>6, <1>7, <1>8, <1>9, <1>10, <1>11,
           <1>12, <1>13, <1>14, <1>15, <1>16, <1>17, <1>18, <1>19
        DEF DispatchNext, MainStep

\* "Exactly-once semantics regardless of which path wins": for any number of
\* findings and threads, a verdict is handled by the callback or by
\* poll_completed and never by both.
THEOREM DispatchHandlesOnce == DispatchSpec => []HandledOnce
<1>1. DispatchSpec => [](DispatchTypeOK /\ AtHand /\ Once /\ HandledOnce)
    BY DispatchTypeInit, DispatchTypeStep, OnceInit, OnceStep, PTL DEF DispatchSpec
<1> QED BY <1>1, PTL

(***************************************************************************)
(* Nothing left Pending.                                                   *)
(***************************************************************************)
\* What the cancellation handler relies on besides PendingIsTracked: the
\* finding being submitted is not in the list yet, a callback about to
\* discard a finding has written it, and while the handler marks findings the
\* Pending ones are those it has still to mark.
Tracked ==
    /\ ~cancelling => torn = {}
    /\ mpc \in Submitting => status[cur] = "absent"
    /\ \A f \in Findings : cb[f] = "written" =>
         status[f] # "absent" /\ (status[f] = "Pending" => mpc \in Reconciling)
    /\ mpc = "mark" =>
         \A f \in Findings : status[f] = "Pending" => f \in todo \cup torn

NoPending == Tracked /\ PendingIsTracked /\ CancelledHasNoPending

LEMMA PendingInit == DispatchInit => NoPending
BY DEF DispatchInit, NoPending, Tracked, PendingIsTracked, CancelledHasNoPending,
       Submitting

LEMMA PendingStep ==
    DispatchTypeOK /\ AtHand /\ Once /\ NoPending /\ [DispatchNext]_dispatchVars => NoPending'
<1> SUFFICES ASSUME DispatchTypeOK, AtHand, Once, NoPending, [DispatchNext]_dispatchVars
             PROVE  NoPending'
    OBVIOUS
<1> USE FindingFacts
    DEF DispatchTypeOK, AtHand, Once, NoPending, Tracked, PendingIsTracked,
        CancelledHasNoPending, InList, Submitting, Applying, Reconciling,
        listVars, coderVars, envVars
<1>1. CASE EmitFalsePositive
    BY <1>1 DEF EmitFalsePositive
<1>2. CASE SubmitCoder
    BY <1>2 DEF SubmitCoder
<1>3. CASE AddDoneCallback
    BY <1>3 DEF AddDoneCallback
<1>4. CASE InlineReturn
    BY <1>4 DEF InlineReturn
<1>5. CASE AppendFinding
    BY <1>5 DEF AppendFinding
<1>6. CASE ProgressSeesDeletion \/ LoopDone \/ FirstPollEmpty \/ DrainReturn
    BY <1>6 DEF ProgressSeesDeletion, LoopDone, FirstPollEmpty, DrainReturn
<1>7. CASE PollCompleted
    BY <1>7 DEF PollCompleted, Settled
<1>8. ASSUME NEW f \in Findings, ApplyDiscard(f) PROVE NoPending'
    BY <1>8 DEF ApplyDiscard
<1>9. CASE ApplyWrite
    BY <1>9 DEF ApplyWrite
<1>10. CASE ApplyDone
    BY <1>10 DEF ApplyDone
<1>11. ASSUME NEW f \in Findings, ReconcileRead(f) PROVE NoPending'
    BY <1>11 DEF ReconcileRead
<1>12. CASE ReconcileWrite
    BY <1>12 DEF ReconcileWrite
<1>13. CASE Complete \/ RaiseUserCancelled
    BY <1>13 DEF Complete, RaiseUserCancelled
<1>14. CASE CancelAll
    BY <1>14 DEF CancelAll, AfterCancelAll
<1>15. ASSUME NEW f \in Findings, MarkSkipped(f) PROVE NoPending'
    BY <1>15 DEF MarkSkipped
<1>16. CASE Interrupt
    BY <1>16 DEF Interrupt
<1>17. ASSUME NEW f \in Findings, ExecutorStep(f) PROVE NoPending'
    <2>1. CASE StartVerify(f)
        BY <2>1 DEF StartVerify
    <2>2. CASE FinishVerify(f)
        BY <2>2 DEF FinishVerify
    <2>3. CASE FireSettled(f)
        BY <2>3 DEF FireSettled
    <2>4. CASE SettledCheck(f)
        BY <2>4 DEF SettledCheck
    <2>5. CASE SettledWrite(f)
        BY <2>5 DEF SettledWrite
    <2>6. CASE SettledPublish(f)
        BY <2>6 DEF SettledPublish
    <2> QED BY <1>17, <2>1, <2>2, <2>3, <2>4, <2>5, <2>6
            DEF ExecutorStep, CallbackStep
<1>18. CASE DeleteRun
    BY <1>18 DEF DeleteRun
<1>19. CASE Finished \/ UNCHANGED dispatchVars
    BY <1>19 DEF Finished, dispatchVars
<1> QED BY <1>1, <1>2, <1>3, <1>4, <1>5, <1>6, <1>7, <1>8, <1>9, <1>10, <1>11,
           <1>12, <1>13, <1>14, <1>15, <1>16, <1>17, <1>18, <1>19
        DEF DispatchNext, MainStep

\* A finding shown as Pending is tracked until reconciliation, and a cancelled
\* run shows none, whatever the coder threads do meanwhile.
THEOREM DispatchLeavesNothingPending == DispatchSpec => []NothingLeftPending
<1>1. DispatchSpec => [](DispatchTypeOK /\ AtHand /\ Once /\ HandledOnce /\ NoPending)
    BY DispatchTypeInit, DispatchTypeStep, OnceInit, OnceStep, PendingInit, PendingStep, PTL
       DEF DispatchSpec
<1>2. DispatchTypeOK /\ NoPending => NothingLeftPending
    BY DEF NoPending, NothingLeftPending
<1> QED BY <1>1, <1>2, PTL

=============================================================================
