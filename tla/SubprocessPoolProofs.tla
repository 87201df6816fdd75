------------------------ MODULE SubprocessPoolProofs ------------------------
(***************************************************************************)
(* Proofs about SubprocessPool, for any number of workers and paths and    *)
(* any number of faults.                                                   *)
(***************************************************************************)
EXTENDS SubprocessPool, TLAPS

\* A worker has a path exactly while it is between get() and put(result).
Busy ==
    \A w \in Workers : wpc[w] \in {"got", "running"} <=> cur[w] # NoPath

LEMMA ConstFacts ==
    /\ NoPath \notin Paths /\ NoPath = 0 /\ Sentinel = 0
    /\ Workers \subseteq Nat /\ Paths \subseteq Nat
    /\ 1 \in 1..(WorkerCount + 1)
    /\ \A k \in Workers : k + 1 \in 1..(WorkerCount + 1)
BY WorkerCountAssumption, PathCountAssumption
   DEF NoPath, Sentinel, Paths, Workers

(***************************************************************************)
(* Typing.  TypeOK alone is not inductive: the index of a message is the   *)
(* path its worker holds, so Busy comes along.                             *)
(***************************************************************************)
LEMMA TypeInit == Init => TypeOK /\ Busy
<1> SUFFICES ASSUME Init PROVE TypeOK /\ Busy
    OBVIOUS
<1>1. closed \in BOOLEAN /\ cancelled \in BOOLEAN
    BY DEF Init
<1>2. requestQ \in Seq(Paths \cup {Sentinel}) /\ resultQ \in Seq(Messages)
    BY DEF Init
<1>3. buf \in [Workers -> Seq(Messages)]
    BY DEF Init
<1>4. raises \in 0..MaxRaises /\ kills \in 0..MaxKills
    BY FaultAssumption DEF Init
<1> QED BY <1>1, <1>2, <1>3, <1>4, ConstFacts DEF Init, TypeOK, Busy

LEMMA TypeStep == TypeOK /\ Busy /\ [Next]_vars => TypeOK' /\ Busy'
<1> SUFFICES ASSUME TypeOK, Busy, [Next]_vars PROVE TypeOK' /\ Busy'
    OBVIOUS
<1> USE ConstFacts DEF TypeOK, Busy, workerVars, masterVars, shutVars
<1>1. ASSUME NEW i \in Paths, SubmitPath(i) PROVE TypeOK' /\ Busy'
    BY <1>1 DEF SubmitPath
<1>2. CASE CancelAll
    BY <1>2 DEF CancelAll
<1>3. ASSUME NEW wait \in BOOLEAN, Shutdown(wait) PROVE TypeOK' /\ Busy'
    <2>1. [k \in Workers |-> Sentinel] \in Seq(Paths \cup {Sentinel})
        BY WorkerCountAssumption DEF Workers
    <2>2. requestQ' \in Seq(Paths \cup {Sentinel})
        BY <1>3, <2>1 DEF Shutdown
    <2> QED BY <1>3, <2>2 DEF Shutdown
<1>4. CASE ShutdownStep
    <2>1. CASE ShutdownJoined
        BY <2>1 DEF ShutdownJoined
    <2>2. CASE ShutdownTerminate
        BY <2>2 DEF ShutdownTerminate
    <2>3. CASE ShutdownKill
        BY <2>3 DEF ShutdownKill
    <2>4. CASE ShutdownClose
        BY <2>4 DEF ShutdownClose
    <2> QED BY <1>4, <2>1, <2>2, <2>3, <2>4 DEF ShutdownStep
<1>5. ASSUME NEW w \in Workers, WorkerStep(w) PROVE TypeOK' /\ Busy'
    <2>1. CASE WorkerGet(w)
        <3>1. requestQ' \in Seq(Paths \cup {Sentinel})
            BY <2>1 DEF WorkerGet
        <3>2. Head(requestQ) \in Paths \cup {Sentinel}
            BY <2>1 DEF WorkerGet
        <3> QED BY <2>1, <3>1, <3>2 DEF WorkerGet
    <2>2. ASSUME NEW kind \in {"claim", "result"}, Put(w, kind),
                 wpc[w] \in {"got", "running"}
          PROVE  buf' \in [Workers -> Seq(Messages)]
        <3>1. [kind |-> kind, index |-> cur[w], worker |-> w] \in Messages
            BY <2>2 DEF Messages
        <3> HIDE DEF NoPath
        <3> QED BY <2>2, <3>1 DEF Put
    <2>3. CASE WorkerClaim(w)
        <3>1. buf' \in [Workers -> Seq(Messages)]
            BY <2>2, <2>3 DEF WorkerClaim
        <3> QED BY <2>3, <3>1 DEF WorkerClaim
    <2>4. CASE WorkerResult(w)
        <3>1. buf' \in [Workers -> Seq(Messages)]
            BY <2>2, <2>4 DEF WorkerResult
        <3> QED BY <2>4, <3>1 DEF WorkerResult
    <2>5. CASE WorkerExit(w)
        BY <2>5 DEF WorkerExit
    <2>6. CASE FeederFlush(w)
        <3>1. buf[w] \in Seq(Messages) /\ buf[w] # <<>>
            BY <2>6 DEF FeederFlush
        <3>2. Head(buf[w]) \in Messages /\ Tail(buf[w]) \in Seq(Messages)
            BY <3>1
        <3>3. resultQ' \in Seq(Messages)
            BY <2>6, <3>2 DEF FeederFlush
        <3>4. buf' \in [Workers -> Seq(Messages)]
            BY <2>6, <3>2 DEF FeederFlush
        <3> QED BY <2>6, <3>3, <3>4 DEF FeederFlush
    <2>7. CASE WorkerTerminated(w)
        BY <2>7 DEF WorkerTerminated, Die
    <2> QED BY <1>5, <2>1, <2>3, <2>4, <2>5, <2>6, <2>7 DEF WorkerStep, WorkerMain
<1>6. ASSUME NEW w \in Workers, WorkerFault(w) PROVE TypeOK' /\ Busy'
    <2>1. CASE WorkerRaise(w)
        BY <2>1, FaultAssumption DEF WorkerRaise
    <2>2. CASE WorkerKilled(w)
        BY <2>2, FaultAssumption DEF WorkerKilled, Die
    <2> QED BY <1>6, <2>1, <2>2 DEF WorkerFault
<1>7. CASE Monitor
    <2>1. CASE MonitorTop
        BY <2>1 DEF MonitorTop
    <2>2. ASSUME resultQ # <<>>
          PROVE  /\ Tail(resultQ) \in Seq(Messages)
                 /\ Head(resultQ).index \in Paths
                 /\ Head(resultQ).worker \in Workers
        <3>1. Tail(resultQ) \in Seq(Messages) /\ Head(resultQ) \in Messages
            BY <2>2
        <3> QED BY <3>1 DEF Messages
    <2>3. CASE MonitorClaim
        BY <2>2, <2>3 DEF MonitorClaim
    <2>4. CASE MonitorResult
        BY <2>2, <2>4 DEF MonitorResult
    <2>5. CASE MonitorEmpty
        BY <2>5 DEF MonitorEmpty
    <2>6. CASE MonitorScan
        <3>0. scan \in Workers /\ (deadSeen' = deadSeen \cup {scan} \/ deadSeen' = deadSeen)
            BY <2>6 DEF MonitorScan
        <3>1. scan' \in 1..WorkerCount + 1 /\ deadSeen' \subseteq Workers
            <4>1. scan' = scan + 1
                BY <2>6 DEF MonitorScan
            <4> QED BY <3>0, <4>1
        <3>2. claims' \in [Workers -> Paths \cup {NoPath}]
            BY <2>6 DEF MonitorScan
        <3>3. fut' \in [Paths -> {"unsubmitted", "pending", "result", "worker_crashed"}]
            BY <2>6 DEF MonitorScan
        <3>4. UNCHANGED <<workerVars, resultQ, mon, sigterm, shutVars, raises, kills, closed, cancelled>>
            BY <2>6 DEF MonitorScan
        <3> QED BY <3>1, <3>2, <3>3, <3>4
    <2>7. CASE MonitorFailOutstanding
        BY <2>7 DEF MonitorFailOutstanding
    <2>8. CASE MonitorContinue
        BY <2>8 DEF MonitorContinue
    <2> QED BY <1>7, <2>1, <2>3, <2>4, <2>5, <2>6, <2>7, <2>8 DEF Monitor
<1>8. CASE Finished \/ UNCHANGED vars
    BY <1>8 DEF Finished, vars
<1> QED BY <1>1, <1>2, <1>3, <1>4, <1>5, <1>6, <1>7, <1>8 DEF Next

\* TypeOK is an invariant of LocalSubprocessPool for every worker count and
\* plan length.
THEOREM TypeCorrect == Spec => []TypeOK
<1>1. Spec => [](TypeOK /\ Busy)
    BY TypeInit, TypeStep, PTL DEF Spec
<1> QED BY <1>1, PTL

(***************************************************************************)
(* A crashed path is not run.  The argument is about custody: a submitted  *)
(* path sits on the request queue or has left a trace (its worker's        *)
(* current path, recorded claim, or a message on its way) at one worker    *)
(* only.  A dead worker's claim therefore names a path no other worker     *)
(* holds and that is not queued either.                                    *)
(***************************************************************************)
InQueue(i) == \E k \in 1..Len(requestQ) : requestQ[k] = i

Touched(w, i) ==
    \/ cur[w] = i
    \/ claims[w] = i
    \/ \E k \in 1..Len(buf[w]) : buf[w][k].index = i
    \/ \E k \in 1..Len(resultQ) : resultQ[k].worker = w /\ resultQ[k].index = i

OwnMessages ==
    \A w \in Workers : \A k \in 1..Len(buf[w]) : buf[w][k].worker = w

QueueDistinct ==
    \A k, l \in 1..Len(requestQ) :
        requestQ[k] = requestQ[l] /\ requestQ[k] \in Paths => k = l

QueueSubmitted ==
    \A i \in Paths : InQueue(i) => fut[i] # "unsubmitted"

OneOwner ==
    \A i \in Paths, w \in Workers : Touched(w, i) =>
        /\ fut[i] # "unsubmitted"
        /\ ~InQueue(i)
        /\ \A v \in Workers : Touched(v, i) => v = w

Custody == OwnMessages /\ QueueDistinct /\ QueueSubmitted /\ OneOwner

IInv == TypeOK /\ Busy /\ Custody /\ CrashedIsNotRun

\* An action that leaves no new trace of any path and queues none keeps
\* custody.
LEMMA NoNewTrace ==
    ASSUME OneOwner, QueueSubmitted,
           \A i \in Paths, w \in Workers : Touched(w, i)' => Touched(w, i),
           \A i \in Paths : InQueue(i)' => InQueue(i),
           \A i \in Paths : fut[i] # "unsubmitted" => fut'[i] # "unsubmitted"
    PROVE  OneOwner' /\ QueueSubmitted'
BY DEF OneOwner, QueueSubmitted

LEMMA CustodyInit == Init => Custody /\ CrashedIsNotRun
BY ConstFacts DEF Init, Custody, OwnMessages, QueueDistinct, QueueSubmitted,
   OneOwner, InQueue, Touched, CrashedIsNotRun

LEMMA CustodyStep ==
    TypeOK /\ Busy /\ Custody /\ [Next]_vars => Custody'
<1> SUFFICES ASSUME TypeOK, Busy, Custody, [Next]_vars PROVE Custody'
    OBVIOUS
<1> USE ConstFacts DEF workerVars, masterVars, shutVars
<1>t. /\ requestQ \in Seq(Paths \cup {Sentinel})
      /\ cur \in [Workers -> Paths \cup {NoPath}]
      /\ wpc \in [Workers -> {"idle", "got", "running", "exiting", "dead"}]
      /\ buf \in [Workers -> Seq(Messages)]
      /\ resultQ \in Seq(Messages)
      /\ claims \in [Workers -> Paths \cup {NoPath}]
      /\ DOMAIN fut = Paths
    BY DEF TypeOK
<1>i. OwnMessages /\ QueueDistinct /\ QueueSubmitted /\ OneOwner
    BY DEF Custody
<1>q. ASSUME OwnMessages', QueueDistinct', QueueSubmitted', OneOwner'
      PROVE  Custody'
    BY <1>q DEF Custody
<1>s. ASSUME UNCHANGED <<requestQ, cur, buf, resultQ, fut, claims>>
      PROVE  Custody'
    BY <1>i, <1>s DEF Custody, OwnMessages, QueueDistinct, QueueSubmitted,
       OneOwner, InQueue, Touched
<1>1. ASSUME NEW i \in Paths, SubmitPath(i) PROVE Custody'
    <2>1. ~InQueue(i) /\ \A w \in Workers : ~Touched(w, i)
        BY <1>t, <1>i, <1>1 DEF SubmitPath, QueueSubmitted, OneOwner
    <2>2. /\ Len(requestQ') = Len(requestQ) + 1
          /\ requestQ'[Len(requestQ) + 1] = i
          /\ \A k \in 1..Len(requestQ) : requestQ'[k] = requestQ[k]
        BY <1>t, <1>i, <1>1 DEF SubmitPath
    <2>3. QueueDistinct'
        BY <1>t, <1>i, <2>1, <2>2 DEF QueueDistinct, InQueue
    <2>4. \A j \in Paths : InQueue(j)' => InQueue(j) \/ j = i
        BY <1>t, <1>i, <2>2 DEF InQueue
    <2>5. \A j \in Paths, w \in Workers : Touched(w, j)' <=> Touched(w, j)
        BY <1>t, <1>i, <1>1 DEF SubmitPath, Touched
    <2>6. \A j \in Paths : j # i => fut'[j] = fut[j]
        BY <1>t, <1>i, <1>1 DEF SubmitPath
    <2>7. fut'[i] # "unsubmitted"
        BY <1>t, <1>i, <1>1 DEF SubmitPath
    <2>8. QueueSubmitted' /\ OneOwner'
        BY <1>t, <1>i, <2>1, <2>4, <2>5, <2>6, <2>7 DEF QueueSubmitted, OneOwner
    <2>9. OwnMessages'
        BY <1>t, <1>i, <1>1 DEF SubmitPath, OwnMessages
    <2> QED BY <1>q, <2>3, <2>8, <2>9
<1>2. CASE CancelAll
    BY <1>2, <1>s DEF CancelAll
<1>3. ASSUME NEW wait \in BOOLEAN, Shutdown(wait) PROVE Custody'
    <2> DEFINE S == [k \in Workers |-> Sentinel]
    <2>1. S \in Seq({Sentinel}) /\ Len(S) = WorkerCount
        BY <1>t, <1>i, WorkerCountAssumption DEF Workers
    <2>2. /\ Len(requestQ') = Len(requestQ) + WorkerCount
          /\ \A k \in 1..Len(requestQ) : requestQ'[k] = requestQ[k]
          /\ \A k \in 1..Len(requestQ') : k > Len(requestQ) =>
                 requestQ'[k] = Sentinel
        <3>1. requestQ' = requestQ \o S
            BY <1>t, <1>i, <1>3 DEF Shutdown
        <3>2. \A k \in 1..Len(S) : S[k] = Sentinel
            BY <1>t, <1>i, <2>1
        <3> QED BY <2>1, <3>1, <3>2, WorkerCountAssumption
    <2>3. QueueDistinct'
        <3>1. \A k \in 1..Len(requestQ') :
                 requestQ'[k] \in Paths => k \in 1..Len(requestQ)
            BY <1>t, <2>2, WorkerCountAssumption
        <3> QED BY <1>i, <2>2, <3>1 DEF QueueDistinct
    <2>4. \A j \in Paths : InQueue(j)' => InQueue(j)
        <3> SUFFICES ASSUME NEW j \in Paths, NEW k \in 1..Len(requestQ'),
                            requestQ'[k] = j
                     PROVE  InQueue(j)
            BY DEF InQueue
        <3>1. k \in 1..Len(requestQ)
            BY <1>t, <2>2, WorkerCountAssumption
        <3> QED BY <2>2, <3>1 DEF InQueue
    <2>5. \A j \in Paths, w \in Workers : Touched(w, j)' => Touched(w, j)
        BY <1>t, <1>i, <1>3 DEF Shutdown, Touched
    <2>6. QueueSubmitted' /\ OneOwner'
        BY <1>t, <1>i, <1>3, <2>4, <2>5, NoNewTrace DEF Shutdown
    <2>7. OwnMessages'
        BY <1>t, <1>i, <1>3 DEF Shutdown, OwnMessages
    <2> QED BY <1>q, <2>3, <2>6, <2>7
<1>4. ASSUME NEW w \in Workers,
             wpc' = [wpc EXCEPT ![w] = "dead"],
             cur' = [cur EXCEPT ![w] = NoPath],
             buf' = [buf EXCEPT ![w] = <<>>],
             UNCHANGED <<requestQ, resultQ, masterVars>>
      PROVE  Custody'
    <2>1. \A j \in Paths, v \in Workers : Touched(v, j)' => Touched(v, j)
        BY <1>t, <1>i, <1>4 DEF Touched
    <2>2. \A j \in Paths : InQueue(j)' => InQueue(j)
        BY <1>t, <1>i, <1>4 DEF InQueue
    <2>3. QueueSubmitted' /\ OneOwner'
        BY <1>i, <1>4, <2>1, <2>2, NoNewTrace
    <2>4. OwnMessages' /\ QueueDistinct'
        <3>1. \A v \in Workers : buf'[v] = <<>> \/ buf'[v] = buf[v]
            BY <1>t, <1>4
        <3>2. OwnMessages'
            BY <1>i, <3>1 DEF OwnMessages
        <3>3. QueueDistinct'
            BY <1>i, <1>4 DEF QueueDistinct
        <3> QED BY <3>2, <3>3
    <2> QED BY <1>q, <2>3, <2>4
<1>5. CASE ShutdownStep
    <2>1. CASE ShutdownKill
        BY <1>4, <2>1 DEF ShutdownKill
    <2>2. CASE ShutdownJoined \/ ShutdownTerminate \/ ShutdownClose
        BY <1>s, <2>2 DEF ShutdownJoined, ShutdownTerminate, ShutdownClose
    <2> QED BY <1>5, <2>1, <2>2 DEF ShutdownStep
<1>6. ASSUME NEW w \in Workers, WorkerStep(w) PROVE Custody'
    <2>1. CASE WorkerGet(w)
        <3>1. /\ Len(requestQ') = Len(requestQ) - 1
              /\ \A k \in 1..Len(requestQ') : requestQ'[k] = requestQ[k + 1]
              /\ Head(requestQ) = requestQ[1] /\ Len(requestQ) >= 1
              /\ requestQ[1] \in Paths \cup {Sentinel}
            BY <1>t, <1>i, <2>1 DEF WorkerGet
        <3>2. QueueDistinct'
            <4> SUFFICES ASSUME NEW k \in 1..Len(requestQ'),
                                NEW l \in 1..Len(requestQ'),
                                requestQ'[k] = requestQ'[l],
                                requestQ'[k] \in Paths
                         PROVE  k = l
                BY DEF QueueDistinct
            <4>1. k + 1 \in 1..Len(requestQ) /\ l + 1 \in 1..Len(requestQ)
                BY <1>t, <3>1
            <4>2. k + 1 = l + 1
                BY <1>i, <3>1, <4>1 DEF QueueDistinct
            <4> QED BY <4>2
        <3>3. \A j \in Paths : InQueue(j)' => InQueue(j) /\ j # requestQ[1]
            BY <1>t, <1>i, <3>1 DEF InQueue, QueueDistinct
        <3>4. requestQ[1] \in Paths => InQueue(requestQ[1])
            BY <1>t, <1>i, <3>1 DEF InQueue
        <3>5. \A j \in Paths, v \in Workers :
                 Touched(v, j)' => Touched(v, j) \/ (v = w /\ j = requestQ[1])
            BY <1>t, <1>i, <2>1, <3>1 DEF WorkerGet, Touched
        <3>6. fut' = fut
            BY <1>t, <1>i, <2>1 DEF WorkerGet
        <3>7. QueueSubmitted' /\ OneOwner'
            BY <1>t, <1>i, <3>3, <3>4, <3>5, <3>6 DEF QueueSubmitted, OneOwner
        <3>8. OwnMessages'
            BY <1>t, <1>i, <2>1 DEF WorkerGet, OwnMessages
        <3> QED BY <1>q, <3>2, <3>7, <3>8
    <2>2. ASSUME NEW kind \in {"claim", "result"}, Put(w, kind),
                 wpc[w] \in {"got", "running"},
                 cur' = cur \/ cur' = [cur EXCEPT ![w] = NoPath],
                 UNCHANGED <<requestQ, resultQ, masterVars>>
          PROVE  Custody'
        <3>0. [kind |-> kind, index |-> cur[w], worker |-> w] \in Messages
            BY <1>t, <1>i, <2>2 DEF Messages, Busy
        <3>1. /\ Len(buf'[w]) = Len(buf[w]) + 1
              /\ \A k \in 1..Len(buf[w]) : buf'[w][k] = buf[w][k]
              /\ buf'[w][Len(buf[w]) + 1].index = cur[w]
              /\ buf'[w][Len(buf[w]) + 1].worker = w
              /\ \A v \in Workers : v # w => buf'[v] = buf[v]
            BY <1>t, <1>i, <2>2, <3>0 DEF Put
        <3>2. OwnMessages'
            <4> SUFFICES ASSUME NEW v \in Workers, NEW k \in 1..Len(buf'[v])
                         PROVE  buf'[v][k].worker = v
                BY DEF OwnMessages
            <4>1. CASE v # w
                BY <1>i, <3>1, <4>1 DEF OwnMessages
            <4>2. CASE v = w /\ k \in 1..Len(buf[w])
                BY <1>i, <3>1, <4>2 DEF OwnMessages
            <4>3. CASE v = w /\ k = Len(buf[w]) + 1
                BY <3>1, <4>3
            <4>4. Len(buf[w]) \in Nat
                BY <1>t
            <4> QED BY <3>1, <4>1, <4>2, <4>3, <4>4
        <3>3. \A j \in Paths, v \in Workers : Touched(v, j)' => Touched(v, j)
            <4> SUFFICES ASSUME NEW j \in Paths, NEW v \in Workers,
                                Touched(v, j)'
                         PROVE  Touched(v, j)
                OBVIOUS
            <4>1. CASE cur'[v] = j
                <5>1. cur[v] = j
                    BY <1>t, <2>2, <4>1
                <5> QED BY <5>1 DEF Touched
            <4>2. CASE claims'[v] = j
                BY <2>2, <4>2 DEF Touched
            <4>3. ASSUME NEW k \in 1..Len(buf'[v]), buf'[v][k].index = j
                  PROVE  Touched(v, j)
                <5>1. CASE v # w
                    BY <3>1, <4>3, <5>1 DEF Touched
                <5>2. CASE v = w /\ k \in 1..Len(buf[w])
                    BY <3>1, <4>3, <5>2 DEF Touched
                <5>3. CASE v = w /\ k = Len(buf[w]) + 1
                    BY <3>1, <4>3, <5>3 DEF Touched
                <5>4. Len(buf[w]) \in Nat
                    BY <1>t
                <5> QED BY <3>1, <4>3, <5>1, <5>2, <5>3, <5>4
            <4>4. CASE \E k \in 1..Len(resultQ') :
                          resultQ'[k].worker = v /\ resultQ'[k].index = j
                BY <2>2, <4>4 DEF Touched
            <4> QED BY <4>1, <4>2, <4>3, <4>4 DEF Touched
        <3>4. \A j \in Paths : InQueue(j)' => InQueue(j)
            BY <1>t, <1>i, <2>2 DEF InQueue
        <3>5. QueueSubmitted' /\ OneOwner'
            BY <1>t, <1>i, <2>2, <3>3, <3>4, NoNewTrace
        <3>6. QueueDistinct'
            BY <1>t, <1>i, <2>2 DEF QueueDistinct
        <3> QED BY <1>q, <3>2, <3>5, <3>6
    <2>3. CASE WorkerClaim(w)
        BY <1>t, <1>i, <2>2, <2>3 DEF WorkerClaim
    <2>4. CASE WorkerResult(w)
        BY <1>t, <1>i, <2>2, <2>4 DEF WorkerResult
    <2>5. CASE WorkerExit(w)
        BY <1>s, <2>5 DEF WorkerExit
    <2>6. CASE FeederFlush(w)
        <3>1. /\ buf[w] \in Seq(Messages) /\ buf[w] # <<>>
              /\ Head(buf[w]) = buf[w][1] /\ 1 \in 1..Len(buf[w])
              /\ Head(buf[w]).worker = w
            BY <1>t, <1>i, <2>6 DEF FeederFlush, OwnMessages
        <3>2. /\ Len(buf'[w]) = Len(buf[w]) - 1
              /\ \A k \in 1..Len(buf'[w]) : buf'[w][k] = buf[w][k + 1]
              /\ \A v \in Workers : v # w => buf'[v] = buf[v]
            BY <1>t, <1>i, <2>6, <3>1 DEF FeederFlush
        <3>3. /\ Len(resultQ') = Len(resultQ) + 1
              /\ \A k \in 1..Len(resultQ) : resultQ'[k] = resultQ[k]
              /\ resultQ'[Len(resultQ) + 1] = buf[w][1]
            BY <1>t, <1>i, <2>6, <3>1 DEF FeederFlush
        <3>4. OwnMessages'
            <4> SUFFICES ASSUME NEW v \in Workers, NEW k \in 1..Len(buf'[v])
                         PROVE  buf'[v][k].worker = v
                BY DEF OwnMessages
            <4>1. CASE v # w
                BY <1>i, <3>2, <4>1 DEF OwnMessages
            <4>2. CASE v = w
                <5>1. k + 1 \in 1..Len(buf[w])
                    BY <1>t, <3>2, <4>2
                <5> QED BY <1>i, <3>2, <4>2, <5>1 DEF OwnMessages
            <4> QED BY <4>1, <4>2
        <3>5. \A j \in Paths, v \in Workers : Touched(v, j)' => Touched(v, j)
            BY <1>t, <1>i, <2>6, <3>1, <3>2, <3>3, SMTT(30) DEF Touched, FeederFlush
        <3>6. \A j \in Paths : InQueue(j)' => InQueue(j)
            BY <1>t, <1>i, <2>6 DEF InQueue, FeederFlush
        <3>7. QueueSubmitted' /\ OneOwner'
            BY <1>t, <1>i, <2>6, <3>5, <3>6, NoNewTrace DEF FeederFlush
        <3>8. QueueDistinct'
            BY <1>t, <1>i, <2>6 DEF QueueDistinct, FeederFlush
        <3> QED BY <1>q, <3>4, <3>7, <3>8
    <2>7. CASE WorkerTerminated(w)
        BY <1>4, <2>7 DEF WorkerTerminated, Die
    <2> QED BY <1>6, <2>1, <2>3, <2>4, <2>5, <2>6, <2>7 DEF WorkerStep, WorkerMain
<1>7. ASSUME NEW w \in Workers, WorkerFault(w) PROVE Custody'
    <2>1. CASE WorkerRaise(w)
        <3>1. \A j \in Paths, v \in Workers : Touched(v, j)' => Touched(v, j)
            BY <1>t, <2>1 DEF WorkerRaise, Touched
        <3>2. \A j \in Paths : InQueue(j)' => InQueue(j)
            BY <1>t, <1>i, <2>1 DEF WorkerRaise, InQueue
        <3>3. QueueSubmitted' /\ OneOwner'
            BY <1>i, <2>1, <3>1, <3>2, NoNewTrace DEF WorkerRaise
        <3>4. OwnMessages' /\ QueueDistinct'
            BY <1>i, <2>1 DEF WorkerRaise, OwnMessages, QueueDistinct
        <3> QED BY <1>q, <3>3, <3>4
    <2>2. CASE WorkerKilled(w)
        BY <1>4, <2>2 DEF WorkerKilled, Die
    <2> QED BY <1>7, <2>1, <2>2 DEF WorkerFault
<1>8. CASE Monitor
    <2>1. UNCHANGED <<requestQ, cur, buf>>
        BY <1>t, <1>i, <1>8 DEF Monitor, MonitorTop, MonitorClaim, MonitorResult,
           MonitorEmpty, MonitorScan, MonitorFailOutstanding, MonitorContinue
    <2>2. OwnMessages' /\ QueueDistinct'
        BY <1>t, <1>i, <2>1 DEF OwnMessages, QueueDistinct
    <2>3. \A j \in Paths : InQueue(j)' => InQueue(j)
        BY <1>t, <1>i, <2>1 DEF InQueue
    <2>4. \A j \in Paths : fut[j] # "unsubmitted" => fut'[j] # "unsubmitted"
        BY <1>t, <1>i, <1>8 DEF Monitor, MonitorTop, MonitorClaim, MonitorResult,
           MonitorEmpty, MonitorScan, MonitorFailOutstanding, MonitorContinue
    <2>5. \A j \in Paths, v \in Workers : Touched(v, j)' => Touched(v, j)
        <3>1. ASSUME resultQ # <<>>, resultQ' = Tail(resultQ)
              PROVE  /\ Head(resultQ) = resultQ[1] /\ 1 \in 1..Len(resultQ)
                     /\ resultQ[1] \in Messages
                     /\ Len(resultQ') = Len(resultQ) - 1
                     /\ \A k \in 1..Len(resultQ') : resultQ'[k] = resultQ[k + 1]
            BY <1>t, <1>i, <3>1
        <3>2. CASE MonitorClaim
            BY <1>t, <1>i, <2>1, <3>1, <3>2, SMTT(30) DEF MonitorClaim, Touched, Messages
        <3>3. CASE MonitorResult
            BY <1>t, <1>i, <2>1, <3>1, <3>3 DEF MonitorResult, Touched, Messages
        <3>4. CASE MonitorScan \/ MonitorFailOutstanding
            BY <1>t, <1>i, <2>1, <3>4 DEF MonitorScan, MonitorFailOutstanding, Touched
        <3>5. CASE MonitorTop \/ MonitorEmpty \/ MonitorContinue
            BY <1>t, <1>i, <3>5 DEF MonitorTop, MonitorEmpty, MonitorContinue, Touched
        <3> QED BY <1>8, <3>2, <3>3, <3>4, <3>5 DEF Monitor
    <2>6. QueueSubmitted' /\ OneOwner'
        BY <1>t, <1>i, <2>3, <2>4, <2>5, NoNewTrace
    <2> QED BY <1>q, <2>2, <2>6
<1>9. CASE Finished \/ UNCHANGED vars
    BY <1>s, <1>9 DEF Finished, vars
<1> QED BY <1>1, <1>2, <1>3, <1>5, <1>6, <1>7, <1>8, <1>9 DEF Next

LEMMA CrashedStep ==
    IInv /\ [Next]_vars => CrashedIsNotRun'
<1> SUFFICES ASSUME IInv, [Next]_vars,
                    NEW i \in Paths, fut'[i] = "worker_crashed"
             PROVE  /\ \A w \in Workers : cur'[w] # i
                    /\ InQueue(i)' => AllWorkersDead'
    BY DEF CrashedIsNotRun, InQueue
<1> USE ConstFacts DEF TypeOK, workerVars, masterVars, shutVars
<1>0. TypeOK /\ Busy /\ Custody /\ CrashedIsNotRun
    BY DEF IInv
<1>a. AllWorkersDead => AllWorkersDead'
    BY <1>0 DEF AllWorkersDead, Dead, Next, SubmitPath, CancelAll, Shutdown,
       ShutdownStep, ShutdownJoined, ShutdownTerminate, ShutdownKill,
       ShutdownClose, WorkerStep, WorkerMain, WorkerGet, WorkerClaim, WorkerResult,
       WorkerExit, FeederFlush, WorkerTerminated, Die, WorkerFault,
       WorkerRaise, WorkerKilled, Monitor, MonitorTop, MonitorClaim,
       MonitorResult, MonitorEmpty, MonitorScan, MonitorFailOutstanding,
       MonitorContinue, Finished, vars
<1>b. fut[i] = "worker_crashed" =>
          (\A w \in Workers : cur[w] # i) /\ (InQueue(i) => AllWorkersDead)
    BY <1>0 DEF CrashedIsNotRun, InQueue
<1>c. ASSUME fut' = fut, \A w \in Workers : cur'[w] \in {cur[w], NoPath},
             InQueue(i)' => InQueue(i)
      PROVE  (\A w \in Workers : cur'[w] # i) /\ (InQueue(i)' => AllWorkersDead')
    BY <1>a, <1>b, <1>c
<1>1. ASSUME NEW j \in Paths, SubmitPath(j)
      PROVE  (\A w \in Workers : cur'[w] # i) /\ (InQueue(i)' => AllWorkersDead')
    <2>1. j # i /\ fut[i] = "worker_crashed" /\ cur' = cur
        BY <1>0, <1>1 DEF SubmitPath
    <2>2. InQueue(i)' => InQueue(i)
        BY <1>0, <1>1, <2>1 DEF SubmitPath, InQueue
    <2> QED BY <1>a, <1>b, <2>1, <2>2
<1>2. CASE CancelAll
    BY <1>0, <1>2, <1>c DEF CancelAll, InQueue
<1>3. ASSUME NEW wait \in BOOLEAN, Shutdown(wait)
      PROVE  (\A w \in Workers : cur'[w] # i) /\ (InQueue(i)' => AllWorkersDead')
    <2>1. [k \in Workers |-> Sentinel] \in Seq(Paths \cup {Sentinel})
        BY WorkerCountAssumption DEF Workers
    <2>2. InQueue(i)' => InQueue(i)
        <3>1. requestQ' = requestQ \o [k \in Workers |-> Sentinel]
            BY <1>3 DEF Shutdown
        <3>2. \A k \in 1..Len(requestQ') :
                 \/ requestQ'[k] = Sentinel
                 \/ k \in 1..Len(requestQ) /\ requestQ'[k] = requestQ[k]
            BY <1>0, <2>1, <3>1
        <3> QED BY <3>2 DEF InQueue
    <2> QED BY <1>0, <1>3, <1>c, <2>2 DEF Shutdown
<1>4. CASE ShutdownStep
    BY <1>0, <1>4, <1>c DEF ShutdownStep, ShutdownJoined, ShutdownTerminate,
       ShutdownKill, ShutdownClose, InQueue
<1>5. ASSUME NEW w \in Workers, WorkerStep(w)
      PROVE  (\A v \in Workers : cur'[v] # i) /\ (InQueue(i)' => AllWorkersDead')
    <2>1. CASE WorkerGet(w)
        <3>1. /\ requestQ # <<>> /\ Head(requestQ) = requestQ[1]
              /\ 1 \in 1..Len(requestQ) /\ ~AllWorkersDead
            BY <1>0, <2>1 DEF WorkerGet, AllWorkersDead, Dead
        <3>2. requestQ[1] # i
            BY <1>b, <2>1, <3>1 DEF WorkerGet, InQueue
        <3>3. InQueue(i)' => InQueue(i)
            BY <1>0, <2>1, <3>1 DEF WorkerGet, InQueue
        <3>4. fut' = fut /\ \A v \in Workers : cur'[v] \in {cur[v], requestQ[1]}
            BY <1>0, <2>1, <3>1 DEF WorkerGet
        <3> QED BY <1>a, <1>b, <3>2, <3>3, <3>4
    <2>2. CASE WorkerClaim(w) \/ WorkerResult(w) \/ WorkerExit(w)
               \/ FeederFlush(w) \/ WorkerTerminated(w)
        BY <1>0, <1>c, <2>2 DEF WorkerClaim, WorkerResult, WorkerExit,
           FeederFlush, WorkerTerminated, Die, InQueue
    <2> QED BY <1>5, <2>1, <2>2 DEF WorkerStep, WorkerMain
<1>6. ASSUME NEW w \in Workers, WorkerFault(w)
      PROVE  (\A v \in Workers : cur'[v] # i) /\ (InQueue(i)' => AllWorkersDead')
    BY <1>0, <1>6, <1>c DEF WorkerFault, WorkerRaise, WorkerKilled, Die, InQueue
<1>7. CASE MonitorScan
    <2>1. UNCHANGED <<requestQ, cur, wpc>> /\ scan \in Workers
        BY <1>7 DEF MonitorScan
    <2>2. CASE fut[i] = "worker_crashed"
        BY <1>a, <1>b, <2>1, <2>2 DEF InQueue
    <2>3. CASE fut[i] # "worker_crashed"
        <3>1. Dead(scan) /\ claims[scan] = i
            BY <1>0, <1>7, <2>3 DEF MonitorScan
        <3>2. Touched(scan, i) /\ cur[scan] = NoPath
            BY <1>0, <2>1, <3>1 DEF Touched, Busy, Dead
        <3>3. ~InQueue(i) /\ \A v \in Workers : Touched(v, i) => v = scan
            BY <1>0, <2>1, <3>2 DEF Custody, OneOwner
        <3>4. \A v \in Workers : cur[v] # i
            BY <3>2, <3>3 DEF Touched
        <3> QED BY <2>1, <3>3, <3>4 DEF InQueue
    <2> QED BY <2>2, <2>3
<1>8. CASE MonitorFailOutstanding
    <2>1. \A w \in Workers : cur[w] = NoPath
        BY <1>0, <1>8 DEF MonitorFailOutstanding, AllWorkersDead, Dead, Busy
    <2> QED BY <1>8, <1>a, <2>1 DEF MonitorFailOutstanding
<1>9. CASE MonitorResult
    <2>1. fut[i] = "worker_crashed" /\ UNCHANGED <<requestQ, cur>>
        BY <1>0, <1>9 DEF MonitorResult
    <2> QED BY <1>a, <1>b, <2>1 DEF InQueue
<1>10. CASE MonitorTop \/ MonitorClaim \/ MonitorEmpty \/ MonitorContinue
    BY <1>0, <1>10, <1>c DEF MonitorTop, MonitorClaim, MonitorEmpty,
       MonitorContinue, InQueue
<1>11. CASE Finished \/ UNCHANGED vars
    BY <1>0, <1>11, <1>c DEF Finished, vars, InQueue
<1> QED
    BY <1>1, <1>2, <1>3, <1>4, <1>5, <1>6, <1>7, <1>8, <1>9, <1>10, <1>11
       DEF Next, Monitor

\* A path whose future was set to WORKER_CRASHED is not run by a live worker
\* and never will be, so re-running it on resume cannot run it twice at once.
THEOREM CrashedNotRun == Spec => []CrashedIsNotRun
<1>1. Init => IInv
    BY TypeInit, CustodyInit DEF IInv
<1>2. IInv /\ [Next]_vars => IInv'
    BY TypeStep, CustodyStep, CrashedStep DEF IInv
<1>3. IInv => CrashedIsNotRun
    BY DEF IInv
<1> QED BY <1>1, <1>2, <1>3, PTL DEF Spec

(***************************************************************************)
(* A recorded claim is current.  ClaimIsCurrent says nothing of the        *)
(* messages behind the oldest one, which will be the oldest in turn.  A    *)
(* worker's messages alternate: claim and result of one path, then the     *)
(* next claim; the newest one tells where the worker is, the oldest one    *)
(* what the monitor has on record.                                         *)
(***************************************************************************)
Newest(w, k) == k \in InFlight(w) /\ \A l \in InFlight(w) : l <= k

Adjacent(w, k, l) ==
    /\ k \in InFlight(w) /\ l \in InFlight(w) /\ k < l
    /\ \A j \in InFlight(w) : j <= k \/ l <= j

Alternate(w) ==
    \A k, l \in InFlight(w) : Adjacent(w, k, l) =>
        IF Way(w)[k].kind = "claim"
          THEN Way(w)[l].kind = "result" /\ Way(w)[l].index = Way(w)[k].index
          ELSE Way(w)[l].kind = "claim"

NewestTells(w) ==
    \A k \in InFlight(w) : Newest(w, k) =>
        IF Way(w)[k].kind = "claim"
          THEN \/ wpc[w] = "running" /\ cur[w] = Way(w)[k].index
               \/ wpc[w] = "exiting"
          ELSE wpc[w] # "running"

OldestTells(w) ==
    \A k \in InFlight(w) : Oldest(w, k) =>
        claims[w] = IF Way(w)[k].kind = "claim" THEN NoPath ELSE Way(w)[k].index

NothingTells(w) ==
    InFlight(w) = {} =>
        /\ wpc[w] = "running" => claims[w] = cur[w]
        /\ wpc[w] \in {"idle", "got"} => claims[w] = NoPath

InTurn(w) == Alternate(w) /\ NewestTells(w) /\ OldestTells(w) /\ NothingTells(w)

InTurnInv == \A w \in Workers : ~Dead(w) => InTurn(w)

LEMMA ConcatFacts ==
    ASSUME NEW S, NEW s \in Seq(S), NEW t \in Seq(S)
    PROVE  /\ s \o t \in Seq(S)
           /\ Len(s \o t) = Len(s) + Len(t)
           /\ Len(s) \in Nat /\ Len(t) \in Nat
           /\ \A k \in 1..Len(s) : (s \o t)[k] = s[k]
           /\ \A k \in 1..Len(t) : (s \o t)[Len(s) + k] = t[k]
OBVIOUS

LEMMA InsertFacts ==
    ASSUME NEW S, NEW s \in Seq(S), NEW t \in Seq(S), NEW e \in S
    PROVE  /\ Len(Append(s, e) \o t) = Len(s \o t) + 1
           /\ Len(s) \in Nat /\ Len(s \o t) \in Nat /\ Len(s) <= Len(s \o t)
           /\ (Append(s, e) \o t)[Len(s) + 1] = e
           /\ \A k \in 1..Len(s) : (Append(s, e) \o t)[k] = (s \o t)[k]
           /\ \A k \in (Len(s) + 1)..Len(s \o t) :
                (Append(s, e) \o t)[k + 1] = (s \o t)[k]
<1> DEFINE x == Append(s, e)
<1>1. /\ x \in Seq(S) /\ Len(x) = Len(s) + 1 /\ x[Len(s) + 1] = e
      /\ \A k \in 1..Len(s) : x[k] = s[k]
    OBVIOUS
<1> HIDE DEF x
<1>2. /\ Len(s \o t) = Len(s) + Len(t) /\ Len(s) \in Nat /\ Len(t) \in Nat
      /\ \A k \in 1..Len(s) : (s \o t)[k] = s[k]
      /\ \A k \in 1..Len(t) : (s \o t)[Len(s) + k] = t[k]
    BY ConcatFacts
<1>3. /\ Len(x \o t) = Len(x) + Len(t)
      /\ \A k \in 1..Len(x) : (x \o t)[k] = x[k]
      /\ \A k \in 1..Len(t) : (x \o t)[Len(x) + k] = t[k]
    <2>1. x \in Seq(S)
        BY <1>1
    <2>2. Len(x \o t) = Len(x) + Len(t)
        BY <2>1
    <2>3. \A k \in 1..Len(x) : (x \o t)[k] = x[k]
        BY <2>1
    <2>4. \A k \in 1..Len(t) : (x \o t)[Len(x) + k] = t[k]
        BY <2>1
    <2> QED BY <2>2, <2>3, <2>4
<1>4. /\ Len(x \o t) = Len(s \o t) + 1
      /\ Len(s) \in Nat /\ Len(s \o t) \in Nat /\ Len(s) <= Len(s \o t)
    BY <1>1, <1>2, <1>3
<1>5. (x \o t)[Len(s) + 1] = e
    <2>1. Len(s) + 1 \in 1..Len(x)
        BY <1>1, <1>2
    <2> QED BY <1>1, <1>3, <2>1
<1>6. ASSUME NEW k \in 1..Len(s) PROVE (x \o t)[k] = (s \o t)[k]
    <2>1. k \in 1..Len(x)
        BY <1>1, <1>2
    <2> QED BY <1>1, <1>2, <1>3, <2>1
<1>7. ASSUME NEW k \in (Len(s) + 1)..Len(s \o t) PROVE (x \o t)[k + 1] = (s \o t)[k]
    <2> DEFINE j == k - Len(s)
    <2>1. j \in 1..Len(t) /\ k = Len(s) + j /\ k + 1 = Len(x) + j
        BY <1>1, <1>2
    <2> HIDE DEF j
    <2> QED BY <1>2, <1>3, <2>1
<1> QED BY <1>4, <1>5, <1>6, <1>7 DEF x

\* A step that only moves the messages of w, in their order, keeps them in
\* turn: f tells where each was.
LEMMA Moved ==
    ASSUME NEW w, InTurn(w),
           InFlight(w) \subseteq Nat, InFlight(w)' \subseteq Nat,
           NEW f \in [InFlight(w)' -> InFlight(w)],
           \A k, l \in InFlight(w)' : k < l => f[k] < f[l],
           \A j \in InFlight(w) : \E k \in InFlight(w)' : f[k] = j,
           \A k \in InFlight(w)' : Way(w)'[k] = Way(w)[f[k]],
           claims'[w] = claims[w], wpc'[w] = wpc[w], cur'[w] = cur[w]
    PROVE  InTurn(w)'
<1>0. \A k, l \in InFlight(w)' : k <= l <=> f[k] <= f[l]
    OBVIOUS
<1>1. \A k, l \in InFlight(w)' : k < l <=> f[k] < f[l]
    OBVIOUS
<1>2. \A k \in InFlight(w)' : Oldest(w, k)' => Oldest(w, f[k])
    BY <1>0 DEF Oldest
<1>3. \A k \in InFlight(w)' : Newest(w, k)' => Newest(w, f[k])
    BY <1>0 DEF Newest
<1>4. \A k, l \in InFlight(w)' : Adjacent(w, k, l)' => Adjacent(w, f[k], f[l])
    BY <1>0, <1>1 DEF Adjacent
<1>5. InFlight(w)' = {} => InFlight(w) = {}
    OBVIOUS
<1>6. Alternate(w)'
    BY <1>4 DEF InTurn, Alternate
<1>7. NewestTells(w)' /\ OldestTells(w)' /\ NothingTells(w)'
    BY <1>2, <1>3, <1>5 DEF InTurn, NewestTells, OldestTells, NothingTells
<1> QED BY <1>6, <1>7 DEF InTurn

\* Where the messages stay, so does their order.
LEMMA Stayed ==
    ASSUME NEW w, InTurn(w), Way(w)' = Way(w), claims'[w] = claims[w],
           \/ wpc'[w] = wpc[w] /\ cur'[w] = cur[w]
           \/ wpc[w] = "idle" /\ wpc'[w] \in {"got", "exiting"}
           \/ wpc'[w] = "exiting"
    PROVE  InTurn(w)'
<1>1. InFlight(w)' = InFlight(w)
    BY DEF InFlight
<1>2. \A k : (Oldest(w, k)' <=> Oldest(w, k)) /\ (Newest(w, k)' <=> Newest(w, k))
    BY <1>1 DEF Oldest, Newest
<1>3. \A k, l : Adjacent(w, k, l)' <=> Adjacent(w, k, l)
    BY <1>1 DEF Adjacent
<1> QED BY <1>1, <1>2, <1>3
        DEF InTurn, Alternate, NewestTells, OldestTells, NothingTells

\* result_queue.put of w's own message: a claim by a worker that has just
\* got a path, the result by the one that has run it.
LEMMA Appended ==
    ASSUME NEW w, InTurn(w), NEW m, Way(w) \in Seq(Messages),
           Way(w)' = Append(Way(w), m), m.worker = w, m.index = cur[w],
           claims'[w] = claims[w],
           \/ /\ wpc[w] = "got" /\ m.kind = "claim"
              /\ wpc'[w] = "running" /\ cur'[w] = cur[w]
           \/ wpc[w] = "running" /\ m.kind = "result" /\ wpc'[w] = "idle"
    PROVE  InTurn(w)'
<1> DEFINE n == Len(Way(w)) + 1
<1>1. /\ Len(Way(w)) \in Nat /\ Len(Way(w)') = n /\ Way(w)'[n] = m
      /\ \A k \in 1..Len(Way(w)) : Way(w)'[k] = Way(w)[k]
    OBVIOUS
<1>2. InFlight(w)' = InFlight(w) \cup {n}
    BY <1>1 DEF InFlight
<1>3. \A k \in InFlight(w) : k \in Nat /\ k < n /\ Way(w)'[k] = Way(w)[k]
    BY <1>1 DEF InFlight
<1>4. \A k \in InFlight(w)' : Newest(w, k)' => k = n
    BY <1>1, <1>2, <1>3 DEF Newest
<1>5. \A k, l \in InFlight(w)' : Adjacent(w, k, l)' =>
        Adjacent(w, k, l) \/ (l = n /\ Newest(w, k))
    BY <1>1, <1>2, <1>3 DEF Adjacent, Newest
<1>6. \A k \in InFlight(w)' : Oldest(w, k)' =>
        Oldest(w, k) \/ (k = n /\ InFlight(w) = {})
    BY <1>1, <1>2, <1>3 DEF Oldest
<1>7. Alternate(w)'
    <2> SUFFICES ASSUME NEW k \in InFlight(w)', NEW l \in InFlight(w)',
                        Adjacent(w, k, l)'
                 PROVE  (IF Way(w)[k].kind = "claim"
                           THEN /\ Way(w)[l].kind = "result"
                                /\ Way(w)[l].index = Way(w)[k].index
                           ELSE Way(w)[l].kind = "claim")'
        BY DEF Alternate
    <2>1. CASE Adjacent(w, k, l)
        <3>1. k \in InFlight(w) /\ l \in InFlight(w)
            BY <2>1 DEF Adjacent
        <3>2. Way(w)'[k] = Way(w)[k] /\ Way(w)'[l] = Way(w)[l]
            BY <1>3, <3>1
        <3> QED BY <2>1, <3>1, <3>2 DEF InTurn, Alternate
    <2>2. CASE l = n /\ Newest(w, k)
        <3>1. k \in InFlight(w)
            BY <2>2 DEF Newest
        <3>2. Way(w)'[k] = Way(w)[k] /\ Way(w)'[l] = m
            BY <1>1, <1>3, <2>2, <3>1
        <3>3. Way(w)[k].kind \in {"claim", "result"}
            <4>1. Way(w)[k] \in Messages
                BY <3>1 DEF InFlight
            <4> QED BY <4>1 DEF Messages
        <3>4. IF Way(w)[k].kind = "claim"
                THEN \/ wpc[w] = "running" /\ cur[w] = Way(w)[k].index
                     \/ wpc[w] = "exiting"
                ELSE wpc[w] # "running"
            BY <2>2, <3>1 DEF InTurn, NewestTells
        <3> QED BY <3>2, <3>3, <3>4
    <2> QED BY <1>5, <2>1, <2>2
<1>8. NewestTells(w)'
    BY <1>1, <1>4 DEF NewestTells
<1>9. OldestTells(w)'
    <2> SUFFICES ASSUME NEW k \in InFlight(w)', Oldest(w, k)'
                 PROVE  (claims[w] = IF Way(w)[k].kind = "claim" THEN NoPath
                                     ELSE Way(w)[k].index)'
        BY DEF OldestTells
    <2>1. CASE Oldest(w, k)
        BY <1>3, <2>1 DEF Oldest, InTurn, OldestTells
    <2>2. CASE k = n /\ InFlight(w) = {}
        BY <1>1, <2>2 DEF InTurn, NothingTells
    <2> QED BY <1>6, <2>1, <2>2
<1>10. NothingTells(w)'
    BY <1>2 DEF NothingTells
<1> QED BY <1>7, <1>8, <1>9, <1>10 DEF InTurn

\* The monitor takes w's message m and records or pops the claim.
LEMMA Taken ==
    ASSUME NEW w, InTurn(w), Way(w) \in Seq(Messages), Way(w) # <<>>,
           Way(w)' = Tail(Way(w)), Way(w)[1].worker = w,
           claims'[w] = IF Way(w)[1].kind = "claim" THEN Way(w)[1].index ELSE NoPath,
           wpc'[w] = wpc[w], cur'[w] = cur[w]
    PROVE  InTurn(w)'
<1>1. /\ Len(Way(w)) \in Nat /\ Len(Way(w)) >= 1
      /\ Len(Way(w)') = Len(Way(w)) - 1
      /\ \A k \in 1..Len(Way(w)') : Way(w)'[k] = Way(w)[k + 1]
      /\ \A k \in 1..Len(Way(w)) : Way(w)[k] \in Messages
    OBVIOUS
<1>2. \A k \in Nat : k \in InFlight(w)' <=> k >= 1 /\ k + 1 \in InFlight(w)
    BY <1>1 DEF InFlight
<1>3. InFlight(w) \subseteq Nat /\ InFlight(w)' \subseteq Nat /\ 1 \in InFlight(w)
    BY <1>1 DEF InFlight
<1>4. \A k \in InFlight(w) : k = 1 \/ (k >= 2 /\ k - 1 \in InFlight(w)')
    BY <1>1, <1>2 DEF InFlight
<1>5. Oldest(w, 1)
    BY <1>1, <1>3 DEF Oldest, InFlight
<1>6. \A k \in InFlight(w)' : Way(w)'[k] = Way(w)[k + 1]
    BY <1>1 DEF InFlight
<1>7. \A k \in InFlight(w)' : Oldest(w, k)' => Adjacent(w, 1, k + 1)
    <2> SUFFICES ASSUME NEW k \in InFlight(w)', Oldest(w, k)',
                        NEW j \in InFlight(w)
                 PROVE  j <= 1 \/ k + 1 <= j
        BY <1>2, <1>3 DEF Adjacent, InFlight
    <2>1. CASE j - 1 \in InFlight(w)'
        <3>1. k <= j - 1
            BY <2>1 DEF Oldest
        <3> QED BY <1>3, <3>1
    <2> QED BY <1>4, <2>1
<1>8. \A k \in InFlight(w)' : Newest(w, k)' => Newest(w, k + 1)
    <2> SUFFICES ASSUME NEW k \in InFlight(w)', Newest(w, k)',
                        NEW j \in InFlight(w)
                 PROVE  j <= k + 1
        BY <1>2, <1>3 DEF Newest
    <2>1. CASE j - 1 \in InFlight(w)'
        <3>1. j - 1 <= k
            BY <2>1 DEF Newest
        <3> QED BY <1>3, <3>1
    <2> QED BY <1>3, <1>4, <2>1
<1>9. \A k, l \in InFlight(w)' : Adjacent(w, k, l)' => Adjacent(w, k + 1, l + 1)
    <2> SUFFICES ASSUME NEW k \in InFlight(w)', NEW l \in InFlight(w)',
                        Adjacent(w, k, l)', NEW j \in InFlight(w)
                 PROVE  j <= k + 1 \/ l + 1 <= j
        <3>1. \A k, l \in InFlight(w)' : Adjacent(w, k, l)' =>
                 k < l /\ k + 1 < l + 1 /\ k + 1 \in InFlight(w) /\ l + 1 \in InFlight(w)
            BY <1>2, <1>3 DEF Adjacent
        <3> QED BY <3>1 DEF Adjacent
    <2>1. CASE j - 1 \in InFlight(w)'
        <3>1. j - 1 <= k \/ l <= j - 1
            BY <2>1 DEF Adjacent
        <3> QED BY <1>3, <3>1
    <2> QED BY <1>3, <1>4, <2>1
<1>10. InFlight(w)' = {} => Newest(w, 1)
    BY <1>3, <1>4 DEF Newest
<1>11. Alternate(w)'
    <2> SUFFICES ASSUME NEW k \in InFlight(w)', NEW l \in InFlight(w)',
                        Adjacent(w, k, l)'
                 PROVE  (IF Way(w)[k].kind = "claim"
                           THEN /\ Way(w)[l].kind = "result"
                                /\ Way(w)[l].index = Way(w)[k].index
                           ELSE Way(w)[l].kind = "claim")'
        BY DEF Alternate
    <2>1. Adjacent(w, k + 1, l + 1) /\ k + 1 \in InFlight(w) /\ l + 1 \in InFlight(w)
        BY <1>9 DEF Adjacent
    <2>2. Way(w)'[k] = Way(w)[k + 1] /\ Way(w)'[l] = Way(w)[l + 1]
        BY <1>6
    <2> QED BY <2>1, <2>2 DEF InTurn, Alternate
<1>12. NewestTells(w)'
    BY <1>2, <1>3, <1>6, <1>8 DEF InTurn, NewestTells
<1>13. OldestTells(w)'
    <2> SUFFICES ASSUME NEW k \in InFlight(w)', Oldest(w, k)'
                 PROVE  (claims[w] = IF Way(w)[k].kind = "claim" THEN NoPath
                                     ELSE Way(w)[k].index)'
        BY DEF OldestTells
    <2>1. Adjacent(w, 1, k + 1) /\ k + 1 \in InFlight(w)
        BY <1>2, <1>3, <1>7
    <2>2. Way(w)[1].kind \in {"claim", "result"}
        BY <1>1, <1>3 DEF Messages
    <2> QED BY <1>3, <1>6, <2>1, <2>2 DEF InTurn, Alternate
<1>14. NothingTells(w)'
    BY <1>3, <1>10 DEF InTurn, NewestTells, NothingTells
<1> QED BY <1>11, <1>12, <1>13, <1>14 DEF InTurn

LEMMA InTurnInit == Init => InTurnInv
<1> SUFFICES ASSUME Init, NEW w \in Workers PROVE InTurn(w)
    BY DEF InTurnInv
<1>1. Way(w) = <<>> /\ claims[w] = NoPath /\ wpc[w] = "idle"
    BY DEF Init, Way
<1>2. InFlight(w) = {}
    BY <1>1 DEF InFlight
<1> QED BY <1>1, <1>2
        DEF InTurn, Alternate, NewestTells, OldestTells, NothingTells

LEMMA InTurnStep ==
    TypeOK /\ Busy /\ Custody /\ InTurnInv /\ [Next]_vars => InTurnInv'
<1> SUFFICES ASSUME TypeOK, Busy, Custody, InTurnInv, [Next]_vars,
                    NEW w \in Workers, ~Dead(w)'
             PROVE  InTurn(w)'
    BY DEF InTurnInv
<1> USE DEF workerVars, masterVars, shutVars
<1>t. /\ cur \in [Workers -> Paths \cup {NoPath}]
      /\ wpc \in [Workers -> {"idle", "got", "running", "exiting", "dead"}]
      /\ buf \in [Workers -> Seq(Messages)]
      /\ resultQ \in Seq(Messages)
      /\ claims \in [Workers -> Paths \cup {NoPath}]
    BY DEF TypeOK
<1>y. /\ Way(w) \in Seq(Messages) /\ Len(Way(w)) \in Nat
      /\ buf[w] \in Seq(Messages) /\ Len(buf[w]) \in Nat /\ Len(resultQ) \in Nat
      /\ Len(Way(w)) = Len(resultQ) + Len(buf[w])
      /\ \A k \in 1..Len(resultQ) : Way(w)[k] = resultQ[k]
      /\ \A k \in 1..Len(buf[w]) : Way(w)[Len(resultQ) + k] = buf[w][k]
    BY <1>t, ConcatFacts DEF Way
<1>o. \A v \in Workers : \A k \in 1..Len(buf[v]) : buf[v][k].worker = v
    BY DEF Custody, OwnMessages
<1>d. \A v \in Workers : Dead(v) => Dead(v)'
    <2>1. \A v \in Workers : wpc[v] = "dead" => wpc'[v] = "dead"
        BY <1>t DEF Next, vars, SubmitPath, CancelAll, Shutdown, ShutdownStep,
           ShutdownJoined, ShutdownTerminate, ShutdownKill, ShutdownClose,
           WorkerStep, WorkerMain, WorkerGet, WorkerClaim, WorkerResult,
           WorkerExit, FeederFlush, WorkerTerminated, Die, WorkerFault,
           WorkerRaise, WorkerKilled, Monitor, MonitorTop, MonitorClaim,
           MonitorResult, MonitorEmpty, MonitorScan, MonitorFailOutstanding,
           MonitorContinue, Finished
    <2> QED BY <2>1 DEF Dead
<1>l. ~Dead(w) /\ InTurn(w)
    BY <1>d DEF InTurnInv
<1>s. ASSUME resultQ' = resultQ, buf'[w] = buf[w], claims'[w] = claims[w],
             \/ wpc'[w] = wpc[w] /\ cur'[w] = cur[w]
             \/ wpc[w] = "idle" /\ wpc'[w] \in {"got", "exiting"}
             \/ wpc'[w] = "exiting"
      PROVE  InTurn(w)'
    <2>1. Way(w)' = Way(w)
        BY <1>s DEF Way
    <2> QED BY <1>l, <1>s, <2>1, Stayed
<1>1. ASSUME NEW i \in Paths, SubmitPath(i) PROVE InTurn(w)'
    BY <1>s, <1>1 DEF SubmitPath
<1>2. CASE CancelAll
    BY <1>s, <1>2 DEF CancelAll
<1>3. ASSUME NEW wait \in BOOLEAN, Shutdown(wait) PROVE InTurn(w)'
    BY <1>s, <1>3 DEF Shutdown
<1>k. ASSUME NEW v \in Workers,
             wpc' = [wpc EXCEPT ![v] = "dead"],
             cur' = [cur EXCEPT ![v] = NoPath],
             buf' = [buf EXCEPT ![v] = <<>>],
             UNCHANGED <<resultQ, masterVars>>
      PROVE  InTurn(w)'
    <2>1. v # w
        BY <1>t, <1>k DEF Dead
    <2> QED BY <1>s, <1>t, <1>k, <2>1
<1>4. CASE ShutdownStep
    <2>1. CASE ShutdownKill
        BY <1>k, <2>1 DEF ShutdownKill
    <2>2. CASE ShutdownJoined \/ ShutdownTerminate \/ ShutdownClose
        BY <1>s, <2>2 DEF ShutdownJoined, ShutdownTerminate, ShutdownClose
    <2> QED BY <1>4, <2>1, <2>2 DEF ShutdownStep
<1>5. ASSUME NEW v \in Workers, WorkerStep(v) PROVE InTurn(w)'
    <2>1. CASE WorkerGet(v)
        <3>1. /\ resultQ' = resultQ /\ buf' = buf /\ claims' = claims
              /\ \/ wpc'[w] = wpc[w] /\ cur'[w] = cur[w]
                 \/ wpc[w] = "idle" /\ wpc'[w] \in {"got", "exiting"}
            BY <1>t, <2>1 DEF WorkerGet
        <3> QED BY <1>s, <3>1
    <2>2. ASSUME v # w, WorkerClaim(v) \/ WorkerResult(v) PROVE InTurn(w)'
        <3>1. /\ resultQ' = resultQ /\ buf'[w] = buf[w] /\ claims' = claims
              /\ wpc'[w] = wpc[w] /\ cur'[w] = cur[w]
            BY <1>t, <2>2 DEF WorkerClaim, WorkerResult, Put
        <3> QED BY <1>s, <3>1
    <2>3. ASSUME NEW kind, Put(w, kind), resultQ' = resultQ, claims' = claims,
                 \/ /\ wpc[w] = "got" /\ kind = "claim"
                    /\ wpc'[w] = "running" /\ cur'[w] = cur[w]
                 \/ wpc[w] = "running" /\ kind = "result" /\ wpc'[w] = "idle",
                 cur[w] \in Paths
          PROVE  InTurn(w)'
        <3> DEFINE m == [kind |-> kind, index |-> cur[w], worker |-> w]
        <3>1. m \in Messages
            BY <2>3 DEF Messages
        <3>2. buf'[w] = Append(buf[w], m)
            BY <1>t, <2>3 DEF Put
        <3>3. Way(w)' = Append(Way(w), m)
            <4>1. resultQ \o Append(buf[w], m) = Append(resultQ \o buf[w], m)
                BY <1>t, <1>y, <3>1
            <4> QED BY <2>3, <3>2, <4>1 DEF Way
        <3>4. m.worker = w /\ m.index = cur[w] /\ m.kind = kind
            OBVIOUS
        <3> HIDE DEF m
        <3> QED BY <1>l, <1>y, <2>3, <3>3, <3>4, Appended
    <2>4. wpc[w] \in {"got", "running"} => cur[w] \in Paths
        BY <1>t DEF Busy
    <2>5. CASE v = w /\ WorkerClaim(v)
        BY <1>t, <2>3, <2>4, <2>5 DEF WorkerClaim
    <2>6. CASE v = w /\ WorkerResult(v)
        BY <1>t, <2>3, <2>4, <2>6 DEF WorkerResult
    <2>7. CASE WorkerExit(v)
        <3>1. v # w
            BY <1>t, <2>7 DEF WorkerExit, Dead
        <3> QED BY <1>s, <1>t, <2>7, <3>1 DEF WorkerExit
    <2>8. CASE WorkerTerminated(v)
        BY <1>k, <2>8 DEF WorkerTerminated, Die
    <2>9. CASE FeederFlush(v)
        <3>1. /\ buf[v] \in Seq(Messages) /\ buf[v] # <<>>
              /\ resultQ' = Append(resultQ, Head(buf[v]))
              /\ buf' = [buf EXCEPT ![v] = Tail(buf[v])]
              /\ claims' = claims /\ wpc' = wpc /\ cur' = cur
            BY <1>t, <2>9 DEF FeederFlush
        <3>2. /\ Head(buf[v]) \in Messages /\ Head(buf[v]).worker = v
              /\ Tail(buf[v]) \in Seq(Messages)
            <4>1. Head(buf[v]) = buf[v][1] /\ 1 \in 1..Len(buf[v])
                BY <3>1
            <4> QED BY <1>o, <3>1, <4>1
        <3>3. CASE v = w
            <4>1. Append(resultQ, Head(buf[w])) \o Tail(buf[w]) = resultQ \o buf[w]
                BY <1>t, <3>1, <3>2, <3>3
            <4>2. Way(w)' = Way(w)
                BY <1>t, <3>1, <3>3, <4>1 DEF Way
            <4> QED BY <1>l, <3>1, <4>2, Stayed
        <3>4. CASE v # w
            <4> DEFINE q == Len(resultQ)
                       n == Len(Way(w))
                       f == [k \in InFlight(w)' |-> IF k <= q THEN k ELSE k - 1]
            <4>1. Way(w)' = Append(resultQ, Head(buf[v])) \o buf[w]
                BY <1>t, <3>1, <3>4 DEF Way
            <4>2. /\ Len(Way(w)') = n + 1 /\ q \in Nat /\ n \in Nat /\ q <= n
                  /\ Way(w)'[q + 1] = Head(buf[v])
                  /\ \A k \in 1..q : Way(w)'[k] = Way(w)[k]
                  /\ \A k \in (q + 1)..n : Way(w)'[k + 1] = Way(w)[k]
                <5>1. /\ resultQ \in Seq(Messages) /\ buf[w] \in Seq(Messages)
                      /\ Head(buf[v]) \in Messages
                    BY <1>t, <1>y, <3>2
                <5>2. Way(w) = resultQ \o buf[w]
                    BY DEF Way
                <5> DEFINE e == Head(buf[v])
                           s == resultQ
                           t == buf[w]
                <5> HIDE DEF e, s, t
                <5>3. /\ Len(Append(s, e) \o t) = Len(s \o t) + 1
                      /\ Len(s) \in Nat /\ Len(s \o t) \in Nat /\ Len(s) <= Len(s \o t)
                      /\ (Append(s, e) \o t)[Len(s) + 1] = e
                      /\ \A k \in 1..Len(s) : (Append(s, e) \o t)[k] = (s \o t)[k]
                      /\ \A k \in (Len(s) + 1)..Len(s \o t) :
                           (Append(s, e) \o t)[k + 1] = (s \o t)[k]
                    <6>1. s \in Seq(Messages) /\ t \in Seq(Messages) /\ e \in Messages
                        BY <5>1 DEF s, t, e
                    <6> QED BY <6>1, InsertFacts
                <5>4. Way(w)' = Append(s, e) \o t /\ Way(w) = s \o t /\ q = Len(s)
                      /\ n = Len(s \o t) /\ Head(buf[v]) = e
                    BY <4>1, <5>2 DEF s, t, e
                <5> HIDE DEF q, n
                <5> QED BY <5>3, <5>4, Zenon
            <4> HIDE DEF q, n
            <4>3. \A k : k \in InFlight(w) <=> k \in 1..n /\ Way(w)[k].worker = w
                BY DEF InFlight, n
            <4>4. \A k : k \in InFlight(w)' <=> k \in 1..(n + 1) /\ Way(w)'[k].worker = w
                BY <4>2 DEF InFlight
            <4>5. \A k \in InFlight(w)' :
                    IF k <= q THEN k \in InFlight(w) /\ Way(w)'[k] = Way(w)[k]
                    ELSE k > q + 1 /\ k - 1 \in InFlight(w) /\ Way(w)'[k] = Way(w)[k - 1]
                <5> SUFFICES ASSUME NEW k \in InFlight(w)'
                             PROVE  IF k <= q
                                    THEN k \in InFlight(w) /\ Way(w)'[k] = Way(w)[k]
                                    ELSE /\ k > q + 1 /\ k - 1 \in InFlight(w)
                                         /\ Way(w)'[k] = Way(w)[k - 1]
                    OBVIOUS
                <5>1. k \in 1..(n + 1) /\ k # q + 1 /\ Way(w)'[k].worker = w
                    BY <3>2, <3>4, <4>2, <4>4
                <5>2. CASE k <= q
                    <6>1. k \in 1..q /\ k \in 1..n
                        BY <4>2, <5>1, <5>2
                    <6> QED BY <4>2, <4>3, <5>1, <5>2, <6>1
                <5>3. CASE k > q
                    <6> DEFINE j == k - 1
                    <6>1. j \in (q + 1)..n /\ k = j + 1 /\ j \in 1..n /\ k > q + 1
                        BY <4>2, <5>1, <5>3
                    <6> HIDE DEF j
                    <6>2. Way(w)'[k] = Way(w)[j] /\ j = k - 1
                        BY <4>2, <6>1
                    <6> QED BY <4>2, <4>3, <5>1, <5>3, <6>1, <6>2
                <5> QED BY <4>2, <5>1, <5>2, <5>3
            <4>6. \A j \in InFlight(w) :
                    IF j <= q THEN j \in InFlight(w)' ELSE j + 1 \in InFlight(w)'
                <5> SUFFICES ASSUME NEW j \in InFlight(w)
                             PROVE  IF j <= q THEN j \in InFlight(w)'
                                    ELSE j + 1 \in InFlight(w)'
                    OBVIOUS
                <5>1. j \in 1..n /\ Way(w)[j].worker = w
                    BY <4>3
                <5>2. CASE j <= q
                    <6>1. j \in 1..q /\ j \in 1..(n + 1)
                        BY <4>2, <5>1, <5>2
                    <6> QED BY <4>2, <4>4, <5>1, <5>2, <6>1
                <5>3. CASE j > q
                    <6>1. j \in (q + 1)..n /\ j + 1 \in 1..(n + 1) /\ ~(j <= q)
                        BY <4>2, <5>1, <5>3
                    <6> QED BY <4>2, <4>4, <5>1, <6>1
                <5> QED BY <4>2, <5>1, <5>2, <5>3
            <4>7. InFlight(w) \subseteq Nat /\ InFlight(w)' \subseteq Nat
                BY <4>2, <4>3, <4>4
            <4>q. q \in Nat
                BY <4>2
            <4>8. f \in [InFlight(w)' -> InFlight(w)]
                BY <4>5
            <4>9. \A k, l \in InFlight(w)' : k < l => f[k] < f[l]
                BY <4>q, <4>5, <4>7
            <4>10. \A j \in InFlight(w) : \E k \in InFlight(w)' : f[k] = j
                <5> SUFFICES ASSUME NEW j \in InFlight(w)
                             PROVE  \E k \in InFlight(w)' : f[k] = j
                    OBVIOUS
                <5>1. CASE j <= q
                    BY <4>6, <5>1
                <5>2. CASE j > q
                    <6>1. j + 1 \in InFlight(w)' /\ f[j + 1] = j
                        BY <4>q, <4>6, <4>7, <5>2
                    <6> QED BY <6>1
                <5> QED BY <4>q, <4>7, <5>1, <5>2
            <4>11. \A k \in InFlight(w)' : Way(w)'[k] = Way(w)[f[k]]
                BY <4>5
            <4> HIDE DEF f
            <4> QED BY <1>l, <3>1, <4>7, <4>8, <4>9, <4>10, <4>11, Moved
        <3> QED BY <3>3, <3>4
    <2> QED BY <1>5, <2>1, <2>2, <2>5, <2>6, <2>7, <2>8, <2>9
            DEF WorkerStep, WorkerMain
<1>6. ASSUME NEW v \in Workers, WorkerFault(v) PROVE InTurn(w)'
    <2>1. CASE WorkerRaise(v)
        <3>1. /\ resultQ' = resultQ /\ buf' = buf /\ claims' = claims
              /\ (wpc'[w] = wpc[w] /\ cur'[w] = cur[w]) \/ wpc'[w] = "exiting"
            BY <1>t, <2>1 DEF WorkerRaise
        <3> QED BY <1>s, <3>1
    <2>2. CASE WorkerKilled(v)
        BY <1>k, <2>2 DEF WorkerKilled, Die
    <2> QED BY <1>6, <2>1, <2>2 DEF WorkerFault
<1>7. CASE Monitor
    <2>1. CASE MonitorTop \/ MonitorEmpty \/ MonitorContinue
        BY <1>s, <2>1 DEF MonitorTop, MonitorEmpty, MonitorContinue
    <2>2. CASE MonitorScan
        <3>1. claims'[w] = claims[w]
            BY <1>t, <1>l, <2>2 DEF MonitorScan
        <3> QED BY <1>s, <2>2, <3>1 DEF MonitorScan
    <2>3. CASE MonitorFailOutstanding
        BY <1>l, <2>3 DEF MonitorFailOutstanding, AllWorkersDead
    <2>4. ASSUME resultQ # <<>>, resultQ' = Tail(resultQ), buf' = buf,
                 wpc' = wpc, cur' = cur,
                 claims' = [claims EXCEPT ![resultQ[1].worker] =
                    IF resultQ[1].kind = "claim" THEN resultQ[1].index ELSE NoPath]
          PROVE  InTurn(w)'
        <3>1. /\ Len(resultQ) >= 1 /\ resultQ[1] \in Messages
              /\ Tail(resultQ) \in Seq(Messages)
            BY <1>t, <2>4
        <3>2. /\ Way(w) # <<>> /\ Way(w)[1] = resultQ[1]
              /\ Way(w)' = Tail(Way(w))
            <4>1. Tail(resultQ) \o buf[w] = Tail(resultQ \o buf[w])
                BY <1>t, <1>y, <2>4
            <4>2. Len(Way(w)) >= 1
                BY <1>y, <3>1
            <4>3. Way(w)[1] = resultQ[1]
                BY <1>y, <3>1
            <4> QED BY <1>y, <2>4, <4>1, <4>2, <4>3 DEF Way
        <3>3. CASE resultQ[1].worker = w
            <4>1. claims'[w] = IF Way(w)[1].kind = "claim" THEN Way(w)[1].index ELSE NoPath
                BY <1>t, <2>4, <3>2, <3>3
            <4> QED BY <1>l, <1>y, <2>4, <3>2, <3>3, <4>1, Taken
        <3>4. CASE resultQ[1].worker # w
            <4> DEFINE f == [k \in InFlight(w)' |-> k + 1]
            <4>0. /\ Len(Way(w)) >= 1 /\ Len(Way(w)') = Len(Way(w)) - 1
                  /\ \A k \in 1..Len(Way(w)') : Way(w)'[k] = Way(w)[k + 1]
                BY <1>y, <3>2
            <4>1. InFlight(w) \subseteq Nat /\ InFlight(w)' \subseteq Nat
                BY <1>y, <4>0 DEF InFlight
            <4>2. \A k \in InFlight(w)' :
                    k + 1 \in InFlight(w) /\ Way(w)'[k] = Way(w)[k + 1]
                BY <1>y, <4>0 DEF InFlight
            <4>3. \A j \in InFlight(w) : j - 1 \in InFlight(w)'
                <5> SUFFICES ASSUME NEW j \in InFlight(w) PROVE j - 1 \in InFlight(w)'
                    OBVIOUS
                <5>1. j \in 1..Len(Way(w)) /\ j # 1 /\ Way(w)[j].worker = w
                    BY <3>2, <3>4 DEF InFlight
                <5>2. j - 1 \in 1..Len(Way(w)') /\ (j - 1) + 1 = j
                    BY <1>y, <4>0, <5>1
                <5> QED BY <4>0, <5>1, <5>2 DEF InFlight
            <4>4. f \in [InFlight(w)' -> InFlight(w)]
                BY <4>2
            <4>5. \A k, l \in InFlight(w)' : k < l => f[k] < f[l]
                BY <4>1
            <4>6. \A j \in InFlight(w) : \E k \in InFlight(w)' : f[k] = j
                BY <4>1, <4>3
            <4>7. \A k \in InFlight(w)' : Way(w)'[k] = Way(w)[f[k]]
                BY <4>2
            <4>8. claims'[w] = claims[w]
                BY <1>t, <2>4, <3>4
            <4> HIDE DEF f
            <4> QED BY <1>l, <2>4, <4>1, <4>4, <4>5, <4>6, <4>7, <4>8, Moved
        <3> QED BY <3>3, <3>4
    <2>5. resultQ # <<>> => Head(resultQ) = resultQ[1]
        BY <1>t
    <2>6. CASE MonitorClaim
        BY <2>4, <2>5, <2>6 DEF MonitorClaim
    <2>7. CASE MonitorResult
        BY <2>4, <2>5, <2>7 DEF MonitorResult
    <2> QED BY <1>7, <2>1, <2>2, <2>3, <2>6, <2>7 DEF Monitor
<1>8. CASE Finished \/ UNCHANGED vars
    BY <1>s, <1>8 DEF Finished, vars
<1> QED BY <1>1, <1>2, <1>3, <1>4, <1>5, <1>6, <1>7, <1>8 DEF Next

\* A worker holds at most one in-flight claim, which is what lets
\* _monitor_loop pop it by worker id: the claim on record for a live worker
\* is the path it runs, or the matching result is its next message.
THEOREM PoolClaimIsCurrent == Spec => []ClaimIsCurrent
<1>1. Init => TypeOK /\ Busy /\ Custody /\ InTurnInv
    BY TypeInit, CustodyInit, InTurnInit
<1>2. TypeOK /\ Busy /\ Custody /\ InTurnInv /\ [Next]_vars
        => (TypeOK /\ Busy /\ Custody /\ InTurnInv)'
    BY TypeStep, CustodyStep, InTurnStep
<1>3. TypeOK /\ Busy /\ InTurnInv => ClaimIsCurrent
    <2> SUFFICES ASSUME TypeOK, Busy, InTurnInv, NEW w \in Workers,
                        ~Dead(w), claims[w] # NoPath
                 PROVE  /\ InFlight(w) = {} => wpc[w] = "exiting" \/ cur[w] = claims[w]
                        /\ \A k \in InFlight(w) : Oldest(w, k) =>
                             Way(w)[k].kind = "result" /\ Way(w)[k].index = claims[w]
        BY DEF ClaimIsCurrent
    <2>1. InTurn(w) /\ wpc[w] \in {"idle", "got", "running", "exiting", "dead"}
        BY DEF InTurnInv, TypeOK
    <2>2. InFlight(w) = {} => wpc[w] = "exiting" \/ cur[w] = claims[w]
        BY <2>1 DEF InTurn, NothingTells, Dead
    <2>3. Way(w) \in Seq(Messages)
        BY ConcatFacts DEF TypeOK, Way
    <2>4. \A k \in InFlight(w) : Way(w)[k].kind \in {"claim", "result"}
        <3>1. \A k \in InFlight(w) : Way(w)[k] \in Messages
            BY <2>3 DEF InFlight
        <3> QED BY <3>1 DEF Messages
    <2>5. \A k \in InFlight(w) : Oldest(w, k) =>
             Way(w)[k].kind = "result" /\ Way(w)[k].index = claims[w]
        BY <2>1, <2>4 DEF InTurn, OldestTells
    <2> QED BY <2>2, <2>5
<1> QED BY <1>1, <1>2, <1>3, PTL DEF Spec

(***************************************************************************)
(* The pool implements PathPool: a future changes only from unsubmitted to *)
(* pending, in submit_path, and from pending to an outcome.                *)
(***************************************************************************)
\* The futures S, all pending, are set by this step, and nothing else is.
Sets(S) ==
    /\ S \subseteq Paths /\ \A i \in S : fut[i] = "pending"
    /\ \A i \in S : fut'[i] \in {"result", "worker_crashed"}
    /\ \A i \in Paths \ S : fut'[i] = fut[i]

LEMMA SetsRefines ==
    ASSUME TypeOK, TypeOK', NEW S, Sets(S), shut' = shut
    PROVE  [Pool!Next]_(Pool!vars)
<1> USE DEF Sets
<1>0. fut \in [Paths -> {"unsubmitted", "pending", "result", "worker_crashed"}]
      /\ fut' \in [Paths -> {"unsubmitted", "pending", "result", "worker_crashed"}]
    BY DEF TypeOK
<1>1. CASE S = {}
  <2>1. fut' = fut
      BY <1>0, <1>1
  <2> QED BY <2>1 DEF Pool!vars
<1>2. CASE S # {}
  <2> DEFINE out == [i \in S |-> fut'[i]]
  <2>1. out \in [S -> {"result", "worker_crashed"}]
      OBVIOUS
  <2>2. fut' = [i \in Paths |-> IF i \in S THEN out[i] ELSE fut[i]]
      BY <1>0
  <2>3. Pool!Resolve(S)
      BY <1>2, <2>1, <2>2 DEF Pool!Resolve, Pool!Paths, Paths
  <2> QED BY <2>3 DEF Pool!Next, Pool!Paths, Paths
<1> QED BY <1>1, <1>2

LEMMA PoolStep ==
    TypeOK /\ TypeOK' /\ [Next]_vars => [Pool!Next]_(Pool!vars)
<1> SUFFICES ASSUME TypeOK, TypeOK', [Next]_vars PROVE [Pool!Next]_(Pool!vars)
    OBVIOUS
<1> USE DEF workerVars, masterVars, shutVars
<1>s. ASSUME fut' = fut, shut' = shut PROVE [Pool!Next]_(Pool!vars)
    BY <1>s DEF Pool!vars
<1>t. fut \in [Paths -> {"unsubmitted", "pending", "result", "worker_crashed"}]
    BY DEF TypeOK
<1>1. ASSUME NEW i \in Paths, SubmitPath(i) PROVE [Pool!Next]_(Pool!vars)
  <2>1. Pool!Submit(i)
      BY <1>1 DEF SubmitPath, Pool!Submit
  <2> QED BY <2>1 DEF Pool!Next, Pool!Paths, Paths
<1>2. ASSUME NEW wait \in BOOLEAN, Shutdown(wait) PROVE [Pool!Next]_(Pool!vars)
  <2>1. shut = "no" /\ shut' # "no" /\ fut' = fut
      BY <1>2 DEF Shutdown
  <2>2. Pool!Close
      BY <2>1 DEF Pool!Close
  <2> QED BY <2>2 DEF Pool!Next
<1>3. CASE ShutdownClose
  <2>1. shut # "no" /\ shut' # "no" /\ fut' = fut
      BY <1>3 DEF ShutdownClose
  <2> QED BY <2>1 DEF Pool!vars
<1>4. CASE MonitorResult
  <2> DEFINE i == Head(resultQ).index
             S == {j \in {i} : fut[j] = "pending"}
  <2>1. i \in Paths
    <3>1. Head(resultQ) \in Messages
        BY <1>4 DEF MonitorResult, TypeOK
    <3> QED BY <3>1 DEF Messages
  <2>2. Sets(S) /\ shut' = shut
      BY <1>t, <1>4, <2>1 DEF MonitorResult, Sets
  <2> QED BY <2>2, SetsRefines
<1>5. CASE MonitorScan
  <2> DEFINE S == {j \in Paths : fut'[j] # fut[j]}
  <2>1. Sets(S) /\ shut' = shut
      BY <1>t, <1>5 DEF MonitorScan, Sets
  <2> QED BY <2>1, SetsRefines
<1>6. CASE MonitorFailOutstanding
  <2> DEFINE S == {j \in Paths : fut[j] = "pending"}
  <2>1. Sets(S) /\ shut' = shut
      BY <1>t, <1>6 DEF MonitorFailOutstanding, Sets
  <2> QED BY <2>1, SetsRefines
<1>7. CASE CancelAll \/ ShutdownJoined \/ ShutdownTerminate \/ ShutdownKill
    BY <1>s, <1>7 DEF CancelAll, ShutdownJoined, ShutdownTerminate, ShutdownKill
<1>8. ASSUME NEW w \in Workers, WorkerStep(w) \/ WorkerFault(w)
      PROVE  [Pool!Next]_(Pool!vars)
    BY <1>s, <1>8 DEF WorkerStep, WorkerMain, WorkerGet, WorkerClaim,
       WorkerResult, WorkerExit, FeederFlush, WorkerTerminated, Die,
       WorkerFault, WorkerRaise, WorkerKilled
<1>9. CASE MonitorTop \/ MonitorClaim \/ MonitorEmpty \/ MonitorContinue
    BY <1>s, <1>9 DEF MonitorTop, MonitorClaim, MonitorEmpty, MonitorContinue
<1>10. CASE Finished \/ UNCHANGED vars
    BY <1>s, <1>10 DEF Finished, vars
<1> QED BY <1>1, <1>2, <1>3, <1>4, <1>5, <1>6, <1>7, <1>8, <1>9, <1>10
        DEF Next, ShutdownStep, Monitor

\* LocalSubprocessPool keeps the promise of the WorkerPool protocol: every
\* future is submitted once and set at most once, whatever workers die and
\* however late their answers come.
THEOREM PoolImplementsPathPool == Spec => ImplementsPathPool
<1>1. Init => Pool!Init
    BY DEF Init, Pool!Init, Pool!Paths, Paths
<1>2. Spec => []TypeOK
    BY TypeCorrect
<1> QED BY <1>1, <1>2, PoolStep, PTL DEF Spec, ImplementsPathPool, Pool!Spec

=============================================================================
