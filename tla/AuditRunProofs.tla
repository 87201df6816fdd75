--------------------------- MODULE AuditRunProofs ---------------------------
(***************************************************************************)
(* Proofs about AuditRun, for any plan, window, number of resumes and      *)
(* number of refused transactions.                                         *)
(***************************************************************************)
EXTENDS AuditRun, TLAPS

USE DEF memory, database, history

LEMMA PathFacts ==
    /\ Paths \subseteq Nat /\ 0 \notin Paths
    /\ \A p \in Paths : 1 <= p /\ p <= PathCount
    /\ \A n \in 0..PathCount : n < PathCount => n + 1 \in Paths
    /\ Nothing \in [Paths -> Entries] /\ \A p \in Paths : Nothing[p] = "none"
    /\ PathCount \in Nat /\ Window \in Nat
BY PathCountAssumption, WindowAssumption DEF Paths, Nothing, Entries

(***************************************************************************)
(* Typing.  The window is the tail of what was taken from the streamer:    *)
(* Base paths have been reaped, and Base + 1 .. taken are in flight, in    *)
(* this order.                                                             *)
(***************************************************************************)
Base == taken - Len(window)

Contiguous ==
    /\ Base \in Nat
    /\ \A i \in 1..Len(window) : window[i] = Base + i
    /\ pc = "reap" => Len(window) > 0

\* Between two executions there is no memory.
Resting ==
    pc = "off" =>
        /\ taken = 0 /\ window = <<>> /\ fut = Nothing /\ shared = Nothing
        /\ completed = {} /\ findings = <<>> /\ prior = Nothing
        /\ inline = FALSE /\ interrupted = FALSE /\ flushed = FALSE
        /\ attached = FALSE

Typed == TypeOK /\ Contiguous /\ Resting

\* What taking a path and dropping the oldest do to a sequence.
LEMMA AppendFacts ==
    ASSUME NEW S, NEW s \in Seq(S), NEW e \in S
    PROVE  /\ Append(s, e) \in Seq(S) /\ Len(Append(s, e)) = Len(s) + 1
           /\ \A i \in 1..Len(s) : Append(s, e)[i] = s[i]
           /\ Append(s, e)[Len(s) + 1] = e
OBVIOUS

LEMMA TailFacts ==
    ASSUME NEW S, NEW s \in Seq(S), Len(s) > 0
    PROVE  /\ Head(s) \in S /\ Head(s) = s[1]
           /\ Tail(s) \in Seq(S) /\ Len(Tail(s)) = Len(s) - 1
           /\ \A i \in 1..Len(Tail(s)) : Tail(s)[i] = s[i + 1]
OBVIOUS

LEMMA TypeInit == Init => Typed
<1> SUFFICES ASSUME Init PROVE Typed
    OBVIOUS
<1>1. inline \in BOOLEAN /\ interrupted \in BOOLEAN /\ flushed \in BOOLEAN
      /\ resumable \in BOOLEAN /\ attached \in BOOLEAN
    BY DEF Init
<1>2. window \in Seq(Paths) /\ findings \in Seq(Paths) /\ Len(window) = 0
    BY DEF Init
<1>3. fut \in [Paths -> Outcomes \cup {"none", "resumed", "pending", "crashed",
                                       "raised", "interrupt"}]
    BY DEF Init, Nothing
<1>4. 0 \in 0..MaxExecutions /\ 0 \in 0..MaxLost
    BY BoundsAssumption
<1> QED BY <1>1, <1>2, <1>3, <1>4, PathFacts
        DEF Init, Typed, TypeOK, Contiguous, Resting, Base

\* The memory of an execution that is over is that of none.
Dropped ==
    /\ pc' = "off"
    /\ inline' = FALSE /\ taken' = 0 /\ window' = <<>> /\ fut' = Nothing
    /\ shared' = Nothing /\ completed' = {} /\ findings' = <<>>
    /\ prior' = Nothing /\ interrupted' = FALSE /\ flushed' = FALSE
    /\ attached' = FALSE

Kept ==
    UNCHANGED <<inline, taken, window, fut, shared, completed, findings, prior,
                interrupted, attached>>

\* What a step of the report's persistence may do: the execution's memory
\* stays or is dropped, and the database takes over what is in memory.
Persisted ==
    /\ (Kept /\ flushed' \in BOOLEAN /\ pc' # "off") \/ Dropped
    /\ UNCHANGED <<audited, executions>> /\ lost' \in 0..MaxLost
    /\ status' \in {status, "completed", "failed", "cancelled"}
    /\ resumable' \in BOOLEAN
    /\ \/ resumeState' = resumeState
       \/ resumeState' = shared
       \/ resumeState' = Nothing /\ pc = "clear"
    /\ rows' = rows \/ \E ns \in SUBSET Numbers : Upsert(ns)
    /\ \/ pc = "emit" /\ pc' = "save"
       \/ pc = "save" /\ pc' = "topup"
       \/ pc \in Completing \cup {"drain"} /\ pc' \in Completing
       \/ pc' \in {"off", "cancelemit", "cancelsave", "cancelresume",
                   "cancelfail", "aborting"}
    /\ pc # "off"

LEMMA GotoKeeps ==
    ASSUME NEW l, Goto(l)
    PROVE  pc' = l /\ ((Kept /\ flushed' = flushed /\ l # "off") \/ (l = "off" /\ Dropped))
BY DEF Goto, Kept, Dropped

LEMMA PersistenceStep == ASSUME TypeOK, Persistence PROVE Persisted
<1> USE BoundsAssumption
    DEF TypeOK, Persisted, Kept, Write, Completing, SyncFindings, UpsertSettled,
        SaveShared, ClearShared, SetStatus, Finalize
<1>0. \A l : Goto(l) => pc' = l /\ ((Kept /\ flushed' = flushed /\ l # "off") \/ (l = "off" /\ Dropped))
    BY GotoKeeps
<1>1. CASE EmitSnapshot
    BY <1>0, <1>1 DEF EmitSnapshot
<1>2. CASE SaveResumeState
  <2>1. resumable' \in BOOLEAN
      BY <1>2 DEF SaveResumeState
  <2>2. lost' \in 0..MaxLost
      BY <1>2 DEF SaveResumeState
  <2> QED BY <1>0, <1>2, <2>1, <2>2 DEF SaveResumeState
<1>3. CASE CoderDrain
    BY <1>0, <1>3 DEF CoderDrain
<1>15. CASE Abort
    BY <1>0, <1>15 DEF Abort
<1>4. CASE Reconcile
    BY <1>0, <1>4 DEF Reconcile
<1>5. CASE Persist
    BY <1>0, <1>5 DEF Persist
<1>6. CASE FinalSnapshot
    BY <1>0, <1>6 DEF FinalSnapshot
<1>7. CASE ClearResumeState
  <2>1. resumable' \in BOOLEAN
      BY <1>7 DEF ClearResumeState
  <2>2. lost' \in 0..MaxLost
      BY <1>7 DEF ClearResumeState
  <2> QED BY <1>0, <1>7, <2>1, <2>2 DEF ClearResumeState
<1>8. CASE CloseRun
    BY <1>0, <1>8 DEF CloseRun
<1>9. CASE FailRun
    BY <1>0, <1>9 DEF FailRun
<1>10. CASE OnCancel
  <2>1. flushed' \in BOOLEAN
      BY <1>10 DEF OnCancel, RowThere
  <2> QED BY <1>0, <1>10, <2>1 DEF OnCancel
<1>11. CASE CancelSnapshot
    BY <1>0, <1>11 DEF CancelSnapshot
<1>12. CASE CancelSave
  <2>1. resumable' \in BOOLEAN
      BY <1>12 DEF CancelSave
  <2>2. lost' \in 0..MaxLost
      BY <1>12 DEF CancelSave
  <2> QED BY <1>0, <1>12, <2>1, <2>2 DEF CancelSave
<1>13. CASE CancelResume
  <2>1. resumable' \in BOOLEAN
      BY <1>13 DEF CancelResume
  <2>2. lost' \in 0..MaxLost
      BY <1>13 DEF CancelResume
  <2> QED BY <1>0, <1>13, <2>1, <2>2 DEF CancelResume
<1>14. CASE CancelFail
    BY <1>0, <1>14 DEF CancelFail
<1> QED BY <1>1, <1>2, <1>3, <1>4, <1>5, <1>6, <1>7, <1>8, <1>9, <1>10, <1>11,
           <1>12, <1>13, <1>14, <1>15 DEF Persistence

\* The start of an execution, or the run_audit that ends in its first event.
Started ==
    /\ pc = "off" /\ executions' = executions + 1 /\ executions < MaxExecutions
    /\ lost' \in 0..MaxLost /\ status' \in {status, "in_progress"}
    /\ UNCHANGED <<taken, window, fut, shared, completed, findings, interrupted,
                   flushed, resumeState, resumable, rows, audited>>
    /\ \/ /\ pc' = "topup" /\ inline' \in BOOLEAN /\ attached' \in BOOLEAN
          /\ prior' \in {Nothing, resumeState}
       \/ pc' = "off" /\ UNCHANGED <<inline, attached, prior>>

LEMMA RunAuditStep ==
    ASSUME TypeOK, RunAudit
    PROVE  Started /\ executions = 0 /\ prior' \in {Nothing, prior}
<1>0. lost \in 0..MaxLost /\ MaxLost \in Nat
    BY BoundsAssumption DEF TypeOK
<1>1. lost' \in 0..MaxLost
  <2>1. UNCHANGED lost \/ OpenRefused
      BY DEF RunAudit
  <2> QED BY <1>0, <2>1 DEF OpenRefused
<1>2. executions = 0 /\ pc = "off"
    BY DEF RunAudit
<1>3. CASE Begin(Nothing, "in_progress", TRUE)
    BY <1>1, <1>2, <1>3 DEF Begin, Started
<1>4. CASE Begin(Nothing, status, FALSE)
    BY <1>1, <1>2, <1>4 DEF Begin, Started
<1>5. CASE executions < MaxExecutions /\ executions' = executions + 1
           /\ UNCHANGED <<pc, memory, database, audited>>
    BY <1>1, <1>2, <1>5 DEF Started
<1> QED BY <1>3, <1>4, <1>5 DEF RunAudit

LEMMA ResumeAuditStep == ASSUME TypeOK, ResumeAudit PROVE Started
<1>0. lost \in 0..MaxLost /\ MaxLost \in Nat
    BY BoundsAssumption DEF TypeOK
<1>1. lost' \in 0..MaxLost
  <2>1. UNCHANGED lost \/ OpenRefused
      BY DEF ResumeAudit
  <2> QED BY <1>0, <2>1 DEF OpenRefused
<1>2. pc = "off"
    BY DEF ResumeAudit
<1>3. CASE Begin(resumeState, "in_progress", TRUE)
    BY <1>1, <1>2, <1>3 DEF Begin, Started
<1>4. CASE \E at \in BOOLEAN : Begin(resumeState, status, at)
    BY <1>1, <1>2, <1>4 DEF Begin, Started
<1> QED BY <1>3, <1>4 DEF ResumeAudit

\* The environment and the start of an execution leave the loop's state alone.
LEMMA TypeStep == ASSUME Typed, [Next]_vars PROVE Typed'
<1> USE PathFacts, BoundsAssumption DEF Typed
<1>1. CASE RunAudit \/ ResumeAudit
  <2>1. Started
      BY <1>1, RunAuditStep, ResumeAuditStep
  <2>2. /\ inline' \in BOOLEAN /\ attached' \in BOOLEAN
        /\ pc' \in {"topup", "off"}
        /\ prior' \in [Paths -> Entries]
      BY <2>1 DEF Started, TypeOK
  <2>3. executions' \in 0..MaxExecutions
      BY <2>1 DEF Started, TypeOK
  <2>4. TypeOK'
      BY <2>1, <2>2, <2>3 DEF Started, TypeOK, Looping
  <2>5. Contiguous'
      BY <2>1, <2>2 DEF Started, Contiguous, Base
  <2> QED BY <2>1, <2>4, <2>5 DEF Started, Resting
<1>2. CASE TopUpResumed \/ TopUpSubmit
           \/ \E o \in Outcomes \cup {"raised", "interrupt"} : TopUpInline(o)
  <2>1. TakeNext /\ taken + 1 \in Paths /\ taken \in Nat
        /\ window \in Seq(Paths) /\ Len(window) \in Nat
      BY <1>2 DEF TopUpResumed, TopUpSubmit, TopUpInline, TakeNext, CanTopUp,
                  TypeOK
  <2>2. /\ window' \in Seq(Paths) /\ Len(window') = Len(window) + 1
        /\ \A i \in 1..Len(window) : window'[i] = window[i]
        /\ window'[Len(window) + 1] = taken + 1
      BY <2>1, AppendFacts DEF TakeNext
  <2>3. taken' \in 0..PathCount /\ Len(window') <= Window
      BY <2>1, <2>2 DEF TakeNext, CanTopUp, TypeOK
  <2>4. pc' \in {"topup", "emit"}
      BY <1>2, <2>1 DEF TopUpResumed, TopUpSubmit, TopUpInline, TakeNext, CanTopUp
  <2>5. Contiguous' /\ Resting'
    <3>1. Base' = Base
        BY <2>1, <2>2 DEF TakeNext, Base
    <3>2. \A i \in 1..Len(window') : window'[i] = Base' + i
      <4>1. \A i \in 1..Len(window') : i \in 1..Len(window) \/ i = Len(window) + 1
          BY <2>1, <2>2
      <4>2. Base + (Len(window) + 1) = taken + 1
          BY <2>1 DEF Base
      <4> QED BY <2>2, <3>1, <4>1, <4>2 DEF Contiguous
    <3> QED BY <3>1, <3>2, <2>4 DEF Contiguous, Resting
  <2>6. /\ fut' \in [Paths -> Outcomes \cup {"none", "resumed", "pending",
                                 "crashed", "raised", "interrupt"}]
        /\ shared' \in [Paths -> Entries]
        /\ completed' \subseteq Paths /\ audited' \subseteq Paths
    <3>1. CASE TopUpResumed
        BY <2>1, <3>1 DEF TopUpResumed, TypeOK
    <3>2. CASE TopUpSubmit
        BY <2>1, <3>2 DEF TopUpSubmit, TypeOK
    <3>3. CASE \E o \in Outcomes \cup {"raised", "interrupt"} : TopUpInline(o)
      <4> PICK o \in Outcomes \cup {"raised", "interrupt"} : TopUpInline(o)
          BY <3>3
      <4> QED BY <2>1 DEF TopUpInline, TypeOK
    <3> QED BY <1>2, <3>1, <3>2, <3>3
  <2>7. interrupted' \in BOOLEAN
      BY <1>2 DEF TopUpResumed, TopUpSubmit, TopUpInline, TypeOK
  <2>8. UNCHANGED <<inline, findings, prior, flushed, attached, database, executions, lost>>
      BY <1>2 DEF TopUpResumed, TopUpSubmit, TopUpInline
  <2>9. TypeOK'
      BY <2>2, <2>3, <2>4, <2>6, <2>7, <2>8 DEF TypeOK, Looping
  <2> QED BY <2>5, <2>9
<1>3. CASE TopUpDone
  <2>1. window = <<>> \/ Len(window) > 0
      BY DEF TypeOK
  <2> QED BY <1>3, <2>1 DEF TopUpDone, TypeOK, Looping, Contiguous, Resting, Base
<1>4. CASE \E p \in Paths : Reap(p) \/ ReapOther(p)
  <2> PICK p \in Paths : Reap(p) \/ ReapOther(p)
      BY <1>4
  <2>1. pc = "reap" /\ Len(window) > 0 /\ window \in Seq(Paths)
        /\ Len(window) \in Nat /\ window' = Tail(window)
      BY DEF Reap, ReapOther, Contiguous, TypeOK
  <2>2. window' \in Seq(Paths) /\ Len(window') = Len(window) - 1
        /\ \A i \in 1..Len(window') : window'[i] = window[i + 1]
      BY <2>1, TailFacts
  <2>3. pc' \in {"emit", "topup", "failing", "cancel"}
      BY DEF Reap, ReapOther
  <2>4. UNCHANGED <<inline, taken, fut, prior, interrupted, flushed, attached, database, history>>
      BY DEF Reap, ReapOther
  <2>5. /\ shared' \in [Paths -> Entries] /\ completed' \subseteq Paths
        /\ findings' \in Seq(Paths)
    <3>1. Entry(fut[p]) \in Entries
        BY DEF Entry, Entries
    <3>2. Append(findings, p) \in Seq(Paths)
        BY AppendFacts DEF TypeOK
    <3>3. CASE Reap(p)
        BY <3>1, <3>2, <3>3 DEF Reap, Integrate, TypeOK
    <3>4. CASE ReapOther(p)
        BY <3>4 DEF ReapOther, TypeOK
    <3> QED BY <3>3, <3>4
  <2>6. Contiguous' /\ Resting'
    <3>1. Base' = Base + 1 /\ Base \in Nat
        BY <2>1, <2>2, <2>4 DEF Base, Contiguous, TypeOK
    <3>2. \A i \in 1..Len(window') : window'[i] = Base' + i
        BY <2>1, <2>2, <3>1 DEF Contiguous
    <3> QED BY <3>1, <3>2, <2>3 DEF Contiguous, Resting
  <2>7. TypeOK'
    <3>1. Len(window') <= Window
        BY <2>1, <2>2, WindowAssumption DEF TypeOK
    <3>2. pc' \in Looping \cup {"failing", "cancel"}
        BY <2>3 DEF Looping
    <3> QED BY <2>2, <2>4, <2>5, <3>1, <3>2 DEF TypeOK
  <2> QED BY <2>6, <2>7
<1>5. CASE Persistence
  <2>1. Persisted
      BY <1>5, PersistenceStep
  <2>2. rows' \in [Paths -> Paths \cup {0}]
      BY <2>1 DEF Persisted, Upsert, Numbers, TypeOK
  <2>3. /\ pc' \in Looping \cup Completing \cup
             {"off", "drain", "failing", "cancel", "cancelemit", "cancelsave",
              "cancelresume", "cancelfail", "aborting", "lockedout"}
        /\ pc' # "reap"
      BY <2>1 DEF Persisted, Looping, Completing
  <2>4. CASE Kept /\ flushed' \in BOOLEAN /\ pc' # "off"
    <3>1. TypeOK'
        BY <2>1, <2>2, <2>3, <2>4 DEF Persisted, Kept, TypeOK
    <3> QED BY <2>3, <2>4, <3>1 DEF Kept, Contiguous, Resting, Base
  <2>5. CASE Dropped
    <3>1. inline' \in BOOLEAN /\ interrupted' \in BOOLEAN /\ flushed' \in BOOLEAN
          /\ attached' \in BOOLEAN
        BY <2>5 DEF Dropped
    <3>2. window' \in Seq(Paths) /\ findings' \in Seq(Paths) /\ Len(window') = 0
        BY <2>5 DEF Dropped
    <3>3. TypeOK'
        BY <2>1, <2>2, <2>3, <2>5, <3>1, <3>2 DEF Persisted, Dropped, TypeOK, Nothing
    <3> QED BY <2>5, <3>2, <3>3 DEF Dropped, Contiguous, Resting, Base
  <2> QED BY <2>1, <2>4, <2>5 DEF Persisted
<1>6. CASE PoolAnswers
  <2> PICK p \in Paths, o \in Outcomes \cup {"crashed"} : Resolve(p, o)
      BY <1>6 DEF PoolAnswers
  <2>1. fut' \in [Paths -> Outcomes \cup {"none", "resumed", "pending",
                                 "crashed", "raised", "interrupt"}]
        /\ audited' \subseteq Paths
      BY DEF Resolve, TypeOK
  <2>2. TypeOK'
      BY <2>1 DEF Resolve, TypeOK
  <2> QED BY <2>2 DEF Resolve, Contiguous, Resting, Base
<1>7. CASE Interrupt
  <2>1. interrupted' \in BOOLEAN
      BY <1>7 DEF Interrupt
  <2>2. TypeOK'
      BY <1>7, <2>1 DEF Interrupt, TypeOK
  <2> QED BY <1>7, <2>2 DEF Interrupt, Contiguous, Resting, Base
<1>8. CASE Crash
  <2>1. Dropped
      BY <1>8 DEF Crash, Goto, Dropped
  <2>2. inline' \in BOOLEAN /\ interrupted' \in BOOLEAN /\ flushed' \in BOOLEAN
          /\ attached' \in BOOLEAN
      BY <2>1 DEF Dropped
  <2>3. window' \in Seq(Paths) /\ findings' \in Seq(Paths) /\ Len(window') = 0
      BY <2>1 DEF Dropped
  <2>4. TypeOK'
      BY <1>8, <2>1, <2>2, <2>3 DEF Crash, Dropped, TypeOK, Nothing
  <2> QED BY <2>1, <2>3, <2>4 DEF Dropped, Contiguous, Resting, Base
<1>9. CASE DeleteRun
    BY <1>9 DEF DeleteRun, TypeOK, Contiguous, Resting, Base
<1>10. CASE UNCHANGED vars
    BY <1>10 DEF vars, TypeOK, Contiguous, Resting, Base
<1>11. CASE TopUpFails \/ CoderLocks
    BY <1>11 DEF TopUpFails, CoderLocks, TypeOK, Contiguous, Resting, Base
<1> QED BY <1>1, <1>2, <1>3, <1>4, <1>5, <1>6, <1>7, <1>8, <1>9, <1>10, <1>11
        DEF Next, Loop, Idle

\* The next path to take, and the path that is reaped.
LEMMA TakenPath ==
    ASSUME Typed, TakeNext
    PROVE  taken + 1 \in Paths /\ Base' = Base /\ taken + 1 > Base
<1> taken + 1 \in Paths /\ taken \in Nat /\ window \in Seq(Paths)
    /\ Len(window) \in Nat /\ taken' = taken + 1
    /\ window' = Append(window, taken + 1)
    BY PathFacts DEF Typed, TypeOK, TakeNext, CanTopUp
<1> Len(window') = Len(window) + 1
    BY AppendFacts
<1> QED BY DEF Base

LEMMA ReapedPath ==
    ASSUME Typed, NEW p \in Paths, Reap(p) \/ ReapOther(p)
    PROVE  p = Base + 1 /\ Base' = Base + 1 /\ Base \in Nat
<1>1. window \in Seq(Paths) /\ Len(window) \in Nat /\ Len(window) > 0
      /\ window' = Tail(window) /\ p = Head(window)
    BY PathFacts DEF Typed, TypeOK, Contiguous, Reap, ReapOther
<1>2. Len(window') = Len(window) - 1 /\ p = window[1]
    BY <1>1, TailFacts
<1>3. window[1] = Base + 1 /\ Base \in Nat
    BY <1>1 DEF Contiguous, Typed
<1>4. taken \in Nat /\ taken' = taken /\ Len(window) \in Nat
    BY <1>1, PathFacts DEF Typed, TypeOK, Reap, ReapOther
<1>5. Base' = Base + 1
    BY <1>2, <1>4 DEF Base
<1> QED BY <1>2, <1>3, <1>5

\* The main thread fails in the streamer or locks itself out.
Halt == TopUpFails \/ CoderLocks

\* The steps that neither take nor reap a path, nor write the database.
Beside ==
    /\ UNCHANGED <<taken, window, shared, completed, findings, prior,
                   resumeState, rows, executions>>
    /\ \/ UNCHANGED <<fut, audited, pc>>
       \/ /\ UNCHANGED <<fut, audited>>
          /\ pc # "off" /\ pc' \in {"cancel", "cancelemit", "failing", "lockedout"}
       \/ /\ pc # "off" /\ UNCHANGED pc
          /\ \E p \in Paths, o \in Outcomes \cup {"crashed"} :
                /\ fut[p] = "pending" /\ fut' = [fut EXCEPT ![p] = o]
                /\ audited' = IF o \in Done THEN audited \cup {p} ELSE audited

LEMMA BesideStep ==
    ASSUME PoolAnswers \/ Interrupt \/ Halt \/ DeleteRun \/ UNCHANGED vars
    PROVE  Beside
<1>1. CASE PoolAnswers
    BY <1>1 DEF PoolAnswers, Resolve, Beside
<1>2. CASE Interrupt
    BY <1>2 DEF Interrupt, Beside, Looping
<1>3. CASE DeleteRun
    BY <1>3 DEF DeleteRun, Beside
<1>4. CASE UNCHANGED vars
    BY <1>4 DEF vars, Beside
<1>5. CASE Halt
    BY <1>5 DEF Halt, TopUpFails, CoderLocks, Beside
<1> QED BY <1>1, <1>2, <1>3, <1>4, <1>5

\* The process is gone; the database keeps what it has.
LEMMA CrashStep ==
    ASSUME Crash
    PROVE  Dropped /\ pc # "off" /\ UNCHANGED <<database, history>>
BY DEF Crash, Goto, Dropped

-----------------------------------------------------------------------------
(* Findings are numbered in plan order: those of the reaped paths only. *)

FindingsReaped == \A i \in 1..Len(findings) : findings[i] <= Base

Ordered == FindingsReaped /\ PlanOrder

LEMMA OrderedInit == Init => Ordered
BY DEF Init, Ordered, FindingsReaped, PlanOrder

LEMMA OrderedStep == ASSUME Typed, Typed', Ordered, [Next]_vars PROVE Ordered'
<1> USE DEF Ordered, FindingsReaped, PlanOrder
<1>0. /\ findings \in Seq(Paths) /\ Len(findings) \in Nat
      /\ \A i \in 1..Len(findings) : findings[i] \in Nat
      /\ Base \in Nat /\ Base' \in Nat
  <2>1. findings \in Seq(Paths)
      BY DEF Typed, TypeOK
  <2>2. Base \in Nat /\ Base' \in Nat
      BY DEF Typed, Contiguous
  <2>3. Len(findings) \in Nat /\ \A i \in 1..Len(findings) : findings[i] \in Paths
      BY <2>1
  <2>4. Paths \subseteq Nat
      BY PathFacts
  <2> QED BY <2>1, <2>2, <2>3, <2>4
<1>1. CASE findings' = findings /\ Base' >= Base
  <2>1. FindingsReaped'
      BY <1>0, <1>1
  <2>2. PlanOrder'
      BY <1>1
  <2> QED BY <2>1, <2>2
<1>2. CASE Dropped
    BY <1>2 DEF Dropped
<1>3. CASE \E p \in Paths : Reap(p)
  <2> PICK p \in Paths : Reap(p)
      BY <1>3
  <2>1. p = Base + 1 /\ Base' = Base + 1
      BY ReapedPath
  <2>2. findings' = findings \/ findings' = Append(findings, p)
      BY DEF Reap, Integrate
  <2>3. CASE findings' = findings
      BY <1>1, <1>0, <2>1, <2>3
  <2>4. CASE findings' = Append(findings, p)
    <3>1. /\ Len(findings') = Len(findings) + 1
          /\ \A i \in 1..Len(findings) : findings'[i] = findings[i]
          /\ findings'[Len(findings) + 1] = p
        BY <1>0, <2>4, AppendFacts
    <3>2. \A i \in 1..Len(findings') : i \in 1..Len(findings) \/ i = Len(findings) + 1
        BY <1>0, <3>1
    <3>3. FindingsReaped'
        BY <1>0, <2>1, <3>1, <3>2
    <3>4. PlanOrder'
      <4> SUFFICES ASSUME NEW i \in 1..Len(findings'), NEW j \in 1..Len(findings'),
                          i < j
                   PROVE  findings'[i] < findings'[j]
          OBVIOUS
      <4>1. i \in 1..Len(findings)
          BY <1>0, <3>1
      <4>2. findings'[i] <= Base
          BY <3>1, <4>1
      <4> QED BY <1>0, <2>1, <3>1, <3>2, <4>1, <4>2
    <3> QED BY <3>3, <3>4
  <2> QED BY <2>2, <2>3, <2>4
<1>4. CASE RunAudit \/ ResumeAudit \/ TopUpDone
    BY <1>0, <1>1, <1>4, RunAuditStep, ResumeAuditStep
       DEF Typed, Started, TopUpDone, Base
<1>5. CASE TopUpResumed \/ TopUpSubmit
           \/ \E o \in Outcomes \cup {"raised", "interrupt"} : TopUpInline(o)
  <2>1. TakeNext /\ findings' = findings
      BY <1>5 DEF TopUpResumed, TopUpSubmit, TopUpInline
  <2> QED BY <1>0, <1>1, <2>1, TakenPath
<1>6. CASE \E p \in Paths : ReapOther(p)
    BY <1>0, <1>1, <1>6, ReapedPath DEF ReapOther
<1>7. CASE Persistence
    BY <1>0, <1>1, <1>2, <1>7, PersistenceStep DEF Typed, Persisted, Kept, Base
<1>8. CASE Crash
    BY <1>2, <1>8, CrashStep
<1>9. CASE PoolAnswers \/ Interrupt \/ Halt \/ DeleteRun \/ UNCHANGED vars
    BY <1>0, <1>1, <1>9, BesideStep DEF Beside, Base
<1> QED BY <1>3, <1>4, <1>5, <1>6, <1>7, <1>8, <1>9 DEF Next, Loop, Idle, Halt

-----------------------------------------------------------------------------
(* What is recorded as done was audited. *)

DoneWasAudited ==
    \A p \in Paths :
        (shared[p] = "done" \/ prior[p] = "done" \/ resumeState[p] = "done"
           \/ fut[p] \in Done)
        => p \in audited

Truthful == DoneWasAudited /\ CompletedWasAudited

LEMMA TruthfulInit == Init => Truthful
BY DEF Init, Truthful, DoneWasAudited, CompletedWasAudited, Nothing, Done

LEMMA TruthfulStep == ASSUME Typed, Truthful, [Next]_vars PROVE Truthful'
<1> USE DEF Truthful, DoneWasAudited, CompletedWasAudited
<1>0. /\ shared \in [Paths -> Entries] /\ prior \in [Paths -> Entries]
      /\ resumeState \in [Paths -> Entries]
      /\ fut \in [Paths -> Outcomes \cup {"none", "resumed", "pending",
                                "crashed", "raised", "interrupt"}]
      /\ \A p \in Paths : Nothing[p] = "none"
    BY PathFacts DEF Typed, TypeOK
<1>1. CASE RunAudit \/ ResumeAudit
  <2>1. Started
      BY <1>1, RunAuditStep, ResumeAuditStep DEF Typed
  <2>2. completed = {}
      BY <2>1 DEF Typed, Resting, Started
  <2> QED BY <1>0, <2>1, <2>2 DEF Started
<1>2. CASE TopUpResumed
  <2>1. taken + 1 \in Paths
      BY <1>2, TakenPath DEF TopUpResumed
  <2>2. /\ fut' = [fut EXCEPT ![taken + 1] = "resumed"]
        /\ shared' = [shared EXCEPT ![taken + 1] = prior[taken + 1]]
        /\ completed' = completed \cup {taken + 1}
        /\ prior[taken + 1] # "none"
        /\ UNCHANGED <<prior, resumeState, audited>>
      BY <1>2 DEF TopUpResumed
  <2>3. DoneWasAudited'
      BY <1>0, <2>1, <2>2 DEF Done
  <2>4. taken + 1 \in audited \/ prior[taken + 1] \in {"skipped", "failed"}
      BY <1>0, <2>1, <2>2 DEF Entries
  <2>5. CompletedWasAudited'
      BY <2>1, <2>2, <2>4
  <2> QED BY <2>3, <2>5
<1>3. CASE TopUpSubmit
  <2>1. taken + 1 \in Paths
      BY <1>3, TakenPath DEF TopUpSubmit
  <2> QED BY <1>0, <1>3, <2>1 DEF TopUpSubmit, Done
<1>4. CASE \E o \in Outcomes \cup {"raised", "interrupt"} : TopUpInline(o)
  <2> PICK o \in Outcomes \cup {"raised", "interrupt"} : TopUpInline(o)
      BY <1>4
  <2>1. taken + 1 \in Paths
      BY TakenPath DEF TopUpInline
  <2>2. /\ fut' = [fut EXCEPT ![taken + 1] = o]
        /\ audited' = IF o \in Done THEN audited \cup {taken + 1} ELSE audited
        /\ UNCHANGED <<shared, completed, prior, resumeState>>
      BY DEF TopUpInline
  <2> QED BY <1>0, <2>1, <2>2
<1>5. CASE \E p \in Paths : Reap(p)
  <2> PICK p \in Paths : Reap(p)
      BY <1>5
  <2>1. /\ shared' = [shared EXCEPT ![p] = Entry(fut[p])]
        /\ completed' = IF fut[p] \in Done THEN completed \cup {p} ELSE completed
        /\ UNCHANGED <<fut, prior, resumeState, audited>>
      BY DEF Reap, Integrate
  <2>2. Entry(fut[p]) = "done" => fut[p] \in Done
      BY DEF Entry
  <2> QED BY <1>0, <2>1, <2>2
<1>6. CASE TopUpDone \/ \E p \in Paths : ReapOther(p)
    BY <1>6 DEF TopUpDone, ReapOther
<1>7. CASE Persistence
  <2>1. Persisted
      BY <1>7, PersistenceStep DEF Typed
  <2> QED BY <1>0, <2>1 DEF Persisted, Kept, Dropped, Done
<1>8. CASE Crash
    BY <1>0, <1>8, CrashStep DEF Dropped, Done
<1>9. CASE PoolAnswers \/ Interrupt \/ Halt \/ DeleteRun \/ UNCHANGED vars
  <2>1. Beside
      BY <1>9, BesideStep
  <2> QED BY <1>0, <2>1 DEF Beside
<1> QED BY <1>1, <1>2, <1>3, <1>4, <1>5, <1>6, <1>7, <1>8, <1>9
        DEF Next, Loop, Idle, Halt

-----------------------------------------------------------------------------
(* Every path reaped has left an entry, unless its worker crashed. *)

ReapedIsCovered ==
    pc \in Looping \cup {"drain"} \cup Completing =>
        \A p \in Paths : p <= Base => shared[p] # "none" \/ fut[p] = "crashed"

ResumedIsCovered == \A p \in Paths : fut[p] = "resumed" => shared[p] # "none"

AllReaped == pc \in {"drain"} \cup Completing => Base = PathCount

Covered == ReapedIsCovered /\ ResumedIsCovered /\ AllReaped

LEMMA CoveredInit == Init => Covered
BY DEF Init, Covered, ReapedIsCovered, ResumedIsCovered, AllReaped, Nothing,
       Looping, Completing

LEMMA CoveredStep == ASSUME Typed, Typed', Covered, [Next]_vars PROVE Covered'
<1> USE DEF Covered, ReapedIsCovered, ResumedIsCovered, AllReaped
<1>0. /\ shared \in [Paths -> Entries]
      /\ fut \in [Paths -> Outcomes \cup {"none", "resumed", "pending",
                                "crashed", "raised", "interrupt"}]
      /\ \A p \in Paths : Nothing[p] = "none"
      /\ Paths \subseteq Nat /\ \A p \in Paths : 1 <= p
      /\ Base \in Nat /\ Base' \in Nat
  <2>1. Base \in Nat /\ Base' \in Nat
      BY DEF Typed, Contiguous
  <2> QED BY <2>1, PathFacts DEF Typed, TypeOK
<1>1. CASE RunAudit \/ ResumeAudit
  <2>1. /\ pc = "off" /\ pc' \in {"topup", "off"}
        /\ UNCHANGED <<taken, window, fut, shared>>
      BY <1>1, RunAuditStep, ResumeAuditStep DEF Typed, Started
  <2>2. taken' = 0 /\ window' = <<>> /\ fut' = Nothing
      BY <2>1 DEF Typed, Resting
  <2>3. Base' = 0
    <3>1. Len(window') = 0 /\ taken' = 0
        BY <2>2
    <3> QED BY <3>1 DEF Base
  <2> QED BY <1>0, <2>1, <2>2, <2>3 DEF Completing
<1>2. CASE TopUpResumed
  <2>1. taken + 1 \in Paths /\ Base' = Base /\ taken + 1 > Base
      BY <1>2, TakenPath DEF TopUpResumed
  <2>2. /\ fut' = [fut EXCEPT ![taken + 1] = "resumed"]
        /\ shared' = [shared EXCEPT ![taken + 1] = prior[taken + 1]]
        /\ prior[taken + 1] # "none" /\ pc = "topup" /\ pc' = "emit"
      BY <1>2 DEF TopUpResumed, TakeNext, CanTopUp
  <2> QED BY <1>0, <2>1, <2>2 DEF Looping, Completing
<1>3. CASE TopUpSubmit
           \/ \E o \in Outcomes \cup {"raised", "interrupt"} : TopUpInline(o)
  <2>1. TakeNext /\ pc = "topup" /\ UNCHANGED <<pc, shared>>
        /\ \E o \in Outcomes \cup {"pending", "raised", "interrupt"} :
              fut' = [fut EXCEPT ![taken + 1] = o]
      BY <1>3 DEF TopUpSubmit, TopUpInline, TakeNext, CanTopUp
  <2>2. taken + 1 \in Paths /\ Base' = Base /\ taken + 1 > Base
      BY <2>1, TakenPath
  <2> QED BY <1>0, <2>1, <2>2 DEF Looping, Completing, Outcomes
<1>4. CASE TopUpDone
  <2>1. pc = "topup" /\ ~CanTopUp /\ UNCHANGED <<taken, window, fut, shared>>
        /\ pc' = IF window = <<>> THEN "drain" ELSE "reap"
      BY <1>4 DEF TopUpDone
  <2>2. Base' = Base
      BY <2>1 DEF Base
  <2>3. window = <<>> => Base = PathCount
    <3> SUFFICES ASSUME window = <<>> PROVE Base = PathCount
        OBVIOUS
    <3>1. Len(window) = 0 /\ taken \in 0..PathCount
        BY DEF Typed, TypeOK
    <3>2. ~(taken < PathCount)
        BY <2>1, <3>1, WindowAssumption DEF CanTopUp
    <3> QED BY <3>1, <3>2, PathCountAssumption DEF Base
  <2> QED BY <2>1, <2>2, <2>3 DEF Looping, Completing
<1>5. CASE \E p \in Paths : Reap(p)
  <2> PICK p \in Paths : Reap(p)
      BY <1>5
  <2>1. /\ shared' = [shared EXCEPT ![p] = Entry(fut[p])]
        /\ fut[p] \in Outcomes \cup {"crashed"}
        /\ pc = "reap" /\ pc' = "emit" /\ UNCHANGED fut
      BY DEF Reap, Integrate
  <2>2. p = Base + 1 /\ Base' = Base + 1
      BY ReapedPath
  <2>3. Entry(fut[p]) # "none" \/ fut[p] = "crashed"
      BY <2>1 DEF Entry, Outcomes, Done
  <2>4. fut[p] # "resumed"
      BY <2>1 DEF Outcomes
  <2> QED BY <1>0, <2>1, <2>2, <2>3, <2>4 DEF Looping, Completing
<1>6. CASE \E p \in Paths : ReapOther(p)
  <2> PICK p \in Paths : ReapOther(p)
      BY <1>6
  <2>1. /\ UNCHANGED <<shared, fut>> /\ pc = "reap"
        /\ pc' \in {"failing", "cancel"} \/ (fut[p] = "resumed" /\ pc' = "topup")
      BY DEF ReapOther
  <2>2. p = Base + 1 /\ Base' = Base + 1
      BY ReapedPath
  <2> QED BY <1>0, <2>1, <2>2 DEF Looping, Completing
<1>7. CASE Persistence
  <2>1. Persisted
      BY <1>7, PersistenceStep DEF Typed
  <2>2. CASE Kept
    <3>1. Base' = Base /\ UNCHANGED <<shared, fut>>
        BY <2>2 DEF Kept, Base
    <3> QED BY <2>1, <3>1 DEF Persisted, Looping, Completing
  <2>3. CASE Dropped
      BY <1>0, <2>3 DEF Dropped, Looping, Completing
  <2> QED BY <2>1, <2>2, <2>3 DEF Persisted
<1>8. CASE Crash
    BY <1>0, <1>8, CrashStep DEF Dropped, Looping, Completing
<1>9. CASE PoolAnswers \/ Interrupt \/ Halt \/ DeleteRun \/ UNCHANGED vars
  <2>1. Beside
      BY <1>9, BesideStep
  <2>2. Base' = Base /\ UNCHANGED shared
      BY <2>1 DEF Beside, Base
  <2> QED BY <1>0, <2>1, <2>2 DEF Beside, Looping, Completing, Outcomes
<1> QED BY <1>1, <1>2, <1>3, <1>4, <1>5, <1>6, <1>7, <1>8, <1>9
        DEF Next, Loop, Idle, Halt

-----------------------------------------------------------------------------
(* Until the run is resumed, the database is a part of what the execution  *)
(* has in memory.                                                          *)

BeforeFirst ==
    executions = 0 =>
        /\ pc = "off" /\ status = "none"
        /\ \A p \in Paths : rows[p] = 0 /\ resumeState[p] = "none"

InFirst ==
    executions = 1 /\ pc # "off" =>
        /\ \A p \in Paths : prior[p] = "none"
        /\ \A n \in Paths : rows[n] # 0 => n \in Numbers /\ rows[n] = findings[n]
        /\ \A p \in Paths : resumeState[p] # "none" => shared[p] = resumeState[p]
        /\ \A p \in Paths : p > Base => shared[p] = "none"

First == BeforeFirst /\ InFirst

LEMMA FirstInit == Init => First
BY DEF Init, First, BeforeFirst, InFirst, Nothing

\* One step keeps what the database knows, and what makes it do so.
Keeping ==
    executions' = 1 /\ pc # "clear" =>
        /\ \A n \in Paths : rows[n] # 0 => rows'[n] = rows[n]
        /\ \A p \in Paths : resumeState[p] # "none" => resumeState'[p] = resumeState[p]

LEMMA FirstStep ==
    ASSUME Typed, Typed', First, [Next]_vars PROVE First' /\ Keeping
<1> USE DEF First, BeforeFirst, InFirst, Keeping
<1>0. /\ shared \in [Paths -> Entries] /\ prior \in [Paths -> Entries]
      /\ \A p \in Paths : Nothing[p] = "none"
      /\ Paths \subseteq Nat
      /\ Base \in Nat /\ Base' \in Nat
      /\ executions \in Nat
  <2>1. Base \in Nat /\ Base' \in Nat
      BY DEF Typed, Contiguous
  <2> QED BY <2>1, PathFacts, BoundsAssumption DEF Typed, TypeOK
<1>1. CASE RunAudit
  <2>1. pc = "off" /\ executions' = 1 /\ prior' \in {Nothing, prior}
        /\ UNCHANGED <<shared, rows, findings, resumeState>>
      BY <1>0, <1>1, RunAuditStep DEF Typed, Started
  <2>2. shared = Nothing /\ prior = Nothing
      BY <2>1 DEF Typed, Resting
  <2>3. \A p \in Paths : rows[p] = 0 /\ resumeState[p] = "none"
      BY <1>1, RunAuditStep DEF Typed
  <2> QED BY <1>0, <2>1, <2>2, <2>3
<1>2. CASE ResumeAudit
  <2>1. status # "none" /\ executions' = executions + 1
      BY <1>2, ResumeAuditStep DEF ResumeAudit, ResumeTarget, Started, Typed
  <2> QED BY <1>0, <2>1
<1>3. CASE TopUpResumed \/ TopUpSubmit
           \/ \E o \in Outcomes \cup {"raised", "interrupt"} : TopUpInline(o)
  <2>1. TakeNext /\ pc = "topup"
        /\ UNCHANGED <<findings, prior, rows, resumeState, executions>>
        /\ (shared' = shared \/ prior[taken + 1] # "none")
      BY <1>3 DEF TopUpResumed, TopUpSubmit, TopUpInline, TakeNext, CanTopUp
  <2>2. taken + 1 \in Paths /\ Base' = Base /\ taken + 1 > Base
      BY <2>1, TakenPath
  <2>3. executions = 0 => pc = "off"
      OBVIOUS
  <2>4. executions = 1 => shared' = shared
      BY <2>1, <2>2
  <2> QED BY <1>0, <2>1, <2>2, <2>3, <2>4 DEF Numbers
<1>4. CASE TopUpDone
  <2>1. pc = "topup" /\ Base' = Base
        /\ UNCHANGED <<findings, prior, rows, resumeState, executions, shared>>
      BY <1>4 DEF TopUpDone, Base
  <2> QED BY <2>1 DEF Numbers
<1>5. CASE \E p \in Paths : Reap(p)
  <2> PICK p \in Paths : Reap(p)
      BY <1>5
  <2>1. /\ shared' = [shared EXCEPT ![p] = Entry(fut[p])]
        /\ findings' = findings \/ findings' = Append(findings, p)
        /\ UNCHANGED <<prior, rows, resumeState, executions>> /\ pc = "reap"
      BY DEF Reap, Integrate
  <2>2. p = Base + 1 /\ Base' = Base + 1
      BY ReapedPath
  <2>3. \A n \in Numbers : n \in Numbers' /\ findings'[n] = findings[n]
    <3>1. findings \in Seq(Paths)
        BY DEF Typed, TypeOK
    <3> QED BY <2>1, <3>1, AppendFacts DEF Numbers
  <2> QED BY <1>0, <2>1, <2>2, <2>3
<1>6. CASE \E p \in Paths : ReapOther(p)
  <2> PICK p \in Paths : ReapOther(p)
      BY <1>6
  <2>1. UNCHANGED <<shared, findings, prior, rows, resumeState, executions>>
        /\ pc = "reap"
      BY DEF ReapOther
  <2>2. Base' = Base + 1
      BY ReapedPath
  <2> QED BY <1>0, <2>1, <2>2 DEF Numbers
<1>7. CASE Persistence
  <2>1. Persisted
      BY <1>7, PersistenceStep DEF Typed
  <2>2. pc # "off" /\ executions # 0 /\ UNCHANGED executions
      BY <2>1 DEF Persisted
  <2>3. executions = 1 =>
          /\ \A n \in Paths : rows[n] # 0 => rows'[n] = rows[n]
          /\ \A n \in Paths : rows'[n] # 0 => n \in Numbers /\ rows'[n] = findings[n]
      BY <2>1, <2>2 DEF Persisted, Upsert
  <2>4. executions = 1 /\ pc # "clear" =>
          \A p \in Paths : resumeState[p] # "none" => resumeState'[p] = resumeState[p]
      BY <2>1, <2>2 DEF Persisted
  <2>5. executions = 1 =>
          \A p \in Paths : resumeState'[p] # "none" => shared[p] = resumeState'[p]
      BY <1>0, <2>1, <2>2 DEF Persisted
  <2>6. CASE Kept
    <3>1. Base' = Base /\ Numbers' = Numbers /\ UNCHANGED <<shared, findings, prior>>
        BY <2>6 DEF Kept, Base, Numbers
    <3> QED BY <2>2, <2>3, <2>4, <2>5, <3>1
  <2>7. CASE pc' = "off"
      BY <2>2, <2>3, <2>4, <2>7
  <2> QED BY <2>1, <2>6, <2>7 DEF Persisted, Dropped
<1>8. CASE Crash
  <2>1. pc # "off" /\ pc' = "off" /\ UNCHANGED <<rows, resumeState, executions>>
      BY <1>8, CrashStep DEF Dropped
  <2> QED BY <2>1
<1>9. CASE PoolAnswers \/ Interrupt \/ Halt \/ DeleteRun \/ UNCHANGED vars
  <2>1. Beside
      BY <1>9, BesideStep
  <2>2. UNCHANGED <<shared, findings, prior, rows, resumeState, executions>>
        /\ Base' = Base /\ Numbers' = Numbers
      BY <2>1 DEF Beside, Base, Numbers
  <2>3. executions = 0 => status' = "none" /\ pc' = "off"
      BY <1>9 DEF PoolAnswers, Resolve, Interrupt, Looping, Halt, TopUpFails, CoderLocks,
                  DeleteRun, vars
  <2>4. pc = "off" => pc' = "off"
      BY <2>1 DEF Beside
  <2> QED BY <2>2, <2>3, <2>4
<1> QED BY <1>1, <1>2, <1>3, <1>4, <1>5, <1>6, <1>7, <1>8, <1>9
        DEF Next, Loop, Idle, Halt

-----------------------------------------------------------------------------
(* The theorems. *)

Inv == Typed /\ Ordered /\ Truthful /\ Covered /\ First

LEMMA Invariant == Spec => []Inv
<1>1. Init => Inv
    BY TypeInit, OrderedInit, TruthfulInit, CoveredInit, FirstInit DEF Inv
<1>2. Inv /\ [Next]_vars => Inv'
    BY TypeStep, OrderedStep, TruthfulStep, CoveredStep, FirstStep DEF Inv
<1> QED BY <1>1, <1>2, PTL DEF Spec

\* Findings are numbered in plan order, one per path, whatever order the
\* workers answer in and wherever executions stop: the finding ids that
\* _drive_workflow stamps do not depend on the topology.
THEOREM RunNumbersInPlanOrder == Spec => []PlanOrder
<1>1. Inv => PlanOrder
    BY DEF Inv, Ordered
<1> QED BY <1>1, Invariant, PTL

\* What the resume state or the execution counts as done was audited to the
\* end by some execution, across crashes, cancellations, lost writes and any
\* number of resumes.
THEOREM RunRecordIsTruthful == Spec => []RecordTruthful
<1>1. Inv => RecordTruthful
    BY DEF Inv, Typed, Truthful, DoneWasAudited, RecordTruthful, SkippedWasAudited
<1> QED BY <1>1, Invariant, PTL

\* An execution that reaches close_run has an entry for every path of the
\* plan, except those whose worker crashed.
THEOREM RunCompletesCovered == Spec => []CompletedIsCovered
<1>1. Inv => CompletedIsCovered
    BY PathFacts DEF Inv, Covered, ReapedIsCovered, AllReaped, CompletedIsCovered
<1> QED BY <1>1, Invariant, PTL

\* Until the run is resumed, no step gives a finding row to another path or
\* forgets an entry of the resume state, save the clearing that precedes
\* close_run.
THEOREM RunFirstExecutionKeeps == Spec => FirstExecutionKeeps
<1>1. Inv /\ Inv' /\ [Next]_vars => [Keeping]_vars
    BY FirstStep DEF Inv
<1> QED BY <1>1, Invariant, PTL DEF Spec, FirstExecutionKeeps, Keeping

=============================================================================
