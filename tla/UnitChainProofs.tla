--------------------------- MODULE UnitChainProofs ---------------------------
(***************************************************************************)
(* Proofs about UnitChain, for any replication, cap, rounds and attempts.  *)
(***************************************************************************)
EXTENDS UnitChain, TLAPS

USE DEF control, work, runner, ghosts

(***************************************************************************)
(* Calls and threads.                                                      *)
(***************************************************************************)
Failures == {"llm", "context", "other"}
Values == Candidates \cup {NoIssue} \cup Verdicts \cup DOMAIN ExploitRank
              \cup Failures \cup {<<>>}
Slots == [st : {"idle", "queued", "running", "ok", "raised"}, try : 0 .. Attempts, val : Values]

Shapes ==
    /\ cfg \in [deep : BOOLEAN, agentic : BOOLEAN, exploit : BOOLEAN, teams : SUBSET Stages]
    /\ pc \in {"start", "loaded", "fan", "unwind", "finish", "debate", "record", "done"}
    /\ stage \in Stages \cup {"none"} /\ error \in Errors /\ outcome \in Outcomes
    /\ thread \in [Replicas -> Slots]
    /\ pc \in {"fan", "unwind"} => stage \in Stages
    /\ \A r \in Replicas : thread[r].st = "raised" => thread[r].val \in Failures
    /\ \A r \in Replicas : thread[r].st = "ok" => thread[r].val \in Answers(stage)
    /\ pc = "unwind" => error \in Failures \cup {"interrupt"}
    /\ pc # "done" => outcome = "none"
    /\ pc \in {"debate", "record"} => cfg.deep
    /\ pc = "finish" => ~cfg.deep

\* A call is in flight only inside the with block of its stage: in fast mode
\* nothing is left when an exception goes up, in deep mode threads may be.
Within ==
    /\ pc \notin {"fan", "unwind"} \/ (pc = "unwind" /\ ~cfg.deep) =>
         \A r \in Replicas : ~Busy(r)
    /\ pc = "fan" => \A r \in Replicas : thread[r].st # "idle" => r \in Fan(stage)

\* In prompt form a call that failed is still seen as raised, or has ended the
\* path already.
Answered ==
    unanswered /\ ~cfg.agentic =>
        \/ pc = "unwind"
        \/ pc = "done" /\ outcome # "COMPLETED"
        \/ pc = "fan" /\ \E r \in Fan(stage) : thread[r].st = "raised"

\* The fast agentic chain has the transcript of every call that returned.
Transcribed ==
    cfg.agentic /\ ~cfg.deep =>
        /\ pc # "done" => transcripts = calls
        /\ outcome = "COMPLETED" => attached = calls

LEMMA FanFacts ==
    /\ 1 \in Replicas
    /\ \A s \in Stages : Fan(s) \subseteq Replicas /\ (~cfg.deep => Fan(s) = {1})
<1> DEFINE S == {Analyzers, Validators, Exploiters}
<1>1. Analyzers \in Nat \ {0} /\ Validators \in Nat \ {0} /\ Exploiters \in Nat \ {0}
    BY ReplicationAssumption
<1>2. \E m \in S : \A x \in S : x <= m
  <2>1. CASE Analyzers >= Validators /\ Analyzers >= Exploiters
      BY <1>1, <2>1
  <2>2. CASE Validators >= Analyzers /\ Validators >= Exploiters
      BY <1>1, <2>2
  <2>3. CASE Exploiters >= Analyzers /\ Exploiters >= Validators
      BY <1>1, <2>3
  <2> QED BY <1>1, <2>1, <2>2, <2>3
<1>3. Max0(S) \in S /\ \A x \in S : x <= Max0(S)
  <2>1. S # {}
      OBVIOUS
  <2> HIDE DEF S
  <2> QED BY <1>2, <2>1 DEF Max0
<1> DEFINE M == Max0(S)
<1>4. M \in Nat \ {0} /\ Analyzers <= M /\ Validators <= M /\ Exploiters <= M
    BY <1>1, <1>3
<1>5. Replicas = 1 .. M
    BY DEF Replicas
<1> HIDE DEF M
<1>6. 1 \in Replicas
    BY <1>4, <1>5
<1>7. ASSUME NEW s \in Stages PROVE Fan(s) \subseteq Replicas /\ (~cfg.deep => Fan(s) = {1})
  <2>1. CASE ~cfg.deep
    <3>1. Fan(s) = 1 .. 1
        BY <2>1 DEF Fan
    <3> QED BY <1>6, <3>1
  <2>2. CASE cfg.deep
    <3>1. Fan(s) \in {1 .. Analyzers, 1 .. Validators, 1 .. Exploiters}
        BY <2>2 DEF Fan, Stages
    <3> QED BY <1>1, <1>4, <1>5, <2>2, <3>1
  <2> QED BY <2>1, <2>2
<1> QED BY <1>6, <1>7

LEMMA SlotFacts ==
    /\ NoCall \in Slots /\ NoCall.st = "idle"
    /\ \A st \in {"queued", "running"} : Call(st) \in Slots /\ Call(st).st = st
    /\ \A s \in Stages : Answers(s) \subseteq Values
    /\ \A st \in {"ok", "raised"}, v \in Values :
         LET c == [st |-> st, try |-> 0, val |-> v] IN
         c \in Slots /\ c.st = st /\ c.val = v
    /\ \A c \in Slots : LET d == [c EXCEPT !.try = @ + 1] IN
         c.try < Attempts => d \in Slots /\ d.st = c.st /\ d.val = c.val
<1>1. NoCall \in Slots /\ NoCall.st = "idle"
    BY AttemptsAssumption DEF NoCall, Slots, Values
<1>2. \A st \in {"queued", "running"} : Call(st) \in Slots /\ Call(st).st = st
    BY AttemptsAssumption DEF Call, Slots, Values
<1>3. ASSUME NEW s \in Stages PROVE Answers(s) \subseteq Values
    BY DEF Answers, Values, Stages
<1>4. \A st \in {"ok", "raised"}, v \in Values :
         LET c == [st |-> st, try |-> 0, val |-> v] IN
         c \in Slots /\ c.st = st /\ c.val = v
    BY AttemptsAssumption DEF Slots
<1>5. \A c \in Slots : LET d == [c EXCEPT !.try = @ + 1] IN
         c.try < Attempts => d \in Slots /\ d.st = c.st /\ d.val = c.val
    BY AttemptsAssumption DEF Slots
<1> QED BY <1>1, <1>2, <1>3, <1>4, <1>5

\* What starting a stage does.
Launched(s) ==
    /\ pc' = "fan" /\ stage' = s /\ thread' \in [Replicas -> Slots]
    /\ \A r \in Replicas :
         /\ thread'[r].st \in {"idle", "queued", "running"}
         /\ thread'[r].st # "idle" => r \in Fan(s)
    /\ UNCHANGED <<cfg, error, outcome>>

LEMMA LaunchEffect ==
    ASSUME NEW s \in Stages, Launch(s) PROVE Launched(s)
<1> DEFINE c(r) == IF r \in Fan(s) THEN Call(IF cfg.deep THEN "queued" ELSE "running")
                   ELSE NoCall
<1>1. \A r \in Replicas : c(r) \in Slots /\ c(r).st \in {"idle", "queued", "running"}
                          /\ (c(r).st # "idle" => r \in Fan(s))
    BY SlotFacts
<1>2. thread' = [r \in Replicas |-> c(r)]
    BY DEF Launch
<1> HIDE DEF c
<1> QED BY <1>1, <1>2 DEF Launch, Launched

\* What a step of a call does.
Calling(r) ==
    /\ r \in Replicas /\ Busy(r) /\ pc \in {"fan", "unwind"}
    /\ thread' \in [Replicas -> Slots]
    /\ \A q \in Replicas \ {r} : thread'[q] = thread[q]
    /\ \/ thread'[r].st = "running" /\ UNCHANGED <<calls, transcripts, unanswered>>
       \/ /\ thread'[r].st = "ok" /\ thread'[r].val \in Answers(stage)
          /\ calls' = calls + 1
          /\ transcripts' = IF IsAgentic THEN transcripts + 1 ELSE transcripts
          /\ unanswered' = unanswered \/ IsAgentic
       \/ /\ thread'[r].st = "raised" /\ thread'[r].val \in Failures
          /\ UNCHANGED <<calls, transcripts>>
    /\ UNCHANGED <<control, work, attached>>

LEMMA CallEffect ==
    ASSUME Shapes, Within, NEW r \in Replicas, StageCall(r) PROVE Calling(r)
<1>1. Busy(r) /\ thread \in [Replicas -> Slots] /\ thread[r] \in Slots
  <2>1. thread[r].st \in {"queued", "running"}
      BY DEF StageCall, Begin, Answer, Raise, Retry, Fallback, ProbeFails
  <2> QED BY <2>1 DEF Busy, Shapes
<1>2. pc \in {"fan", "unwind"} /\ stage \in Stages
    BY <1>1 DEF Within, Shapes
<1>3. ASSUME NEW st \in {"ok", "raised"}, NEW v \in Values, Finishes(r, st, v)
      PROVE  /\ thread' \in [Replicas -> Slots] /\ thread'[r].st = st /\ thread'[r].val = v
             /\ \A q \in Replicas \ {r} : thread'[q] = thread[q]
             /\ UNCHANGED <<control, work, attached>>
  <2> DEFINE c == [st |-> st, try |-> 0, val |-> v]
  <2>1. c \in Slots /\ c.st = st /\ c.val = v
      BY SlotFacts
  <2>2. thread' = [thread EXCEPT ![r] = c]
      BY <1>3 DEF Finishes
  <2>3. UNCHANGED <<control, work, attached>>
      BY <1>3 DEF Finishes
  <2> HIDE DEF c
  <2> QED BY <1>1, <2>1, <2>2, <2>3
<1>4. Answers(stage) \subseteq Values
    BY <1>2, SlotFacts
<1>5. "llm" \in Values /\ "context" \in Values /\ "other" \in Values
    BY DEF Values, Failures
<1>6. CASE Begin(r)
  <2>1. Call("running") \in Slots /\ Call("running").st = "running"
      BY SlotFacts
  <2>2. thread' = [thread EXCEPT ![r] = Call("running")]
        /\ UNCHANGED <<control, runner, work, ghosts>>
      BY <1>6 DEF Begin
  <2> QED BY <1>1, <1>2, <2>1, <2>2 DEF Calling
<1>7. CASE Retry(r)
  <2> DEFINE d == [thread[r] EXCEPT !.try = @ + 1]
  <2>1. d \in Slots /\ d.st = "running"
      BY <1>1, <1>7, SlotFacts DEF Retry
  <2>2. thread' = [thread EXCEPT ![r] = d] /\ UNCHANGED <<control, runner, work, ghosts>>
      BY <1>7 DEF Retry
  <2> HIDE DEF d
  <2> QED BY <1>1, <1>2, <2>1, <2>2 DEF Calling
<1>8. CASE Answer(r)
  <2>1. PICK a \in Answers(stage) : Finishes(r, "ok", a)
      BY <1>8 DEF Answer
  <2>2. a \in Values /\ calls' = calls + 1 /\ unanswered' = unanswered
        /\ transcripts' = IF IsAgentic THEN transcripts + 1 ELSE transcripts
      BY <1>4, <1>8 DEF Answer, Returns
  <2> QED BY <1>1, <1>2, <1>3, <2>1, <2>2 DEF Calling
<1>9. CASE Fallback(r)
  <2>1. PICK a \in Answers(stage) : Finishes(r, "ok", a)
      BY <1>9 DEF Fallback
  <2>2. IsAgentic /\ calls' = calls + 1 /\ unanswered' = TRUE
        /\ transcripts' = IF IsAgentic THEN transcripts + 1 ELSE transcripts
      BY <1>9 DEF Fallback, Returns
  <2> QED BY <1>1, <1>2, <1>3, <1>4, <2>1, <2>2 DEF Calling
<1>10. CASE Raise(r) \/ ProbeFails(r)
  <2>1. PICK v \in Failures : Finishes(r, "raised", v)
      BY <1>10 DEF Raise, ProbeFails, Failures
  <2>2. UNCHANGED <<calls, transcripts>>
      BY <1>10 DEF Raise, ProbeFails
  <2>3. v \in Values
      BY DEF Values
  <2> QED BY <1>1, <1>2, <1>3, <2>1, <2>2, <2>3 DEF Calling
<1> QED BY <1>6, <1>7, <1>8, <1>9, <1>10 DEF StageCall

\* What the path's own thread does: it goes on from where no call is out, a
\* stage is left by an exception, or the exception has come up.
Free ==
    /\ pc \notin {"unwind", "done"}
    /\ pc = "fan" => \A r \in Fan(stage) : thread[r].st = "ok"
Rests ==
    /\ pc' \in {"loaded", "finish", "debate", "record", "done"}
    /\ UNCHANGED <<thread, cfg, stage, error>>
    /\ pc' = "done" => outcome' \in Outcomes
    /\ pc' # "done" => outcome' = outcome
    /\ pc' \in {"debate", "record"} => cfg.deep
    /\ pc' = "finish" => ~cfg.deep
GoesOn ==
    /\ Free
    /\ Rests \/ \E s \in Stages : Launched(s)
    /\ UNCHANGED calls
    /\ unanswered' = unanswered \/ (pc' = "done" /\ outcome' # "COMPLETED")
    /\ pc' # "done" => transcripts' = transcripts
    /\ pc' = "done" /\ outcome' = "COMPLETED" => cfg.deep \/ attached' = transcripts
Breaks ==
    /\ pc = "fan" /\ pc' = "unwind" /\ error' \in Failures \cup {"interrupt"}
    /\ thread' \in [Replicas -> Slots]
    /\ \A r \in Replicas :
         \/ thread'[r] = NoCall
         \/ thread'[r] = thread[r] /\ (cfg.deep \/ ~Busy(r))
    /\ UNCHANGED <<cfg, stage, outcome, transcripts, attached, calls, unanswered>>
ComesUp ==
    /\ pc = "unwind" /\ (\A r \in Replicas : ~Busy(r))
    /\ pc' = "done" /\ outcome' # "COMPLETED" /\ outcome' \in Outcomes
    /\ UNCHANGED <<cfg, stage, error, thread, calls>>

LEMMA LaunchGoesOn ==
    ASSUME Free, NEW s \in Stages, Launch(s), UNCHANGED <<runner, unanswered, calls>>
    PROVE  GoesOn
<1>1. Launched(s)
    BY LaunchEffect
<1>2. pc' # "done"
    BY <1>1 DEF Launched
<1> QED BY <1>1, <1>2 DEF GoesOn

LEMMA NextFindingGoesOn ==
    ASSUME Free, NEW rest, NextFinding(rest), UNCHANGED <<runner, unanswered, calls>>,
           cfg.deep
    PROVE  GoesOn
<1>1. CASE DOMAIN rest = {}
    BY <1>1 DEF NextFinding, Done, GoesOn, Rests, Outcomes
<1>2. CASE DOMAIN rest # {}
  <2>1. Launch("validator") /\ "validator" \in Stages
      BY <1>2 DEF NextFinding, Stages
  <2> QED BY <2>1, LaunchGoesOn
<1> QED BY <1>1, <1>2

LEMMA SettleGoesOn ==
    ASSUME Free, NEW v, Settle(v), UNCHANGED <<runner, unanswered, calls>>, cfg.deep
    PROVE  GoesOn
<1>1. CASE Launch("exploiter")
  <2>1. "exploiter" \in Stages
      BY DEF Stages
  <2> QED BY <1>1, <2>1, LaunchGoesOn
<1>2. CASE Goto("record") /\ UNCHANGED thread
    BY <1>2 DEF Goto, GoesOn, Rests
<1> QED BY <1>1, <1>2 DEF Settle

LEMMA MainEffect ==
    ASSUME Shapes, Within, Main PROVE GoesOn \/ Breaks \/ ComesUp
<1>0. "analyzer" \in Stages /\ "validator" \in Stages /\ "exploiter" \in Stages
      /\ thread \in [Replicas -> Slots]
    BY DEF Stages, Shapes
<1>j. \A s \in Stages : Joined(s) => Free /\ pc = "fan" /\ stage = s
    BY DEF Joined, Free
<1>o. /\ \A e \in Failures \cup {"interrupt"} : OutcomeOf(e) \in Outcomes \ {"COMPLETED", "none"}
      /\ OutcomeOf("neo4j") \in Outcomes \ {"COMPLETED", "none"}
    BY DEF OutcomeOf, Failures, Outcomes
<1>1. CASE CancelledAtStart \/ Load \/ Interrupted
    BY <1>1, <1>o DEF CancelledAtStart, Load, Interrupted, Done, Goto, GoesOn, Free, Rests,
                      Failures, Outcomes
<1>2. CASE AfterLoad
  <2>1. Free /\ UNCHANGED <<runner, unanswered, calls>>
      BY <1>2 DEF AfterLoad, Free
  <2>2. CASE cancelled
      BY <1>2, <2>1, <2>2 DEF AfterLoad, Done, GoesOn, Rests, Outcomes
  <2>3. CASE ~cancelled
    <3>1. Launch("analyzer")
        BY <1>2, <2>3 DEF AfterLoad
    <3> QED BY <1>0, <2>1, <3>1, LaunchGoesOn
  <2> QED BY <2>2, <2>3
<1>3. CASE Raised
  <2>1. PICK r \in Fan(stage) : thread[r].st = "raised" /\ error' = thread[r].val
      BY <1>3 DEF Raised
  <2>2. /\ pc = "fan" /\ pc' = "unwind" /\ stage \in Stages
        /\ UNCHANGED <<thread, cfg, stage, outcome, transcripts, attached, calls, unanswered>>
      BY <1>3 DEF Raised, Shapes
  <2>3. r \in Replicas /\ (~cfg.deep => Fan(stage) = {r})
      BY <2>1, <2>2, FanFacts
  <2>4. error' \in Failures
      BY <2>1, <2>3 DEF Shapes
  <2>5. ASSUME NEW q \in Replicas, ~cfg.deep PROVE ~Busy(q)
    <3>1. thread[q].st # "idle" => q = r
        BY <2>2, <2>3, <2>5 DEF Within
    <3> QED BY <2>1, <3>1 DEF Busy
  <2> QED BY <1>0, <2>2, <2>4, <2>5 DEF Breaks
<1>4. CASE CancelSeen
  <2>1. /\ pc = "fan" /\ pc' = "unwind" /\ error' = "interrupt"
        /\ UNCHANGED <<cfg, stage, outcome, transcripts, attached, calls, unanswered>>
      BY <1>4 DEF CancelSeen
  <2> DEFINE c(r) == IF thread[r].st = "queued" \/ (~cfg.deep /\ Busy(r)) THEN NoCall
                     ELSE thread[r]
  <2>2. thread' = [r \in Replicas |-> c(r)]
      BY <1>4 DEF CancelSeen
  <2>3. \A r \in Replicas : /\ c(r) \in Slots
                            /\ c(r) = NoCall \/ (c(r) = thread[r] /\ (cfg.deep \/ ~Busy(r)))
      BY <1>0, SlotFacts
  <2> HIDE DEF c
  <2> QED BY <2>1, <2>2, <2>3 DEF Breaks
<1>5. CASE Unwind
    BY <1>5, <1>o DEF Unwind, Done, ComesUp, Shapes
<1>6. CASE AnalyzedOne
  <2>1. Free /\ UNCHANGED <<runner, unanswered, calls>> /\ ~cfg.deep
      BY <1>0, <1>6, <1>j DEF AnalyzedOne
  <2>2. \/ Launch("analyzer") \/ Launch("validator")
        \/ Goto("finish") /\ UNCHANGED thread
      BY <1>6 DEF AnalyzedOne
  <2>3. CASE Goto("finish") /\ UNCHANGED thread
      BY <2>1, <2>3 DEF Goto, GoesOn, Rests
  <2> QED BY <1>0, <2>1, <2>2, <2>3, LaunchGoesOn
<1>7. CASE ValidatedOne \/ ExploitedOne
  <2>1. Free /\ UNCHANGED <<runner, unanswered, calls>> /\ ~cfg.deep
      BY <1>0, <1>7, <1>j DEF ValidatedOne, ExploitedOne
  <2>2. \/ Launch("analyzer") \/ Launch("exploiter")
        \/ Goto("finish") /\ UNCHANGED thread
      BY <1>7 DEF ValidatedOne, ExploitedOne, Accept
  <2>3. CASE Goto("finish") /\ UNCHANGED thread
      BY <2>1, <2>3 DEF Goto, GoesOn, Rests
  <2> QED BY <1>0, <2>1, <2>2, <2>3, LaunchGoesOn
<1>8. CASE Finish
    BY <1>8 DEF Finish, Done, GoesOn, Rests, Free, Outcomes, Shapes
<1>9. CASE AnalyzedTeam
  <2>1. Free /\ UNCHANGED <<runner, unanswered, calls>> /\ cfg.deep
      BY <1>0, <1>9, <1>j DEF AnalyzedTeam
  <2>2. \E rest : NextFinding(rest)
      BY <1>9 DEF AnalyzedTeam
  <2> QED BY <2>1, <2>2, NextFindingGoesOn
<1>10. CASE SummaryRaises
  <2>1. Free
      BY <1>0, <1>10, <1>j DEF SummaryRaises
  <2>2. \E e \in Failures : Done(OutcomeOf(e))
      BY <1>10 DEF SummaryRaises, Failures
  <2>3. UNCHANGED <<thread, runner, calls>>
      BY <1>10 DEF SummaryRaises
  <2> QED BY <1>o, <2>1, <2>2, <2>3 DEF Done, GoesOn, Rests
<1>15. CASE TeamRefused
  <2>1. /\ pc = "fan" /\ pc' = "unwind" /\ error' = "other"
        /\ thread' = [r \in Replicas |-> NoCall]
        /\ UNCHANGED <<cfg, stage, outcome, transcripts, attached, calls, unanswered>>
      BY <1>15 DEF TeamRefused
  <2> QED BY <2>1, SlotFacts DEF Breaks, Failures
<1>11. CASE ValidatedTeam
  <2>1. Free /\ UNCHANGED <<runner, unanswered, calls>> /\ cfg.deep
      BY <1>0, <1>11, <1>j DEF ValidatedTeam
  <2>2. (\E v : Settle(v)) \/ (Goto("debate") /\ UNCHANGED thread)
      BY <1>11 DEF ValidatedTeam
  <2>3. CASE Goto("debate") /\ UNCHANGED thread
      BY <2>1, <2>3 DEF Goto, GoesOn, Rests
  <2> QED BY <2>1, <2>2, <2>3, SettleGoesOn
<1>12. CASE DebateTurn
  <2>1. Free /\ UNCHANGED <<runner, unanswered, calls>> /\ cfg.deep
      BY <1>12 DEF DebateTurn, Free, Shapes
  <2>2. (\E v : Settle(v)) \/ (Goto("debate") /\ UNCHANGED thread)
      BY <1>12 DEF DebateTurn, RoundEnds
  <2>3. CASE Goto("debate") /\ UNCHANGED thread
      BY <2>1, <2>3 DEF Goto, GoesOn, Rests
  <2> QED BY <2>1, <2>2, <2>3, SettleGoesOn
<1>13. CASE DebateRaises
    BY <1>13 DEF DebateRaises, Done, GoesOn, Rests, Free, Outcomes
<1>14. CASE RecordUnexploited \/ ExploitedTeam
  <2>1. Free /\ UNCHANGED <<runner, unanswered, calls>> /\ cfg.deep
      BY <1>0, <1>14, <1>j DEF RecordUnexploited, ExploitedTeam, Free, Shapes
  <2>2. NextFinding(todo)
      BY <1>14 DEF RecordUnexploited, ExploitedTeam, Record
  <2> QED BY <2>1, <2>2, NextFindingGoesOn
<1> QED BY <1>1, <1>2, <1>3, <1>4, <1>5, <1>6, <1>7, <1>8, <1>9, <1>10, <1>11, <1>12,
           <1>13, <1>14, <1>15 DEF Main

LEMMA StepCases ==
    ASSUME Shapes, Within, [Next]_vars
    PROVE  \/ GoesOn \/ Breaks \/ ComesUp \/ (\E r \in Replicas : Calling(r))
           \/ UNCHANGED <<control, thread, runner, work, unanswered, calls>>
<1>1. CASE Main
    BY <1>1, MainEffect
<1>2. CASE \E r \in Replicas : StageCall(r)
    BY <1>2, CallEffect
<1>3. CASE Cancel \/ UNCHANGED vars
    BY <1>3 DEF Cancel, vars
<1> QED BY <1>1, <1>2, <1>3 DEF Next

LEMMA NothingOut ==
    ASSUME Shapes, Within, Free PROVE \A r \in Replicas : ~Busy(r)
BY DEF Within, Free, Busy

LEMMA ThreadInit == Init => Shapes /\ Within
<1> SUFFICES ASSUME Init PROVE Shapes /\ Within
    OBVIOUS
<1>1. \A r \in Replicas : thread[r] = NoCall /\ thread[r].st = "idle"
    BY SlotFacts DEF Init
<1>2. thread \in [Replicas -> Slots]
    BY SlotFacts DEF Init
<1> QED BY <1>1, <1>2 DEF Init, Shapes, Within, Busy, Errors, Outcomes

LEMMA ThreadStep ==
    ASSUME Shapes, Within, [Next]_vars PROVE Shapes' /\ Within'
<1>1. CASE GoesOn
  <2>1. Free /\ \A r \in Replicas : ~Busy(r)
      BY <1>1, NothingOut DEF GoesOn
  <2>2. CASE Rests
    <3>1. Shapes'
        BY <2>2, <2>1 DEF Rests, Shapes, Free
    <3>2. Within'
        BY <2>1, <2>2 DEF Rests, Within, Busy
    <3> QED BY <3>1, <3>2
  <2>3. ASSUME NEW s \in Stages, Launched(s) PROVE Shapes' /\ Within'
    <3>1. Shapes'
        BY <2>1, <2>3 DEF Launched, Shapes, Free
    <3>2. Within'
        BY <2>3 DEF Launched, Within, Fan
    <3> QED BY <3>1, <3>2
  <2> QED BY <1>1, <2>2, <2>3 DEF GoesOn
<1>2. CASE Breaks
  <2>1. NoCall.st = "idle"
      BY SlotFacts
  <2>2. Shapes'
      BY <1>2, <2>1 DEF Breaks, Shapes, Failures, Errors
  <2>3. Within'
      BY <1>2, <2>1 DEF Breaks, Within, Busy
  <2> QED BY <2>2, <2>3
<1>3. CASE ComesUp
    BY <1>3 DEF ComesUp, Shapes, Within, Busy
<1>4. ASSUME NEW r \in Replicas, Calling(r) PROVE Shapes' /\ Within'
  <2>1. UNCHANGED <<cfg, pc, stage, error, outcome>>
      BY <1>4 DEF Calling
  <2>2. Shapes'
    <3>1. \A q \in Replicas : thread'[q].st = "raised" => thread'[q].val \in Failures
        BY <1>4 DEF Calling, Shapes
    <3> QED BY <1>4, <2>1, <3>1 DEF Calling, Shapes
  <2>3. Within'
    <3>1. pc \in {"fan", "unwind"} /\ (pc = "unwind" => cfg.deep)
        BY <1>4 DEF Calling, Within
    <3>2. pc = "fan" => \A q \in Replicas : thread'[q].st # "idle" => q \in Fan(stage)
        BY <1>4 DEF Calling, Within, Busy
    <3> QED BY <2>1, <3>1, <3>2 DEF Within, Fan
  <2> QED BY <2>2, <2>3
<1>5. CASE UNCHANGED <<control, thread>>
    BY <1>5 DEF Shapes, Within, Busy, Fan
<1> QED BY <1>1, <1>2, <1>3, <1>4, <1>5, StepCases

LEMMA AnsweredStep ==
    ASSUME Shapes, Within, Answered, [Next]_vars PROVE Answered'
<1>1. CASE GoesOn
  <2>1. ~(unanswered /\ ~cfg.agentic)
      BY <1>1 DEF GoesOn, Free, Answered
  <2>2. cfg' = cfg /\ (unanswered' = unanswered \/ (pc' = "done" /\ outcome' # "COMPLETED"))
      BY <1>1 DEF GoesOn, Rests, Launched
  <2> QED BY <2>1, <2>2 DEF Answered
<1>2. CASE Breaks \/ ComesUp
    BY <1>2 DEF Breaks, ComesUp, Answered
<1>3. ASSUME NEW r \in Replicas, Calling(r) PROVE Answered'
  <2>1. UNCHANGED <<cfg, pc, stage, outcome>> /\ Busy(r) /\ pc \in {"fan", "unwind"}
      BY <1>3 DEF Calling
  <2>2. CASE pc = "unwind"
      BY <2>1, <2>2 DEF Answered
  <2>3. CASE pc = "fan"
    <3>0. r \in Fan(stage) /\ stage \in Stages /\ Fan(stage) \subseteq Replicas
        BY <2>1, <2>3, FanFacts DEF Within, Busy, Shapes
    <3>1. CASE thread'[r].st = "raised"
        BY <2>1, <2>3, <3>0, <3>1 DEF Answered, Fan
    <3>2. CASE thread'[r].st # "raised"
      <4>1. unanswered' /\ ~cfg.agentic => unanswered
          BY <1>3, <3>2 DEF Calling, IsAgentic, Shapes
      <4>2. \A q \in Fan(stage) : thread[q].st = "raised" => thread'[q].st = "raised"
          BY <1>3, <2>1, <3>0 DEF Calling, Busy
      <4>3. unanswered' /\ ~cfg.agentic => \E q \in Fan(stage) : thread'[q].st = "raised"
          BY <2>3, <4>1, <4>2 DEF Answered
      <4> QED BY <2>1, <2>3, <4>3 DEF Answered, Fan
    <3> QED BY <3>1, <3>2
  <2> QED BY <2>1, <2>2, <2>3
<1>4. CASE UNCHANGED <<control, thread, unanswered>>
    BY <1>4 DEF Answered, Fan
<1> QED BY <1>1, <1>2, <1>3, <1>4, StepCases

LEMMA TranscribedStep ==
    ASSUME Shapes, Within, Transcribed, [Next]_vars PROVE Transcribed'
<1>1. CASE GoesOn
  <2>1. cfg' = cfg /\ pc # "done" /\ outcome = "none"
      BY <1>1 DEF GoesOn, Rests, Launched, Free, Shapes
  <2>2. pc' # "done" => outcome' = "none"
      BY <1>1, <2>1 DEF GoesOn, Rests, Launched
  <2> QED BY <1>1, <2>1, <2>2 DEF GoesOn, Transcribed
<1>2. CASE Breaks \/ ComesUp
    BY <1>2 DEF Breaks, ComesUp, Transcribed, Shapes
<1>3. ASSUME NEW r \in Replicas, Calling(r) PROVE Transcribed'
  <2>1. UNCHANGED <<cfg, pc, stage, outcome>> /\ pc # "done" /\ outcome = "none"
      BY <1>3 DEF Calling, Shapes
  <2>2. cfg.agentic /\ ~cfg.deep => IsAgentic
      BY DEF IsAgentic
  <2>3. cfg.agentic /\ ~cfg.deep => transcripts' = calls'
      BY <1>3, <2>1, <2>2 DEF Calling, Transcribed
  <2> QED BY <2>1, <2>3 DEF Transcribed
<1>4. CASE UNCHANGED <<control, runner, calls>>
    BY <1>4 DEF Transcribed
<1> QED BY <1>1, <1>2, <1>3, <1>4, StepCases

(***************************************************************************)
(* The calls of the fast chain.  Two analyzer calls, one validator and one *)
(* exploiter call at most go into a finding, and no stage is started once  *)
(* the cap is reached.                                                     *)
(***************************************************************************)
FindingSet == [keys : SUBSET Keys, rank : {0} \cup EvidenceRanks, verdict : Verdicts,
               exploit : DOMAIN ExploitRank \cup {"skipped"}]
Debates == [round : 0 .. MaxRounds, turn : 0 .. 2, v : (0 .. VALID) \X (0 .. VALID)]

\* The calls a finding may have taken before its stage s is called.
Spent(s) == CASE s = "analyzer" -> idle
              [] s = "validator" -> 2
              [] OTHER -> 3
InStage ==
    /\ idle \in {0, 1} /\ Len(findings) < Cap
    /\ thread[1].st = "ok" => thread[1].val \in Answers(stage)
    /\ stage \in {"validator", "exploiter"} => cur \in Candidates
    /\ stage = "exploiter" => debate.v[1] \in Verdicts
    /\ calls <= 4 * Len(findings) + Spent(stage)
                    + (IF thread[1].st = "ok" THEN 1 ELSE 0)
Fast ==
    /\ findings \in Seq(FindingSet) /\ debate \in Debates /\ calls <= 4 * Cap
    /\ pc \in {"start", "loaded"} => findings = <<>> /\ calls = 0 /\ idle = 0
    /\ pc = "fan" => InStage
Bounded == calls \in Nat /\ (~cfg.deep => Fast)

LEMMA BoundedInit == Init => Bounded
<1> SUFFICES ASSUME Init PROVE Bounded
    OBVIOUS
<1>1. findings = <<>> /\ calls = 0 /\ idle = 0 /\ pc = "start"
    BY DEF Init
<1>2. calls <= 4 * Cap
    BY <1>1, CapAssumption
<1>3. findings \in Seq(FindingSet)
    BY <1>1
<1>4. debate \in Debates
    BY RoundsAssumption DEF Init, NoDebate, Debates, VALID
<1> QED BY <1>1, <1>2, <1>3, <1>4 DEF Bounded, Fast

\* A stage started with calls to spare.
LEMMA LaunchFast ==
    ASSUME NEW s \in Stages, Launched(s), ~cfg.deep,
           calls \in Nat, calls' = calls, calls <= 4 * Cap,
           findings' \in Seq(FindingSet), Len(findings') < Cap, debate' \in Debates,
           idle' \in {0, 1},
           s \in {"validator", "exploiter"} => cur' \in Candidates,
           s = "exploiter" => debate'.v[1] \in Verdicts,
           calls <= 4 * Len(findings') + Spent(s)'
    PROVE  Fast'
<1>1. thread'[1].st # "ok" /\ pc' = "fan" /\ stage' = s
    BY FanFacts DEF Launched
<1>2. (calls <= 4 * Len(findings) + Spent(stage)
                  + (IF thread[1].st = "ok" THEN 1 ELSE 0))'
  <2>1. Spent(stage)' \in Nat /\ Spent(stage)' = Spent(s)'
      BY <1>1 DEF Spent
  <2>2. Len(findings') \in Nat
      OBVIOUS
  <2> QED BY <1>1, <2>1, <2>2
<1>3. InStage'
    BY <1>1, <1>2 DEF InStage
<1> QED BY <1>1, <1>3 DEF Fast

\* A finding accepted after the calls it may take.
LEMMA AcceptFast ==
    ASSUME Shapes, Within, Bounded, ~cfg.deep, Free, pc = "fan", cur \in Candidates,
           NEW v \in Verdicts, NEW e \in DOMAIN ExploitRank \cup {"skipped"},
           Accept(v, e), calls' = calls
    PROVE  Fast'
<1>1. /\ findings \in Seq(FindingSet) /\ calls \in Nat /\ calls <= 4 * Cap
      /\ Len(findings) < Cap /\ Len(findings) \in Nat /\ idle \in {0, 1}
      /\ stage \in Stages
      /\ calls <= 4 * Len(findings) + Spent(stage)
                    + (IF thread[1].st = "ok" THEN 1 ELSE 0)
    BY DEF Bounded, Fast, InStage, Shapes
<1>2. calls <= 4 * Len(findings) + 4
  <2>1. Spent(stage) \in Nat /\ Spent(stage) <= 3
      BY <1>1 DEF Spent
  <2> QED BY <1>1, <2>1
<1>3. Finding(v, e) \in FindingSet
    BY DEF Finding, FindingSet, Candidates
<1>4. findings' = Append(findings, Finding(v, e)) /\ idle' = 0 /\ debate' = debate
      /\ debate \in Debates
    BY DEF Accept, Bounded, Fast
<1>5. findings' \in Seq(FindingSet) /\ Len(findings') = Len(findings) + 1
    BY <1>1, <1>3, <1>4
<1>6. CASE Len(findings) + 1 < Cap
  <2>1. Launch("analyzer") /\ "analyzer" \in Stages
      BY <1>6 DEF Accept, Stages
  <2>2. Launched("analyzer")
      BY <2>1, LaunchEffect
  <2>3. Spent("analyzer")' = 0
      BY <1>4 DEF Spent
  <2>4. calls <= 4 * Len(findings') + Spent("analyzer")'
      BY <1>1, <1>2, <1>5, <2>3
  <2> QED BY <1>1, <1>4, <1>5, <1>6, <2>1, <2>2, <2>4, LaunchFast
<1>7. CASE ~(Len(findings) + 1 < Cap)
  <2>1. pc' = "finish"
      BY <1>7 DEF Accept, Goto
  <2> QED BY <1>1, <1>4, <1>5, <2>1 DEF Fast
<1> QED BY <1>6, <1>7

LEMMA FastCalling ==
    ASSUME Shapes, Within, Bounded, NEW r \in Replicas, Calling(r) PROVE Bounded'
<1>1. /\ UNCHANGED <<cfg, pc, stage, idle, cur, debate, findings>> /\ calls \in Nat
      /\ calls' \in {calls, calls + 1} /\ calls' \in Nat
    BY DEF Calling, Bounded
<1>2. ASSUME ~cfg.deep PROVE Fast'
  <2>1. pc = "fan" /\ stage \in Stages /\ r = 1
      BY <1>2, FanFacts DEF Calling, Within, Busy, Shapes
  <2>2. /\ findings \in Seq(FindingSet) /\ Len(findings) \in Nat /\ Len(findings) < Cap
        /\ idle \in {0, 1}
        /\ stage \in {"validator", "exploiter"} => cur \in Candidates
        /\ stage = "exploiter" => debate.v[1] \in Verdicts
        /\ calls <= 4 * Len(findings) + Spent(stage)
    <3>1. InStage /\ findings \in Seq(FindingSet) /\ idle \in {0, 1} /\ thread[1].st # "ok"
        BY <1>2, <2>1 DEF Bounded, Fast, InStage, Calling, Busy
    <3>2. Spent(stage) \in Nat /\ Len(findings) \in Nat
        BY <3>1 DEF Spent
    <3> QED BY <3>1, <3>2 DEF InStage
  <2>3. Spent(stage) \in Nat /\ Spent(stage) <= 3 /\ Spent(stage)' = Spent(stage)
      BY <1>1, <2>1, <2>2 DEF Spent
  <2>4. calls' <= 4 * Len(findings) + Spent(stage) + (IF thread'[1].st = "ok" THEN 1 ELSE 0)
    <3>1. CASE calls' = calls
        BY <1>1, <2>2, <2>3, <3>1
    <3>2. CASE calls' # calls
      <4>1. thread'[1].st = "ok" /\ calls' = calls + 1
          BY <1>1, <2>1, <3>2 DEF Calling
      <4> QED BY <1>1, <2>2, <2>3, <4>1
    <3> QED BY <3>1, <3>2
  <2>5. thread'[1].st = "ok" => thread'[1].val \in Answers(stage)
      BY <2>1 DEF Calling
  <2>6. calls' <= 4 * Cap
      BY <1>1, <2>2, <2>3, <2>4, CapAssumption
  <2>7. InStage'
      BY <1>1, <2>2, <2>3, <2>4, <2>5 DEF InStage, Answers
  <2>8. debate \in Debates
      BY <1>2 DEF Bounded, Fast
  <2> QED BY <1>1, <2>1, <2>2, <2>6, <2>7, <2>8 DEF Fast
<1> QED BY <1>1, <1>2 DEF Bounded

LEMMA BoundedStep ==
    ASSUME Shapes, Within, Bounded, [Next]_vars PROVE Bounded'
<1>0. calls \in Nat /\ "analyzer" \in Stages /\ "validator" \in Stages /\ "exploiter" \in Stages
    BY DEF Bounded, Stages
<1>1. CASE \E r \in Replicas : StageCall(r)
    BY <1>1, CallEffect, FastCalling
<1>2. CASE Cancel \/ UNCHANGED vars
  <2>1. UNCHANGED <<control, thread, work, calls>>
      BY <1>2 DEF Cancel, vars
  <2> QED BY <2>1 DEF Bounded, Fast, InStage, Spent, Answers
<1>3. CASE Main
  <2>1. cfg' = cfg /\ calls' = calls
      BY <1>3, MainEffect DEF GoesOn, Rests, Launched, Breaks, ComesUp
  <2>2. ASSUME ~cfg.deep PROVE Fast'
    <3>0. /\ Fast /\ debate \in Debates /\ findings \in Seq(FindingSet) /\ calls <= 4 * Cap
          /\ thread \in [Replicas -> Slots] /\ Len(findings) \in Nat /\ Cap \in Nat \ {0}
        BY <2>2, CapAssumption DEF Bounded, Fast, Shapes
    <3>1. CASE pc' \notin {"loaded", "fan"} /\ UNCHANGED <<findings, debate>>
      <4>1. pc' # "start"
          BY <1>3, MainEffect DEF GoesOn, Rests, Launched, Breaks, ComesUp
      <4> QED BY <2>1, <3>0, <3>1, <4>1 DEF Fast
    <3>2. CASE CancelledAtStart \/ Raised \/ CancelSeen \/ Unwind \/ Interrupted \/ Finish
               \/ TeamRefused \/ SummaryRaises \/ DebateRaises
      <4>1. pc' \notin {"loaded", "fan"} /\ UNCHANGED <<findings, debate>>
          BY <3>2 DEF CancelledAtStart, Raised, CancelSeen, Unwind, Interrupted, Finish,
                      TeamRefused, SummaryRaises, DebateRaises, Done
      <4> QED BY <3>1, <4>1
    <3>3. CASE Load
      <4>1. pc = "start" /\ UNCHANGED <<findings, debate, idle>> /\ pc' \in {"loaded", "done"}
          BY <3>3 DEF Load, Goto, Done
      <4> QED BY <2>1, <3>0, <4>1 DEF Fast
    <3>4. CASE AfterLoad
      <4>1. pc = "loaded" /\ UNCHANGED <<findings, debate, idle>>
          BY <3>4 DEF AfterLoad
      <4>2. CASE cancelled
          BY <3>1, <3>4, <4>1, <4>2 DEF AfterLoad, Done
      <4>3. CASE ~cancelled
        <5>1. Launched("analyzer")
            BY <1>0, <3>4, <4>3, LaunchEffect DEF AfterLoad
        <5>2. findings' = <<>> /\ calls = 0 /\ idle' = 0 /\ Len(findings') = 0
            BY <3>0, <4>1 DEF Fast
        <5>3. Spent("analyzer")' = 0
            BY <5>2 DEF Spent
        <5> QED BY <1>0, <2>1, <2>2, <3>0, <4>1, <5>1, <5>2, <5>3, LaunchFast
      <4> QED BY <4>2, <4>3
    <3>5. CASE AnalyzedOne \/ ValidatedOne \/ ExploitedOne
      <4>1. /\ Free /\ pc = "fan" /\ stage \in Stages /\ thread[1].st = "ok"
            /\ AnalyzedOne => stage = "analyzer"
            /\ ValidatedOne => stage = "validator"
            /\ ExploitedOne => stage = "exploiter"
          BY <2>2, <3>5, FanFacts
          DEF AnalyzedOne, ValidatedOne, ExploitedOne, Joined, Free, Stages
      <4>2. /\ InStage /\ idle \in {0, 1} /\ Len(findings) < Cap
            /\ thread[1].val \in Answers(stage)
            /\ stage \in {"validator", "exploiter"} => cur \in Candidates
            /\ stage = "exploiter" => debate.v[1] \in Verdicts
            /\ calls <= 4 * Len(findings) + Spent(stage) + 1
          BY <3>0, <4>1 DEF Fast, InStage
      <4>3. CASE AnalyzedOne
        <5>1. calls <= 4 * Len(findings) + idle + 1 /\ UNCHANGED <<findings, debate>>
            BY <4>1, <4>2, <4>3 DEF Spent, AnalyzedOne
        <5>2. CASE ~(idle' = idle + 1)
          <6>1. /\ thread[1].val \in Candidates /\ cur' = thread[1].val
                /\ Launch("validator") /\ idle' = idle
              BY <4>1, <4>2, <4>3, <5>2 DEF AnalyzedOne, Answers
          <6>2. Launched("validator")
              BY <1>0, <6>1, LaunchEffect
          <6>3. Spent("validator")' = 2
              BY DEF Spent
          <6>4. calls <= 4 * Len(findings') + Spent("validator")'
              BY <1>0, <3>0, <4>2, <5>1, <6>3
          <6> QED BY <1>0, <2>1, <2>2, <3>0, <4>2, <5>1, <6>1, <6>2, <6>4, LaunchFast
        <5>3. CASE idle' = idle + 1 /\ idle = 0
          <6>1. Launch("analyzer")
              BY <4>3, <5>3 DEF AnalyzedOne
          <6>2. Launched("analyzer")
              BY <1>0, <6>1, LaunchEffect
          <6>3. Spent("analyzer")' = 1
              BY <5>3 DEF Spent
          <6>4. calls <= 4 * Len(findings') + Spent("analyzer")'
              BY <1>0, <3>0, <4>2, <5>1, <5>3, <6>3
          <6> QED BY <1>0, <2>1, <2>2, <3>0, <4>2, <5>1, <5>3, <6>2, <6>4, LaunchFast
        <5>4. CASE idle' = idle + 1 /\ idle = 1
          <6>1. Goto("finish")
              BY <4>3, <5>4 DEF AnalyzedOne
          <6> QED BY <3>1, <5>1, <6>1 DEF Goto
        <5> QED BY <4>2, <5>2, <5>3, <5>4
      <4>4. CASE ValidatedOne
        <5>1. thread[1].val \in Verdicts /\ calls <= 4 * Len(findings) + 3 /\ cur \in Candidates
            BY <4>1, <4>2, <4>4 DEF Answers, Spent
        <5>2. CASE Accept(thread[1].val, "skipped")
            BY <2>1, <2>2, <4>1, <5>1, <5>2, AcceptFast
        <5>3. CASE ~Accept(thread[1].val, "skipped")
          <6>1. /\ Launch("exploiter") /\ UNCHANGED <<idle, cur, findings>>
                /\ debate' = [debate EXCEPT !.v = <<thread[1].val, thread[1].val>>]
              BY <4>4, <5>3 DEF ValidatedOne
          <6>2. Launched("exploiter")
              BY <1>0, <6>1, LaunchEffect
          <6>3. Spent("exploiter")' = 3
              BY DEF Spent
          <6>4. debate'.v[1] = thread[1].val /\ debate' \in Debates
            <7>1. thread[1].val \in 0 .. VALID
                BY <5>1 DEF Verdicts, FALSE_POSITIVE, VALID
            <7>2. <<thread[1].val, thread[1].val>> \in (0 .. VALID) \X (0 .. VALID)
                BY <7>1
            <7> QED BY <3>0, <6>1, <7>2 DEF Debates
          <6> QED BY <1>0, <2>1, <2>2, <3>0, <4>2, <5>1, <6>1, <6>2, <6>3, <6>4, LaunchFast
        <5> QED BY <5>2, <5>3
      <4>5. CASE ExploitedOne
        <5>1. /\ Downgraded(debate.v[1], thread[1].val) \in Verdicts
              /\ thread[1].val \in DOMAIN ExploitRank /\ cur \in Candidates
            BY <4>1, <4>2, <4>5
            DEF Answers, Downgraded, Verdicts, PARTIAL_VALID, FALSE_POSITIVE, VALID
        <5>2. Accept(Downgraded(debate.v[1], thread[1].val), thread[1].val)
            BY <4>5 DEF ExploitedOne
        <5> QED BY <2>1, <2>2, <4>1, <5>1, <5>2, AcceptFast
      <4> QED BY <3>5, <4>3, <4>4, <4>5
    <3>6. ~(AnalyzedTeam \/ ValidatedTeam \/ DebateTurn \/ RecordUnexploited \/ ExploitedTeam)
        BY <2>2 DEF AnalyzedTeam, ValidatedTeam, DebateTurn, RecordUnexploited,
                    ExploitedTeam, Shapes
    <3> QED BY <1>3, <3>2, <3>3, <3>4, <3>5, <3>6 DEF Main
  <2> QED BY <1>0, <2>1, <2>2 DEF Bounded
<1> QED BY <1>1, <1>2, <1>3 DEF Next

(***************************************************************************)
(* The findings.  The keys of the findings, of the candidate at hand and   *)
(* of the candidates to come never meet, and together they hold every      *)
(* candidate reported.                                                     *)
(***************************************************************************)
Flags ==
    /\ probed \in BOOLEAN /\ cancelled \in BOOLEAN /\ unanswered \in BOOLEAN
    /\ transcripts \in Nat /\ attached \in Nat

\* A candidate is validated, debated, exploited or about to be recorded.
AtHand == pc \in {"debate", "record"} \/ (pc = "fan" /\ stage \in {"validator", "exploiter"})

WorkTyped ==
    /\ idle \in 0 .. 2 /\ cur \in Clusters /\ debate \in Debates /\ checkpoint \in 0 .. VALID
    /\ \A q \in DOMAIN todo : todo[q] \in Clusters
    /\ findings \in Seq(FindingSet) /\ reported \subseteq Candidates
    /\ pc = "debate" => debate.round \in 1 .. MaxRounds /\ debate.turn \in {1, 2}
    /\ pc = "record" \/ (pc = "fan" /\ stage = "exploiter") => debate.v[1] \in Verdicts

Apart ==
    /\ FindingsDistinct
    /\ \A q \in DOMAIN todo :
         /\ \A i \in DOMAIN findings : findings[i].keys \cap todo[q].keys = {}
         /\ \A p \in DOMAIN todo : p # q => todo[p].keys \cap todo[q].keys = {}
    /\ AtHand => /\ \A i \in DOMAIN findings : findings[i].keys \cap cur.keys = {}
                 /\ \A q \in DOMAIN todo : todo[q].keys \cap cur.keys = {}
    /\ ~cfg.deep => \A i \in DOMAIN findings : \E k \in Keys : findings[i].keys = {k}

\* The path may still be completed, or has been.
Alive == pc # "unwind" /\ outcome \in {"none", "COMPLETED"}
Covers(f, c) == c.keys \subseteq f.keys /\ c.rank <= f.rank
Covered ==
    Alive => \A c \in reported :
        \/ \E i \in DOMAIN findings : Covers(findings[i], c)
        \/ AtHand /\ Covers(cur, c)
        \/ \E q \in DOMAIN todo : Covers(todo[q], c)

\* Where the path is in its candidates: the team's n-th finding comes from
\* its n-th record or a later one.
Beginning == pc \in {"start", "loaded"} \/ (pc = "fan" /\ stage = "analyzer")
Placed ==
    /\ outcome = "COMPLETED" => DOMAIN todo = {}
    /\ ~cfg.deep => DOMAIN todo = {} /\ Len(findings) <= Cap
    /\ cfg.deep => Len(findings) <= Analyzers
    /\ cfg.deep /\ Beginning => findings = <<>> /\ reported = {} /\ DOMAIN todo = {}
    /\ cfg.deep /\ AtHand =>
         /\ Len(findings) < Analyzers
         /\ \A q \in DOMAIN todo : q \in 1 .. Analyzers /\ Len(findings) + 1 < q

Weightiest(fs, v) ==
    /\ \A i \in DOMAIN fs : fs[i].verdict <= v
    /\ IF fs = <<>> THEN v = 0 ELSE \E i \in DOMAIN fs : fs[i].verdict = v
Weighed == cfg.deep \/ outcome = "COMPLETED" => Weightiest(findings, checkpoint)

Kept == Apart /\ Covered /\ Placed /\ Weighed
FindingsInv == Flags /\ WorkTyped /\ Kept

LEMMA MaxFacts ==
    ASSUME NEW S \in SUBSET (0 .. 4)
    PROVE  /\ Max0(S) \in 0 .. 4 /\ (S # {} => Max0(S) \in S) /\ \A x \in S : x <= Max0(S)
           /\ S # {} => \E m \in S : \A x \in S : m <= x
<1>1. CASE S = {}
    BY <1>1 DEF Max0
<1>2. CASE S # {}
  <2>1. \E m \in S : \A x \in S : x <= m
    <3>1. CASE 4 \in S
        BY <3>1
    <3>2. CASE 4 \notin S /\ 3 \in S
        BY <3>2
    <3>3. CASE 4 \notin S /\ 3 \notin S /\ 2 \in S
        BY <3>3
    <3>4. CASE 4 \notin S /\ 3 \notin S /\ 2 \notin S
      <4>1. PICK x \in S : TRUE
          BY <1>2
      <4>2. x \in {0, 1} /\ \A y \in S : y \in {0, 1}
          BY <3>4
      <4>3. 1 \in S \/ (1 \notin S /\ x = 0)
          BY <4>2
      <4> QED BY <4>1, <4>2, <4>3
    <3> QED BY <3>1, <3>2, <3>3, <3>4
  <2>2. \E m \in S : \A x \in S : m <= x
    <3>1. CASE 0 \in S
        BY <3>1
    <3>2. CASE 0 \notin S /\ 1 \in S
        BY <3>2
    <3>3. CASE 0 \notin S /\ 1 \notin S /\ 2 \in S
        BY <3>3
    <3>4. CASE 0 \notin S /\ 1 \notin S /\ 2 \notin S
      <4>1. PICK x \in S : TRUE
          BY <1>2
      <4>2. x \in {3, 4} /\ \A y \in S : y \in {3, 4}
          BY <3>4
      <4>3. 3 \in S \/ (3 \notin S /\ x = 4)
          BY <4>2
      <4> QED BY <4>1, <4>2, <4>3
    <3> QED BY <3>1, <3>2, <3>3, <3>4
  <2>3. Max0(S) \in S /\ \A x \in S : x <= Max0(S)
      BY <1>2, <2>1 DEF Max0
  <2> QED BY <2>2, <2>3
<1> QED BY <1>1, <1>2

LEMMA FlagsStep ==
    ASSUME Flags, Shapes, [Next]_vars PROVE Flags'
<1>1. CASE \E r \in Replicas : StageCall(r)
  <2>1. PICK r \in Replicas : StageCall(r)
      BY <1>1
  <2>2. CASE Begin(r) \/ Retry(r)
      BY <2>2 DEF Begin, Retry, Flags
  <2>3. CASE Answer(r) \/ Fallback(r)
    <3>0. Returns /\ (unanswered' = unanswered \/ unanswered' = TRUE)
        BY <2>3 DEF Answer, Fallback
    <3>1. probed' \in BOOLEAN /\ unanswered' \in BOOLEAN
      <4>1. probed' = (probed \/ IsAgentic)
          BY <3>0 DEF Returns
      <4>2. unanswered \in BOOLEAN
          BY DEF Flags
      <4> QED BY <3>0, <4>1, <4>2, Zenon
    <3>3. transcripts' \in Nat
        BY <3>0 DEF Returns, Flags
    <3>2. UNCHANGED <<attached, cancelled>>
        BY <2>3 DEF Answer, Fallback, Finishes
    <3> QED BY <3>1, <3>2, <3>3 DEF Flags
  <2>4. CASE Raise(r) \/ ProbeFails(r)
    <3>1. unanswered' \in BOOLEAN /\ UNCHANGED <<probed, transcripts>>
        BY <2>4 DEF Raise, ProbeFails
    <3>2. UNCHANGED <<attached, cancelled>>
        BY <2>4 DEF Raise, ProbeFails, Finishes
    <3> QED BY <3>1, <3>2 DEF Flags
  <2> QED BY <2>1, <2>2, <2>3, <2>4 DEF StageCall
<1>2. CASE Cancel \/ UNCHANGED vars
    BY <1>2 DEF Cancel, vars, Flags
<1>3. CASE Finish \/ SummaryRaises \/ DebateRaises
  <2>1. CASE Finish
      BY <2>1 DEF Finish, Flags
  <2>2. CASE SummaryRaises \/ DebateRaises
      BY <2>2 DEF SummaryRaises, DebateRaises, Flags
  <2> QED BY <1>3, <2>1, <2>2
<1>4. CASE Main /\ ~(Finish \/ SummaryRaises \/ DebateRaises)
  <2>1. UNCHANGED <<runner, cancelled, unanswered>>
      BY <1>4 DEF Main, CancelledAtStart, Load, AfterLoad, Raised, CancelSeen, Unwind,
                  Interrupted, AnalyzedOne, ValidatedOne, ExploitedOne, AnalyzedTeam,
                  TeamRefused, ValidatedTeam, DebateTurn, RecordUnexploited, ExploitedTeam
  <2> QED BY <2>1 DEF Flags
<1> QED BY <1>1, <1>2, <1>3, <1>4 DEF Next

\* A step that leaves the candidates and the findings alone, and the path
\* where it was in them unless the path fails.
Aside ==
    /\ UNCHANGED <<cfg, todo, cur, findings, checkpoint, reported>>
    /\ Alive' => Alive /\ (AtHand' <=> AtHand) /\ (Beginning' => Beginning)
    /\ ~Alive' => ~AtHand' /\ ~Beginning'
    /\ outcome' = "COMPLETED" => outcome = "COMPLETED"

LEMMA AsideKeeps ==
    ASSUME Kept, Aside PROVE Kept'
<1>1. AtHand' => AtHand
    BY DEF Aside
<1>2. Beginning' => Beginning
    BY DEF Aside
<1>3. Apart'
    BY <1>1 DEF Kept, Apart, Aside, FindingsDistinct
<1>4. Covered'
    BY DEF Kept, Covered, Aside, Covers
<1>5. Placed'
    BY <1>1, <1>2 DEF Kept, Placed, Aside
<1>6. Weighed'
    BY DEF Kept, Weighed, Weightiest, Aside
<1> QED BY <1>3, <1>4, <1>5, <1>6 DEF Kept

\* The findings and the candidates to come, before the next one is taken.
Ready(fs, rest, seen) ==
    /\ fs \in Seq(FindingSet) /\ Len(fs) <= Analyzers
    /\ \A q \in DOMAIN rest : /\ rest[q] \in Clusters
                              /\ q \in 1 .. Analyzers /\ Len(fs) < q
    /\ \A i, j \in DOMAIN fs : i # j => fs[i].keys \cap fs[j].keys = {}
    /\ \A q \in DOMAIN rest :
         /\ \A i \in DOMAIN fs : fs[i].keys \cap rest[q].keys = {}
         /\ \A p \in DOMAIN rest : p # q => rest[p].keys \cap rest[q].keys = {}
    /\ \A c \in seen : \/ \E i \in DOMAIN fs : Covers(fs[i], c)
                       \/ \E q \in DOMAIN rest : Covers(rest[q], c)

LEMMA NextFindingKeeps ==
    ASSUME cfg \in [deep : BOOLEAN, agentic : BOOLEAN, exploit : BOOLEAN, teams : SUBSET Stages],
           cfg.deep, outcome = "none",
           NEW rest, Ready(findings', rest, reported'), NextFinding(rest),
           Weightiest(findings', checkpoint')
    PROVE  Kept' /\ cur' \in Clusters /\ \A q \in DOMAIN todo' : todo'[q] \in Clusters
<1>0. "validator" \in Stages /\ Analyzers \in Nat
    BY ReplicationAssumption DEF Stages
<1>w. cfg' = cfg
    BY DEF NextFinding, Done, Launch
<1>1. CASE DOMAIN rest = {}
  <2>1. /\ pc' = "done" /\ outcome' = "COMPLETED" /\ todo' = <<>> /\ cur' = NoIssue
      BY <1>1 DEF NextFinding, Done
  <2>2. DOMAIN todo' = {} /\ ~AtHand' /\ ~Beginning'
      BY <2>1 DEF AtHand, Beginning
  <2>3. Apart'
      BY <1>w, <2>2 DEF Apart, Ready, FindingsDistinct
  <2>4. Covered'
      BY <1>1 DEF Covered, Ready, Covers
  <2>5. Placed'
      BY <1>w, <2>2 DEF Placed, Ready
  <2>6. cur' \in Clusters
      BY <2>1 DEF NoIssue, Clusters
  <2> QED BY <2>2, <2>3, <2>4, <2>5, <2>6 DEF Kept, Weighed
<1>2. CASE DOMAIN rest # {}
  <2>1. Launched("validator")
      BY <1>0, <1>2, LaunchEffect DEF NextFinding
  <2>2. PICK first \in DOMAIN rest :
              /\ \A r \in DOMAIN rest : first <= r
              /\ todo' = [r \in DOMAIN rest \ {first} |-> rest[r]]
              /\ cur' = rest[first]
      BY <1>2 DEF NextFinding
  <2>3. /\ DOMAIN todo' = DOMAIN rest \ {first} /\ first \in 1 .. Analyzers
        /\ \A q \in DOMAIN todo' : todo'[q] = rest[q] /\ q \in DOMAIN rest
                                   /\ q \in 1 .. Analyzers /\ first < q
      BY <2>2 DEF Ready
  <2>4. AtHand' /\ ~Beginning' /\ outcome' = "none"
      BY <2>1 DEF Launched, AtHand, Beginning
  <2>5. Apart'
      BY <1>w, <2>2, <2>3 DEF Apart, Ready, FindingsDistinct
  <2>6. Covered'
    <3>1. ASSUME NEW c \in reported'
          PROVE  \/ \E i \in DOMAIN findings' : Covers(findings'[i], c)
                 \/ Covers(cur', c)
                 \/ \E q \in DOMAIN todo' : Covers(todo'[q], c)
        BY <2>2, <2>3 DEF Ready
    <3> QED BY <2>4, <3>1 DEF Covered, Covers
  <2>7. Placed'
    <3>1. Len(findings') \in Nat /\ Len(findings') < first
        BY DEF Ready
    <3>2. Len(findings') < Analyzers /\ \A q \in DOMAIN todo' : Len(findings') + 1 < q
        BY <1>0, <2>3, <3>1
    <3> QED BY <1>w, <2>3, <2>4, <3>1, <3>2 DEF Placed, Ready
  <2>8. cur' \in Clusters /\ \A q \in DOMAIN todo' : todo'[q] \in Clusters
      BY <2>2, <2>3 DEF Ready
  <2> QED BY <2>5, <2>6, <2>7, <2>8 DEF Kept, Weighed
<1> QED BY <1>1, <1>2

\* What deduplication hands to the validators: clusters of the analyzers'
\* candidates that share no key and between them hold every record.
LEMMA ConsolidatedFacts ==
    ASSUME Shapes, cfg.deep, Joined("analyzer"), NEW h \in Judgements
    PROVE  /\ \A r \in CandidateRecords : thread[r].val \in Candidates
           /\ Ready(<<>>, Consolidated(h), {thread[r].val : r \in CandidateRecords})
<1> DEFINE C == CandidateRecords
           val(r) == thread[r].val
           heads == {q \in C : h[q] = q}
           rest == Consolidated(h)
           members(r) == {q \in C : h[q] = r}
           ranks(r) == {thread[q].val.rank : q \in members(r)}
<1>0. "analyzer" \in Stages /\ stage = "analyzer" /\ Analyzers \in Nat \ {0}
    BY ReplicationAssumption DEF Stages, Joined
<1>1. C \subseteq 1 .. Analyzers /\ C \subseteq Replicas /\ C \subseteq Fan("analyzer")
  <2>1. C \subseteq Fan("analyzer") /\ Fan("analyzer") = 1 .. Analyzers
      BY DEF CandidateRecords, Fan
  <2> QED BY <1>0, <2>1, FanFacts
<1>2. ASSUME NEW r \in C
      PROVE  val(r) \in Candidates /\ \E k \in Keys : val(r).keys = {k}
  <2>1. thread[r].st = "ok" /\ val(r) # NoIssue
      BY <1>1 DEF Joined, CandidateRecords
  <2>2. val(r) \in Answers("analyzer")
      BY <1>0, <1>1, <2>1 DEF Shapes
  <2>3. val(r) \in Candidates
      BY <2>1, <2>2 DEF Answers
  <2> QED BY <2>3 DEF Candidates
<1>3. /\ h \in [C -> C] /\ \A r \in C : h[r] \in heads
      /\ \A r, q \in C : val(r).keys = val(q).keys => h[r] = h[q]
    BY DEF Judgements
<1>4. /\ DOMAIN rest = heads
      /\ \A r \in heads : rest[r] = Cluster(h, r)
    BY DEF Consolidated
<1> HIDE DEF rest
<1>5. ASSUME NEW r \in heads
      PROVE  /\ rest[r] \in Clusters
             /\ \A q \in C : h[q] = r => Covers(rest[r], val(q))
             /\ \A k \in rest[r].keys : \E q \in C : h[q] = r /\ k \in val(q).keys
  <2> DEFINE K == UNION {thread[q].val.keys : q \in members(r)}
             R == ranks(r)
  <2>1. R \subseteq EvidenceRanks
      BY <1>2 DEF Candidates
  <2>2. R \in SUBSET (0 .. 4)
      BY <2>1 DEF EvidenceRanks
  <2>3. /\ K \subseteq Keys
        /\ \A q \in C : h[q] = r => val(q).keys \subseteq K /\ val(q).rank \in R
        /\ \A k \in K : \E q \in C : h[q] = r /\ k \in val(q).keys
    <3>1. ASSUME NEW k \in K PROVE \E q \in C : h[q] = r /\ k \in val(q).keys
        OBVIOUS
    <3>2. K \subseteq Keys
      <4>1. \A q \in C : val(q).keys \subseteq Keys
          BY <1>2 DEF Candidates
      <4> QED BY <3>1, <4>1
    <3>3. ASSUME NEW q \in C, h[q] = r PROVE val(q).keys \subseteq K /\ val(q).rank \in R
      <4>1. q \in members(r)
          BY <3>3
      <4> QED BY <4>1
    <3> QED BY <3>1, <3>2, <3>3
  <2>4. rest[r] = [keys |-> K, rank |-> Max0(R)]
      BY <1>4 DEF Cluster
  <2> HIDE DEF K, R
  <2>5. Max0(R) \in {0} \cup EvidenceRanks /\ \A x \in R : x <= Max0(R)
    <3>1. CASE R = {}
        BY <3>1 DEF Max0
    <3>2. CASE R # {}
        BY <2>1, <2>2, <3>2, MaxFacts
    <3> QED BY <3>1, <3>2
  <2> DEFINE m == Max0(R)
  <2>6. rest[r].keys = K /\ rest[r].rank = m /\ rest[r] \in Clusters
    <3>1. m \in {0} \cup EvidenceRanks /\ rest[r] = [keys |-> K, rank |-> m]
        BY <2>4, <2>5
    <3> HIDE DEF m
    <3> QED BY <2>3, <3>1 DEF Clusters
  <2>7. \A q \in C : h[q] = r => Covers(rest[r], val(q))
      BY <2>3, <2>5, <2>6 DEF Covers
  <2> QED BY <2>3, <2>6, <2>7
<1>6. ASSUME NEW r \in heads, NEW s \in heads, r # s
      PROVE  rest[r].keys \cap rest[s].keys = {}
  <2> SUFFICES ASSUME NEW k \in rest[r].keys, k \in rest[s].keys PROVE FALSE
      OBVIOUS
  <2>1. PICK p \in C : h[p] = r /\ k \in val(p).keys
      BY <1>5
  <2>2. PICK q \in C : h[q] = s /\ k \in val(q).keys
      BY <1>5
  <2>3. val(p).keys = {k} /\ val(q).keys = {k}
      BY <1>2, <2>1, <2>2
  <2>4. h[p] = h[q]
    <3>1. val(p).keys = val(q).keys
        BY <2>3
    <3>2. val(p).keys = val(q).keys => h[p] = h[q]
        BY <1>3, Zenon
    <3> QED BY <3>1, <3>2
  <2> QED BY <1>6, <2>1, <2>2, <2>4
<1>7. ASSUME NEW c \in {thread[r].val : r \in C} PROVE \E q \in heads : Covers(rest[q], c)
  <2>1. PICK r \in C : c = val(r)
      OBVIOUS
  <2>2. h[r] \in heads
      BY <1>3
  <2> QED BY <1>5, <2>1, <2>2
<1>8. /\ <<>> \in Seq(FindingSet) /\ Len(<<>>) = 0 /\ DOMAIN <<>> = {}
      /\ \A q \in heads : q \in 1 .. Analyzers /\ 0 < q
    BY <1>0, <1>1
<1> HIDE DEF heads, members, ranks
<1>9. Ready(<<>>, rest, {thread[r].val : r \in C})
  <2>1. 0 <= Analyzers
      BY <1>0
  <2> QED BY <1>4, <1>5, <1>6, <1>7, <1>8, <2>1 DEF Ready
<1> QED BY <1>2, <1>9 DEF rest

LEMMA AnalyzedTeamKeeps ==
    ASSUME Shapes, WorkTyped, Kept, AnalyzedTeam PROVE WorkTyped' /\ Kept'
<1>1. /\ cfg.deep /\ Joined("analyzer") /\ pc = "fan" /\ stage = "analyzer"
      /\ UNCHANGED <<idle, debate, findings, checkpoint>>
    BY DEF AnalyzedTeam, Joined
<1>2. findings = <<>> /\ reported = {} /\ outcome = "none" /\ Weightiest(findings, checkpoint)
    BY <1>1 DEF Kept, Placed, Weighed, Beginning, Shapes
<1>3. PICK h \in Judgements : NextFinding(Consolidated(h))
    BY DEF AnalyzedTeam
<1>4. reported' = {thread[r].val : r \in CandidateRecords}
    BY <1>2 DEF AnalyzedTeam
<1>5. /\ reported' \subseteq Candidates /\ Ready(findings', Consolidated(h), reported')
      /\ Weightiest(findings', checkpoint')
    BY <1>1, <1>2, <1>4, ConsolidatedFacts
<1>6. Kept' /\ cur' \in Clusters /\ \A q \in DOMAIN todo' : todo'[q] \in Clusters
    BY <1>1, <1>2, <1>3, <1>5, NextFindingKeeps DEF Shapes
<1>7. pc' \in {"done", "fan"} /\ (pc' = "fan" => stage' = "validator")
    BY <1>3 DEF NextFinding, Done, Launch
<1> QED BY <1>1, <1>5, <1>6, <1>7 DEF WorkTyped

\* A finding joins the findings.
LEMMA AppendFacts ==
    ASSUME WorkTyped, NEW f \in FindingSet, findings' = Append(findings, f)
    PROVE  /\ findings' \in Seq(FindingSet) /\ Len(findings') = Len(findings) + 1
           /\ Len(findings) \in Nat /\ findings' # <<>>
           /\ DOMAIN findings = 1 .. Len(findings)
           /\ DOMAIN findings' = DOMAIN findings \cup {Len(findings) + 1}
           /\ \A i \in DOMAIN findings : findings'[i] = findings[i] /\ i # Len(findings) + 1
           /\ findings'[Len(findings) + 1] = f
<1>1. findings \in Seq(FindingSet)
    BY DEF WorkTyped
<1>2. findings' \in Seq(FindingSet) /\ Len(findings') = Len(findings) + 1 /\ Len(findings) \in Nat
      /\ DOMAIN findings = 1 .. Len(findings) /\ DOMAIN findings' = 1 .. Len(findings')
    BY <1>1
<1>3. \A i \in DOMAIN findings : findings'[i] = findings[i]
    BY <1>1
<1>4. findings'[Len(findings) + 1] = f
    BY <1>1
<1>5. findings' # <<>>
    BY <1>2
<1> QED BY <1>2, <1>3, <1>4, <1>5

\* The candidate at hand becomes a finding: the keys stay apart, and what it
\* held is held by the finding.
LEMMA FindingJoins ==
    ASSUME WorkTyped, Kept, AtHand, Alive, NEW v \in Verdicts,
           NEW e \in DOMAIN ExploitRank \cup {"skipped"}, findings' = Append(findings, Finding(v, e))
    PROVE  /\ findings' \in Seq(FindingSet) /\ Len(findings') = Len(findings) + 1
           /\ Len(findings) \in Nat /\ findings' # <<>>
           /\ \A i, j \in DOMAIN findings' : i # j => findings'[i].keys \cap findings'[j].keys = {}
           /\ \A q \in DOMAIN todo, i \in DOMAIN findings' : findings'[i].keys \cap todo[q].keys = {}
           /\ \A c \in reported : \/ \E i \in DOMAIN findings' : Covers(findings'[i], c)
                                  \/ \E q \in DOMAIN todo : Covers(todo[q], c)
           /\ \A i \in DOMAIN findings' :
                \/ i \in DOMAIN findings /\ findings'[i] = findings[i]
                \/ findings'[i] = Finding(v, e)
           /\ \A i \in DOMAIN findings : i \in DOMAIN findings' /\ findings'[i] = findings[i]
           /\ \E i \in DOMAIN findings' : findings'[i].verdict = v
<1> DEFINE f == Finding(v, e)
           n == Len(findings) + 1
<1>1. f \in FindingSet /\ f.keys = cur.keys /\ f.rank = cur.rank /\ f.verdict = v
    BY DEF Finding, FindingSet, WorkTyped, Clusters
<1> HIDE DEF f
<1>2. findings' = Append(findings, f)
    BY DEF f
<1>3. /\ findings' \in Seq(FindingSet) /\ Len(findings') = Len(findings) + 1
      /\ Len(findings) \in Nat /\ findings' # <<>>
      /\ DOMAIN findings' = DOMAIN findings \cup {n}
      /\ \A i \in DOMAIN findings : findings'[i] = findings[i] /\ i # n
      /\ findings'[n] = f
    BY <1>1, <1>2, AppendFacts
<1> HIDE DEF n
<1>4. /\ \A i \in DOMAIN findings : findings[i].keys \cap f.keys = {}
      /\ \A q \in DOMAIN todo : todo[q].keys \cap f.keys = {}
    BY <1>1 DEF Kept, Apart
<1>5. \A i, j \in DOMAIN findings' : i # j => findings'[i].keys \cap findings'[j].keys = {}
    BY <1>3, <1>4 DEF Kept, Apart, FindingsDistinct
<1>6. \A q \in DOMAIN todo, i \in DOMAIN findings' : findings'[i].keys \cap todo[q].keys = {}
    BY <1>3, <1>4 DEF Kept, Apart
<1>7. ASSUME NEW c \in reported
      PROVE  \/ \E i \in DOMAIN findings' : Covers(findings'[i], c)
             \/ \E q \in DOMAIN todo : Covers(todo[q], c)
    BY <1>1, <1>3 DEF Kept, Covered, Covers
<1> QED BY <1>1, <1>3, <1>5, <1>6, <1>7 DEF f

\* The team's finding is recorded and the next candidate taken.
LEMMA RecordKeeps ==
    ASSUME Shapes, WorkTyped, Kept, AtHand, cfg.deep, debate.v[1] \in Verdicts,
           NEW e \in DOMAIN ExploitRank \cup {"skipped"}, Record(e), reported' = reported
    PROVE  WorkTyped' /\ Kept'
<1> DEFINE v == debate.v[1]
<1>1. /\ findings' = Append(findings, Finding(v, e)) /\ checkpoint' = Max0({checkpoint, v})
      /\ NextFinding(todo) /\ UNCHANGED <<idle, debate>>
    BY DEF Record
<1>2. Alive /\ outcome = "none" /\ pc # "done"
    BY DEF Alive, AtHand, Shapes
<1>3. v \in Verdicts /\ v \in 0 .. 4 /\ checkpoint \in 0 .. 4 /\ VALID = 4
    BY DEF WorkTyped, Verdicts, FALSE_POSITIVE, VALID
<1> HIDE DEF v
<1>4. /\ findings' \in Seq(FindingSet) /\ Len(findings') = Len(findings) + 1
      /\ Len(findings) \in Nat /\ findings' # <<>>
      /\ \A i, j \in DOMAIN findings' : i # j => findings'[i].keys \cap findings'[j].keys = {}
      /\ \A q \in DOMAIN todo, i \in DOMAIN findings' : findings'[i].keys \cap todo[q].keys = {}
      /\ \A c \in reported : \/ \E i \in DOMAIN findings' : Covers(findings'[i], c)
                             \/ \E q \in DOMAIN todo : Covers(todo[q], c)
      /\ \A i \in DOMAIN findings' :
           \/ i \in DOMAIN findings /\ findings'[i] = findings[i]
           \/ findings'[i] = Finding(v, e)
      /\ \A i \in DOMAIN findings : i \in DOMAIN findings' /\ findings'[i] = findings[i]
      /\ \E i \in DOMAIN findings' : findings'[i].verdict = v
    BY <1>1, <1>2, <1>3, FindingJoins
<1>5. Ready(findings', todo, reported')
  <2>1. /\ Len(findings) < Analyzers
        /\ \A q \in DOMAIN todo : q \in 1 .. Analyzers /\ Len(findings) + 1 < q
      BY DEF Kept, Placed
  <2>2. Len(findings') <= Analyzers /\ \A q \in DOMAIN todo : Len(findings') < q
      BY <1>4, <2>1, ReplicationAssumption
  <2>3. \A q \in DOMAIN todo :
          todo[q] \in Clusters /\ \A p \in DOMAIN todo : p # q => todo[p].keys \cap todo[q].keys = {}
      BY DEF WorkTyped, Kept, Apart
  <2> QED BY <1>4, <2>1, <2>2, <2>3 DEF Ready
<1>6. Weightiest(findings', checkpoint') /\ checkpoint' \in 0 .. 4
  <2> DEFINE S == {checkpoint, v}
  <2>1. S \in SUBSET (0 .. 4) /\ S # {}
      BY <1>3
  <2>2. checkpoint' \in S /\ checkpoint <= checkpoint' /\ v <= checkpoint' /\ checkpoint' \in 0 .. 4
      BY <1>1, <2>1, MaxFacts
  <2>3. Weightiest(findings, checkpoint)
      BY DEF Kept, Weighed
  <2>4. Finding(v, e).verdict = v
      BY DEF Finding
  <2>5. ASSUME NEW i \in DOMAIN findings' PROVE findings'[i].verdict <= checkpoint'
    <3>1. CASE findings'[i] = Finding(v, e)
        BY <2>2, <2>4, <3>1
    <3>2. CASE i \in DOMAIN findings /\ findings'[i] = findings[i]
      <4>0. findings[i] \in FindingSet
          BY <3>2 DEF WorkTyped
      <4>1. findings[i].verdict \in Int /\ findings[i].verdict <= checkpoint
          BY <2>3, <3>2, <4>0 DEF Weightiest, FindingSet, Verdicts, FALSE_POSITIVE, VALID
      <4> QED BY <1>3, <2>2, <3>2, <4>1
    <3> QED BY <1>4, <3>1, <3>2
  <2>6. \E i \in DOMAIN findings' : findings'[i].verdict = checkpoint'
    <3>1. CASE checkpoint' = v
        BY <1>4, <3>1
    <3>2. CASE checkpoint' # v
      <4>1. checkpoint' = checkpoint /\ checkpoint # 0
        <5>1. checkpoint' = checkpoint /\ v <= checkpoint
            BY <2>2, <3>2
        <5>2. 1 <= v
            BY <1>3 DEF Verdicts, FALSE_POSITIVE
        <5> QED BY <1>3, <5>1, <5>2
      <4>2. PICK i \in DOMAIN findings : findings[i].verdict = checkpoint
          BY <2>3, <4>1 DEF Weightiest
      <4> QED BY <1>4, <4>1, <4>2
    <3> QED BY <3>1, <3>2
  <2> QED BY <1>4, <2>2, <2>5, <2>6 DEF Weightiest
<1>7. Kept' /\ cur' \in Clusters /\ \A q \in DOMAIN todo' : todo'[q] \in Clusters
    BY <1>1, <1>2, <1>5, <1>6, NextFindingKeeps DEF Shapes
<1>8. pc' \in {"done", "fan"} /\ (pc' = "fan" => stage' = "validator")
    BY <1>1 DEF NextFinding, Done, Launch
<1> QED BY <1>1, <1>3, <1>4, <1>6, <1>7, <1>8 DEF WorkTyped

\* The single chain's finding is accepted.
LEMMA AcceptKeeps ==
    ASSUME Shapes, WorkTyped, Kept, AtHand, ~cfg.deep, cur \in Candidates, Len(findings) < Cap,
           NEW v \in Verdicts, NEW e \in DOMAIN ExploitRank \cup {"skipped"},
           Accept(v, e), reported' = reported
    PROVE  WorkTyped' /\ Kept'
<1>1. /\ findings' = Append(findings, Finding(v, e)) /\ idle' = 0
      /\ UNCHANGED <<todo, cur, debate, checkpoint>>
    BY DEF Accept
<1>2. Alive /\ outcome = "none" /\ pc # "done"
    BY DEF Alive, AtHand, Shapes
<1>3. /\ findings' \in Seq(FindingSet) /\ Len(findings') = Len(findings) + 1
      /\ Len(findings) \in Nat
      /\ \A i, j \in DOMAIN findings' : i # j => findings'[i].keys \cap findings'[j].keys = {}
      /\ \A c \in reported : \/ \E i \in DOMAIN findings' : Covers(findings'[i], c)
                             \/ \E q \in DOMAIN todo : Covers(todo[q], c)
      /\ \A i \in DOMAIN findings' :
           \/ i \in DOMAIN findings /\ findings'[i] = findings[i]
           \/ findings'[i] = Finding(v, e)
    BY <1>1, <1>2, FindingJoins
<1>4. /\ pc' \in {"fan", "finish"} /\ (pc' = "fan" => stage' = "analyzer")
      /\ cfg' = cfg /\ outcome' = outcome
    BY DEF Accept, Launch, Goto
<1>5. ~AtHand' /\ DOMAIN todo = {} /\ outcome' # "COMPLETED"
    BY <1>2, <1>4 DEF AtHand, Kept, Placed
<1>6. Apart'
  <2>1. \E k \in Keys : Finding(v, e).keys = {k}
      BY DEF Finding, Candidates
  <2>2. \A i \in DOMAIN findings' : \E k \in Keys : findings'[i].keys = {k}
      BY <1>3, <2>1 DEF Kept, Apart
  <2> QED BY <1>1, <1>3, <1>5, <2>2 DEF Apart, FindingsDistinct
<1>7. Covered'
    BY <1>1, <1>3, <1>5 DEF Covered, Covers
<1>8. Placed'
    BY <1>1, <1>3, <1>4, <1>5, CapAssumption DEF Placed
<1>9. Weighed'
    BY <1>4, <1>5 DEF Weighed
<1>10. WorkTyped'
    BY <1>1, <1>3, <1>4 DEF WorkTyped
<1> QED BY <1>6, <1>7, <1>8, <1>9, <1>10 DEF Kept

\* The single chain takes a candidate it has no finding for.
LEMMA AnalyzedOneKeeps ==
    ASSUME Shapes, Bounded, WorkTyped, Kept, AnalyzedOne PROVE WorkTyped' /\ Kept'
<1> DEFINE c == thread[1].val
<1>1. /\ ~cfg.deep /\ pc = "fan" /\ stage = "analyzer" /\ outcome = "none"
      /\ UNCHANGED <<debate, findings, checkpoint, todo>> /\ cfg' = cfg /\ outcome' = outcome
    BY DEF AnalyzedOne, Joined, Shapes, Launch, Goto
<1>2. /\ idle \in {0, 1} /\ c \in Candidates \cup {NoIssue} /\ ~AtHand /\ Alive
      /\ DOMAIN todo = {}
  <2>1. Fan("analyzer") = {1} /\ thread[1].st = "ok"
    <3>1. "analyzer" \in Stages
        BY DEF Stages
    <3>2. Fan("analyzer") = {1}
        BY <1>1, <3>1, FanFacts
    <3> QED BY <3>2 DEF AnalyzedOne, Joined
  <2>2. InStage
      BY <1>1 DEF Bounded, Fast
  <2> QED BY <1>1, <2>1, <2>2 DEF InStage, Answers, AtHand, Alive, Kept, Placed
<1>3. CASE c = NoIssue \/ MatchesExcluded(c)
  <2>1. /\ idle' = idle + 1 /\ UNCHANGED <<cur, reported>>
        /\ pc' \in {"fan", "finish"} /\ (pc' = "fan" => stage' = "analyzer")
      BY <1>3 DEF AnalyzedOne, Launch, Goto
  <2>2. Aside
      BY <1>1, <1>2, <2>1 DEF Aside, AtHand, Alive, Beginning
  <2>3. WorkTyped'
      BY <1>1, <1>2, <2>1 DEF WorkTyped
  <2> QED BY <2>2, <2>3, AsideKeeps
<1>4. CASE ~(c = NoIssue \/ MatchesExcluded(c))
  <2>1. /\ cur' = c /\ reported' = reported \cup {c} /\ idle' = idle /\ c \in Candidates
        /\ pc' = "fan" /\ stage' = "validator"
      BY <1>2, <1>4 DEF AnalyzedOne, Launch
  <2>2. AtHand' /\ ~Beginning' /\ outcome' = "none"
      BY <1>1, <2>1 DEF AtHand, Beginning
  <2>3. ASSUME NEW i \in DOMAIN findings PROVE findings[i].keys \cap c.keys = {}
    <3>1. \E k \in Keys : findings[i].keys = {k}
        BY <1>1 DEF Kept, Apart
    <3>2. \E k \in Keys : c.keys = {k}
        BY <2>1 DEF Candidates
    <3>3. findings[i].keys # c.keys
        BY <1>4 DEF MatchesExcluded
    <3> QED BY <3>1, <3>2, <3>3
  <2> HIDE DEF c
  <2>4. Apart'
      BY <1>1, <1>2, <2>1, <2>3 DEF Kept, Apart, FindingsDistinct
  <2>5. Covered'
    <3>1. Covers(c, c)
        BY <2>1 DEF Covers, Candidates, EvidenceRanks
    <3>2. ASSUME NEW d \in reported PROVE \E i \in DOMAIN findings : Covers(findings[i], d)
        BY <1>2 DEF Kept, Covered
    <3>3. ASSUME NEW d \in reported'
          PROVE  Covers(cur', d) \/ \E i \in DOMAIN findings' : Covers(findings'[i], d)
        BY <1>1, <2>1, <3>1, <3>2
    <3> QED BY <2>2, <3>3 DEF Covered, Covers
  <2>6. Placed'
      BY <1>1, <1>2, <2>2 DEF Kept, Placed
  <2>7. Weighed'
      BY <1>1 DEF Weighed
  <2>8. WorkTyped'
    <3>1. c \in Clusters
        BY <2>1 DEF Candidates, Clusters
    <3> QED BY <1>1, <1>2, <2>1, <3>1 DEF WorkTyped
  <2> QED BY <2>4, <2>5, <2>6, <2>7, <2>8 DEF Kept
<1> QED BY <1>3, <1>4

\* The label of the fast chain.
LEMMA FinishKeeps ==
    ASSUME Shapes, WorkTyped, Kept, Finish PROVE WorkTyped' /\ Kept'
<1>1. /\ pc = "finish" /\ ~cfg.deep /\ outcome = "none" /\ cfg' = cfg
      /\ pc' = "done" /\ outcome' = "COMPLETED" /\ checkpoint' = Worst(findings)
      /\ UNCHANGED <<idle, todo, cur, debate, findings, reported>>
    BY DEF Finish, Done, Shapes
<1>2. ~AtHand /\ ~AtHand' /\ ~Beginning' /\ Alive /\ DOMAIN todo = {}
    BY <1>1 DEF AtHand, Beginning, Alive, Kept, Placed
<1>3. Weightiest(findings, Worst(findings)) /\ Worst(findings) \in 0 .. VALID
  <2>1. CASE findings = <<>>
      BY <2>1 DEF Worst, Weightiest, VALID
  <2>2. CASE findings # <<>>
    <3> DEFINE S == {findings[i].verdict : i \in DOMAIN findings}
    <3>0. findings \in Seq(FindingSet)
        BY DEF WorkTyped
    <3>1. ASSUME NEW i \in DOMAIN findings PROVE findings[i].verdict \in Verdicts
      <4>1. findings[i] \in FindingSet
          BY <3>0
      <4> QED BY <4>1 DEF FindingSet
    <3>2. DOMAIN findings # {}
      <4>1. Len(findings) # 0 /\ Len(findings) \in Nat /\ DOMAIN findings = 1 .. Len(findings)
          BY <2>2, <3>0
      <4>2. 1 \in DOMAIN findings
          BY <4>1
      <4> QED BY <4>2
    <3>3. S \in SUBSET (0 .. 4) /\ S # {} /\ S \subseteq Verdicts
        BY <3>1, <3>2 DEF Verdicts, FALSE_POSITIVE, VALID
    <3> DEFINE m == Max0(S)
    <3>4. m \in S /\ \A x \in S : x <= m
      <4> HIDE DEF S
      <4> QED BY <3>3, MaxFacts
    <3> HIDE DEF m
    <3>5. /\ m \in Verdicts /\ \E i \in DOMAIN findings : findings[i].verdict = m
          /\ \A i \in DOMAIN findings : findings[i].verdict <= m
        BY <3>3, <3>4
    <3> HIDE DEF S
    <3>6. /\ Worst(findings) \in Verdicts
          /\ \E i \in DOMAIN findings : findings[i].verdict = Worst(findings)
          /\ \A i \in DOMAIN findings : findings[i].verdict <= Worst(findings)
        BY <2>2, <3>5 DEF Worst
    <3> QED BY <2>2, <3>6 DEF Weightiest, Verdicts, FALSE_POSITIVE, VALID
  <2> QED BY <2>1, <2>2
<1>4. Apart'
    BY <1>1, <1>2 DEF Kept, Apart, FindingsDistinct
<1>5. Covered'
    BY <1>1, <1>2 DEF Kept, Covered, Covers
<1>6. Placed'
    BY <1>1, <1>2 DEF Kept, Placed
<1>7. Weighed'
    BY <1>1, <1>3 DEF Weighed, Weightiest
<1>8. WorkTyped'
    BY <1>1, <1>3 DEF WorkTyped
<1> QED BY <1>4, <1>5, <1>6, <1>7, <1>8 DEF Kept

\* A verdict is settled, or a debate goes on, for the candidate at hand.
LEMMA SettleKeeps ==
    ASSUME WorkTyped, Kept, AtHand, Alive, outcome = "none", NEW v \in Verdicts, Settle(v),
           UNCHANGED <<idle, todo, cur, findings, checkpoint, reported>>
    PROVE  WorkTyped' /\ Kept'
<1>1. /\ pc' \in {"fan", "record"} /\ (pc' = "fan" => stage' = "exploiter")
      /\ cfg' = cfg /\ outcome' = outcome /\ debate' = [NoDebate EXCEPT !.v = <<v, v>>]
    BY DEF Settle, Launch, Goto
<1>2. v \in 0 .. VALID /\ <<v, v>> \in (0 .. VALID) \X (0 .. VALID)
    BY DEF Verdicts, FALSE_POSITIVE, VALID
<1>3. debate' = [round |-> 0, turn |-> 0, v |-> <<v, v>>]
    BY <1>1 DEF NoDebate
<1>4. debate' \in Debates /\ debate'.v[1] = v
    BY <1>2, <1>3, RoundsAssumption DEF Debates
<1>5. WorkTyped'
    BY <1>1, <1>4 DEF WorkTyped
<1>6. Aside
    BY <1>1 DEF Aside, AtHand, Alive, Beginning
<1> QED BY <1>5, <1>6, AsideKeeps

LEMMA DebateKeeps ==
    ASSUME WorkTyped, Kept, AtHand, Alive, outcome = "none", Goto("debate"),
           debate' \in Debates, debate'.round \in 1 .. MaxRounds, debate'.turn \in {1, 2},
           UNCHANGED <<idle, todo, cur, findings, checkpoint, reported>>
    PROVE  WorkTyped' /\ Kept'
<1>1. pc' = "debate" /\ cfg' = cfg /\ outcome' = outcome
    BY DEF Goto
<1>2. WorkTyped'
    BY <1>1 DEF WorkTyped
<1>3. Aside
    BY <1>1 DEF Aside, AtHand, Alive, Beginning
<1> QED BY <1>2, <1>3, AsideKeeps

LEMMA ValidatedTeamKeeps ==
    ASSUME Shapes, WorkTyped, Kept, ValidatedTeam PROVE WorkTyped' /\ Kept'
<1> DEFINE votes == {thread[r].val : r \in Fan("validator")}
<1>1. /\ cfg.deep /\ Joined("validator") /\ pc = "fan" /\ stage = "validator" /\ outcome = "none"
      /\ UNCHANGED <<idle, todo, cur, findings, checkpoint, reported>>
    BY DEF ValidatedTeam, Joined, Shapes
<1>2. AtHand /\ Alive
    BY <1>1 DEF AtHand, Alive
<1>3. votes \subseteq Verdicts /\ votes # {}
  <2>0. "validator" \in Stages
      BY DEF Stages
  <2>1. Fan("validator") \subseteq Replicas
      BY <2>0, FanFacts
  <2>2. \A r \in Fan("validator") : thread[r].val \in Verdicts
      BY <1>1, <2>1 DEF Joined, Shapes, Answers
  <2>3. 1 \in Fan("validator")
      BY <1>1, ReplicationAssumption DEF Fan
  <2> QED BY <2>2, <2>3
<1>4. \/ Settle(Max0(votes))
      \/ /\ debate' = [round |-> 1, turn |-> 1,
                       v |-> <<CHOOSE v \in votes : \A w \in votes : v <= w, Max0(votes)>>]
         /\ Goto("debate")
    BY DEF ValidatedTeam
<1> HIDE DEF votes
<1> DEFINE m == Max0(votes)
           l == CHOOSE v \in votes : \A w \in votes : v <= w
<1>5. m \in votes /\ l \in votes
  <2>1. votes \in SUBSET (0 .. 4)
      BY <1>3 DEF Verdicts, FALSE_POSITIVE, VALID
  <2> QED BY <1>3, <2>1, MaxFacts
<1>6. m \in Verdicts /\ l \in Verdicts
    BY <1>3, <1>5
<1>7. Settle(m) \/ (debate' = [round |-> 1, turn |-> 1, v |-> <<l, m>>] /\ Goto("debate"))
    BY <1>4
<1> HIDE DEF m, l
<1>8. CASE Settle(m)
    BY <1>1, <1>2, <1>6, <1>8, SettleKeeps
<1>9. CASE debate' = [round |-> 1, turn |-> 1, v |-> <<l, m>>] /\ Goto("debate")
  <2>1. <<l, m>> \in (0 .. VALID) \X (0 .. VALID)
      BY <1>6 DEF Verdicts, FALSE_POSITIVE, VALID
  <2>2. debate' \in Debates /\ debate'.round = 1 /\ debate'.turn = 1
      BY <1>9, <2>1, RoundsAssumption DEF Debates
  <2>3. debate'.round \in 1 .. MaxRounds /\ debate'.turn \in {1, 2}
      BY <2>2, RoundsAssumption
  <2> QED BY <1>1, <1>2, <1>9, <2>2, <2>3, DebateKeeps
<1> QED BY <1>7, <1>8, <1>9

LEMMA DebateTurnKeeps ==
    ASSUME Shapes, WorkTyped, Kept, DebateTurn PROVE WorkTyped' /\ Kept'
<1>1. /\ pc = "debate" /\ outcome = "none" /\ MaxRounds \in Nat
      /\ UNCHANGED <<idle, todo, cur, findings, checkpoint, reported>>
    BY RoundsAssumption DEF DebateTurn, Shapes
<1>2. AtHand /\ Alive /\ debate \in Debates /\ debate.round \in 1 .. MaxRounds
      /\ debate.turn \in {1, 2} /\ VALID = 4
    BY <1>1 DEF AtHand, Alive, WorkTyped, VALID
<1>3. PICK verdict \in Verdicts \cup {0} :
         LET v == [debate.v EXCEPT ![debate.turn] = verdict] IN
         IF debate.turn = 1
         THEN /\ debate' = [debate EXCEPT !.turn = 2, !.v = v]
              /\ Goto("debate") /\ UNCHANGED thread
         ELSE RoundEnds(v)
    BY DEF DebateTurn
<1> DEFINE v == [debate.v EXCEPT ![debate.turn] = verdict]
<1>4. v \in (0 .. 4) \X (0 .. 4) /\ v[1] \in 0 .. 4 /\ v[2] \in 0 .. 4
  <2>1. debate.v \in (0 .. 4) \X (0 .. 4) /\ verdict \in 0 .. 4
      BY <1>2 DEF Debates, Verdicts, FALSE_POSITIVE, VALID
  <2>2. CASE debate.turn = 1
      BY <2>1, <2>2
  <2>3. CASE debate.turn = 2
      BY <2>1, <2>3
  <2> QED BY <1>2, <2>2, <2>3
<1>5. IF debate.turn = 1
      THEN debate' = [debate EXCEPT !.turn = 2, !.v = v] /\ Goto("debate")
      ELSE RoundEnds(v)
    BY <1>3
<1> HIDE DEF v
<1>6. \A x \in 0 .. 4 : Known(x) \in Verdicts
    BY DEF Known, Verdicts, FALSE_POSITIVE, VALID, INCONCLUSIVE
<1>7. CASE debate.turn = 1
  <2>1. debate' = [debate EXCEPT !.turn = 2, !.v = v] /\ Goto("debate")
      BY <1>5, <1>7
  <2>2. debate' \in Debates /\ debate'.round = debate.round /\ debate'.turn = 2
    <3>1. debate' = [round |-> debate.round, turn |-> 2, v |-> v]
        BY <1>2, <2>1 DEF Debates
    <3>2. debate.round \in 0 .. MaxRounds
        BY <1>2 DEF Debates
    <3> QED BY <1>2, <1>4, <3>1, <3>2 DEF Debates
  <2> QED BY <1>1, <1>2, <2>1, <2>2, DebateKeeps
<1>8. CASE debate.turn # 1
  <2>1. RoundEnds(v)
      BY <1>5, <1>8
  <2>2. CASE Settle(Known(v[1]))
      BY <1>1, <1>2, <1>4, <1>6, <2>2, SettleKeeps
  <2>3. CASE Settle(Known(Max0({v[1], v[2]})))
    <3>1. {v[1], v[2]} \in SUBSET (0 .. 4)
        BY <1>4
    <3>2. Max0({v[1], v[2]}) \in 0 .. 4
        BY <3>1, MaxFacts
    <3>3. Known(Max0({v[1], v[2]})) \in Verdicts
        BY <1>6, <3>2
    <3> QED BY <1>1, <1>2, <2>3, <3>3, SettleKeeps
  <2>4. CASE /\ debate.round # MaxRounds /\ Goto("debate")
             /\ debate' = [round |-> debate.round + 1, turn |-> 1, v |-> v]
    <3>1. debate.round + 1 \in 1 .. MaxRounds
        BY <1>1, <1>2, <2>4
    <3>2. debate' \in Debates /\ debate'.round = debate.round + 1 /\ debate'.turn = 1
        BY <1>1, <1>2, <1>4, <2>4, <3>1 DEF Debates
    <3> QED BY <1>1, <1>2, <2>4, <3>1, <3>2, DebateKeeps
  <2> QED BY <2>1, <2>2, <2>3, <2>4 DEF RoundEnds
<1> QED BY <1>7, <1>8

LEMMA FindingsInit == Init => FindingsInv
<1> SUFFICES ASSUME Init PROVE FindingsInv
    OBVIOUS
<1>1. Flags
    BY DEF Init, Flags
<1>2. /\ findings = <<>> /\ todo = <<>> /\ reported = {} /\ checkpoint = 0 /\ idle = 0
      /\ pc = "start" /\ outcome = "none" /\ cur = NoIssue /\ debate = NoDebate
    BY DEF Init
<1>3. DOMAIN todo = {} /\ DOMAIN findings = {} /\ Len(findings) = 0 /\ findings \in Seq(FindingSet)
      /\ Analyzers \in Nat /\ Cap \in Nat
    BY <1>2, ReplicationAssumption, CapAssumption
<1>4. NoDebate \in Debates /\ NoIssue \in Clusters
    BY RoundsAssumption DEF NoDebate, Debates, VALID, NoIssue, Clusters
<1>5. WorkTyped
    BY <1>2, <1>3, <1>4 DEF WorkTyped, VALID
<1>6. Apart /\ Covered
    BY <1>2, <1>3 DEF Apart, FindingsDistinct, Covered, AtHand
<1>7. Placed
    BY <1>2, <1>3 DEF Placed, AtHand, Beginning
<1>8. Weighed
    BY <1>2, <1>3 DEF Weighed, Weightiest
<1> QED BY <1>1, <1>5, <1>6, <1>7, <1>8 DEF FindingsInv, Kept

\* A step that fails the path, or only moves it on before its first candidate.
LEMMA ControlKeeps ==
    ASSUME Shapes, WorkTyped, Kept,
           UNCHANGED <<cfg, idle, todo, cur, debate, findings, checkpoint, reported>>,
           \/ pc' = "unwind" /\ outcome' = outcome /\ outcome = "none"
           \/ pc' = "done" /\ outcome' \notin {"none", "COMPLETED"}
           \/ /\ pc \in {"start", "loaded"} /\ outcome' = outcome
              /\ pc' = "loaded" \/ (pc' = "fan" /\ stage' = "analyzer")
    PROVE  WorkTyped' /\ Kept'
<1>1. pc' \notin {"debate", "record"} /\ (pc' = "fan" => stage' = "analyzer")
    OBVIOUS
<1>2. WorkTyped'
    BY <1>1 DEF WorkTyped
<1>3. Aside
    BY <1>1 DEF Aside, AtHand, Alive, Beginning, Shapes
<1> QED BY <1>2, <1>3, AsideKeeps

LEMMA FindingsStep ==
    ASSUME Shapes, Within, Bounded, WorkTyped, Kept, [Next]_vars PROVE WorkTyped' /\ Kept'
<1>1. CASE UNCHANGED <<control, work, reported>>
  <2>1. WorkTyped'
      BY <1>1 DEF WorkTyped
  <2>2. Kept'
      BY <1>1 DEF Kept, Apart, FindingsDistinct, Covered, Covers, Placed, Weighed, Weightiest,
                  AtHand, Alive, Beginning
  <2> QED BY <2>1, <2>2
<1>2. CASE (\E r \in Replicas : StageCall(r)) \/ Cancel \/ UNCHANGED vars
  <2>1. CASE \E r \in Replicas : StageCall(r)
    <3>1. PICK r \in Replicas : StageCall(r)
        BY <2>1
    <3>2. UNCHANGED <<control, work>>
        BY <3>1, CallEffect DEF Calling
    <3>3. reported' = reported
        BY <3>1 DEF StageCall, Begin, Answer, Raise, Retry, Fallback, ProbeFails, Finishes
    <3> QED BY <1>1, <3>2, <3>3
  <2>2. CASE Cancel \/ UNCHANGED vars
      BY <1>1, <2>2 DEF Cancel, vars
  <2> QED BY <1>2, <2>1, <2>2
<1>o. /\ \A e \in Failures \cup {"interrupt"} : OutcomeOf(e) \notin {"none", "COMPLETED"}
      /\ OutcomeOf("neo4j") \notin {"none", "COMPLETED"}
    BY DEF OutcomeOf, Failures
<1>3. CASE CancelledAtStart \/ Load \/ AfterLoad \/ Raised \/ CancelSeen \/ Unwind \/ Interrupted
           \/ TeamRefused \/ SummaryRaises \/ DebateRaises
  <2>1. UNCHANGED <<cfg, idle, todo, cur, debate, findings, checkpoint, reported>>
      BY <1>3 DEF CancelledAtStart, Load, AfterLoad, Raised, CancelSeen, Unwind, Interrupted,
                  TeamRefused, SummaryRaises, DebateRaises, Done, Goto, Launch
  <2>2. CASE CancelledAtStart \/ Interrupted \/ DebateRaises
    <3>1. pc' = "done" /\ outcome' \notin {"none", "COMPLETED"}
        BY <2>2 DEF CancelledAtStart, Interrupted, DebateRaises, Done
    <3> QED BY <2>1, <3>1, ControlKeeps
  <2>3. CASE Load
    <3>1. \/ pc' = "done" /\ outcome' \notin {"none", "COMPLETED"}
          \/ pc = "start" /\ pc' = "loaded" /\ outcome' = outcome
        BY <1>o, <2>3 DEF Load, Done, Goto, Failures
    <3> QED BY <2>1, <3>1, ControlKeeps
  <2>4. CASE AfterLoad
    <3>1. \/ pc' = "done" /\ outcome' \notin {"none", "COMPLETED"}
          \/ pc = "loaded" /\ pc' = "fan" /\ stage' = "analyzer" /\ outcome' = outcome
        BY <2>4 DEF AfterLoad, Done, Launch
    <3> QED BY <2>1, <3>1, ControlKeeps
  <2>5. CASE Raised \/ CancelSeen \/ TeamRefused
    <3>1. pc' = "unwind" /\ outcome' = outcome /\ outcome = "none"
        BY <2>5 DEF Raised, CancelSeen, TeamRefused, Shapes
    <3> QED BY <2>1, <3>1, ControlKeeps
  <2>6. CASE Unwind \/ SummaryRaises
    <3>1. pc' = "done" /\ outcome' \notin {"none", "COMPLETED"}
        BY <1>o, <2>6 DEF Unwind, SummaryRaises, Done, Shapes, Failures
    <3> QED BY <2>1, <3>1, ControlKeeps
  <2> QED BY <1>3, <2>2, <2>3, <2>4, <2>5, <2>6
<1>4. CASE ValidatedOne \/ ExploitedOne
  <2>0. /\ "validator" \in Stages /\ "exploiter" \in Stages
        /\ ~cfg.deep /\ pc = "fan" /\ stage \in {"validator", "exploiter"} /\ outcome = "none"
        /\ ValidatedOne => stage = "validator"
        /\ ExploitedOne => stage = "exploiter"
      BY <1>4 DEF ValidatedOne, ExploitedOne, Joined, Stages, Shapes
  <2>1. thread[1].st = "ok"
      BY <1>4, <2>0, FanFacts DEF ValidatedOne, ExploitedOne, Joined
  <2>2. /\ AtHand /\ Alive /\ cur \in Candidates /\ Len(findings) < Cap /\ debate \in Debates
        /\ thread[1].val \in Answers(stage)
        /\ stage = "exploiter" => debate.v[1] \in Verdicts
      BY <2>0, <2>1 DEF AtHand, Alive, Bounded, Fast, InStage
  <2>3. reported' = reported
      BY <1>4 DEF ValidatedOne, ExploitedOne
  <2>4. CASE ValidatedOne
    <3> DEFINE v == thread[1].val
    <3>1. v \in Verdicts
        BY <2>0, <2>2, <2>4 DEF Answers
    <3>2. CASE Accept(v, "skipped")
        BY <2>0, <2>2, <2>3, <3>1, <3>2, AcceptKeeps
    <3>3. CASE ~Accept(v, "skipped")
      <4>1. /\ Launch("exploiter") /\ debate' = [debate EXCEPT !.v = <<v, v>>]
            /\ UNCHANGED <<idle, todo, cur, findings, checkpoint>>
          BY <2>4, <3>3 DEF ValidatedOne
      <4> HIDE DEF v
      <4>2. pc' = "fan" /\ stage' = "exploiter" /\ cfg' = cfg /\ outcome' = outcome
          BY <4>1 DEF Launch
      <4>3. <<v, v>> \in (0 .. VALID) \X (0 .. VALID)
          BY <3>1 DEF Verdicts, FALSE_POSITIVE, VALID
      <4>4. debate' \in Debates /\ debate'.v[1] = v
          BY <2>2, <4>1, <4>3 DEF Debates
      <4>5. WorkTyped'
          BY <2>3, <3>1, <4>1, <4>2, <4>4 DEF WorkTyped
      <4>6. Aside
          BY <2>0, <2>2, <2>3, <4>1, <4>2 DEF Aside, AtHand, Alive, Beginning
      <4> QED BY <4>5, <4>6, AsideKeeps
    <3> QED BY <3>2, <3>3
  <2>5. CASE ExploitedOne
    <3>1. /\ Downgraded(debate.v[1], thread[1].val) \in Verdicts
          /\ thread[1].val \in DOMAIN ExploitRank
        BY <2>0, <2>2, <2>5
        DEF Answers, Downgraded, Verdicts, PARTIAL_VALID, FALSE_POSITIVE, VALID
    <3>2. Accept(Downgraded(debate.v[1], thread[1].val), thread[1].val)
        BY <2>5 DEF ExploitedOne
    <3> QED BY <2>0, <2>2, <2>3, <3>1, <3>2, AcceptKeeps
  <2> QED BY <1>4, <2>4, <2>5
<1>5. CASE RecordUnexploited
  <2>1. pc = "record" /\ cfg.deep /\ reported' = reported
      BY <1>5 DEF RecordUnexploited, Shapes
  <2>2. AtHand /\ debate.v[1] \in Verdicts
      BY <2>1 DEF AtHand, WorkTyped
  <2>3. \E e \in {"not_applicable", "skipped"} : Record(e)
      BY <1>5 DEF RecordUnexploited
  <2>4. {"not_applicable", "skipped"} \subseteq DOMAIN ExploitRank \cup {"skipped"}
      BY DEF ExploitRank
  <2> QED BY <2>1, <2>2, <2>3, <2>4, RecordKeeps
<1>6. CASE ExploitedTeam
  <2> DEFINE said == {thread[r].val : r \in Fan("exploiter")}
             e == CHOOSE s \in said : \A t \in said : ExploitRank[t] <= ExploitRank[s]
  <2>1. /\ pc = "fan" /\ stage = "exploiter" /\ cfg.deep /\ reported' = reported
        /\ Joined("exploiter") /\ Record(e)
      BY <1>6 DEF ExploitedTeam, Joined
  <2>2. AtHand /\ debate.v[1] \in Verdicts
      BY <2>1 DEF AtHand, WorkTyped
  <2>3. said \subseteq DOMAIN ExploitRank /\ said # {}
    <3>0. "exploiter" \in Stages
        BY DEF Stages
    <3>1. Fan("exploiter") \subseteq Replicas
        BY <3>0, FanFacts
    <3>2. \A r \in Fan("exploiter") : thread[r].val \in DOMAIN ExploitRank
        BY <2>1, <3>1 DEF Joined, Shapes, Answers
    <3>3. 1 \in Fan("exploiter")
        BY <2>1, ReplicationAssumption DEF Fan
    <3> QED BY <3>2, <3>3
  <2> HIDE DEF said
  <2>4. \E s \in said : \A t \in said : ExploitRank[t] <= ExploitRank[s]
    <3>1. /\ DOMAIN ExploitRank = {"exploitable", "not_exploitable", "not_applicable"}
          /\ ExploitRank["exploitable"] = 3 /\ ExploitRank["not_exploitable"] = 1
          /\ ExploitRank["not_applicable"] = 0
        BY DEF ExploitRank
    <3>2. CASE "exploitable" \in said
        BY <2>3, <3>1, <3>2
    <3>3. CASE "exploitable" \notin said /\ "not_exploitable" \in said
        BY <2>3, <3>1, <3>3
    <3>4. CASE "exploitable" \notin said /\ "not_exploitable" \notin said
        BY <2>3, <3>1, <3>4
    <3> QED BY <3>2, <3>3, <3>4
  <2>5. e \in DOMAIN ExploitRank
      BY <2>3, <2>4
  <2> HIDE DEF e
  <2> QED BY <2>1, <2>2, <2>5, RecordKeeps
<1> QED BY <1>2, <1>3, <1>4, <1>5, <1>6, AnalyzedOneKeeps, FinishKeeps, AnalyzedTeamKeeps,
           ValidatedTeamKeeps, DebateTurnKeeps DEF Next, Main

(***************************************************************************)
(* The inductive invariant and what follows from it.                       *)
(***************************************************************************)
ChainInv == Shapes /\ Within /\ Answered /\ Transcribed /\ Bounded /\ FindingsInv

LEMMA ChainInvInvariant == Spec => []ChainInv
<1>1. Init => ChainInv
  <2> SUFFICES ASSUME Init PROVE ChainInv
      OBVIOUS
  <2>1. Answered /\ Transcribed
      BY DEF Init, Answered, Transcribed
  <2> QED BY <2>1, ThreadInit, BoundedInit, FindingsInit DEF ChainInv
<1>2. ChainInv /\ [Next]_vars => ChainInv'
    BY ThreadStep, AnsweredStep, TranscribedStep, BoundedStep, FlagsStep, FindingsStep
    DEF ChainInv, FindingsInv
<1> QED BY <1>1, <1>2, PTL DEF Spec

\* A path in prompt form is COMPLETED only if every stage call answered, the
\* fast agentic chain attaches the transcript of each call, and the iterative
\* analyzer of _process_unit_single makes at most four calls per finding of
\* audit.max_findings_per_unit.
THEOREM ChainCallsAccounted == Spec => []CallsAccounted
<1>1. ChainInv => CallsAccounted
  <2> SUFFICES ASSUME ChainInv PROVE CallsAccounted
      OBVIOUS
  <2>1. CompletedIsAnswered
      BY DEF ChainInv, Answered, Shapes, CompletedIsAnswered
  <2>2. TranscriptsAttached
      BY DEF ChainInv, Transcribed, TranscriptsAttached
  <2>3. CallsBounded
      BY DEF ChainInv, Bounded, Fast, CallsBounded
  <2> QED BY <2>1, <2>2, <2>3 DEF CallsAccounted
<1> QED BY <1>1, ChainInvInvariant, PTL

\* Whatever the analyzers, the judge, the validators and the debate answer,
\* and for any replication and cap: no identity is in two findings of a path
\* (_dedup_pipeline, _matches_any_excluded), a path that is COMPLETED has
\* every candidate its analyzers returned in a finding at least as strong, and
\* its label is the weightiest verdict (_aggregate_checkpoint_status and the
\* worst_status_rank of _process_unit_teaming).
THEOREM ChainFindingsFaithful == Spec => []FindingsFaithful
<1>1. ChainInv => FindingsFaithful
  <2> SUFFICES ASSUME ChainInv PROVE FindingsFaithful
      OBVIOUS
  <2>0. Shapes /\ Bounded /\ Flags /\ WorkTyped /\ Apart /\ Covered /\ Placed /\ Weighed
      BY DEF ChainInv, FindingsInv, Kept
  <2>1. TypeOK
    <3>1. ASSUME NEW r \in Replicas
          PROVE  /\ thread[r].st \in {"idle", "queued", "running", "ok", "raised"}
                 /\ thread[r].try \in 0 .. Attempts
                 /\ thread[r].st = "ok" => thread[r].val \in Answers(stage)
                 /\ thread[r].st = "raised" => thread[r].val \in Errors
      <4>1. thread[r] \in Slots
          BY <2>0 DEF Shapes
      <4> QED BY <2>0, <4>1 DEF Shapes, Slots, Failures, Errors
    <3>2. /\ debate.round \in 0 .. MaxRounds /\ debate.turn \in 0 .. 2
          /\ \A i \in {1, 2} : debate.v[i] \in 0 .. VALID
        BY <2>0 DEF WorkTyped, Debates
    <3>3. ASSUME NEW i \in DOMAIN findings
          PROVE  findings[i].keys \subseteq Keys /\ findings[i].verdict \in Verdicts
      <4>1. findings[i] \in FindingSet
          BY <2>0 DEF WorkTyped
      <4> QED BY <4>1 DEF FindingSet
    <3>4. Len(findings) <= IF cfg.deep THEN Analyzers ELSE Cap
        BY <2>0 DEF Placed
    <3>5. {probed, cancelled, unanswered} \subseteq BOOLEAN
        BY <2>0 DEF Flags
    <3>6. {calls, transcripts, attached} \subseteq Nat
        BY <2>0 DEF Flags, Bounded
    <3> QED BY <2>0, <3>1, <3>2, <3>3, <3>4, <3>5, <3>6 DEF TypeOK, Shapes, WorkTyped
  <2>2. FindingsDistinct
      BY <2>0 DEF Apart
  <2>3. EveryCandidateKept
    <3> SUFFICES ASSUME outcome = "COMPLETED", NEW c \in reported
                 PROVE  \E i \in DOMAIN findings : Covers(findings[i], c)
        BY DEF EveryCandidateKept, Covers
    <3>1. pc = "done" /\ DOMAIN todo = {}
        BY <2>0 DEF Shapes, Placed
    <3> QED BY <2>0, <3>1 DEF Covered, Alive, AtHand
  <2>4. CheckpointIsWorst
      BY <2>0 DEF Weighed, Weightiest, CheckpointIsWorst
  <2> QED BY <2>1, <2>2, <2>3, <2>4 DEF FindingsFaithful
<1> QED BY <1>1, ChainInvInvariant, PTL

=============================================================================
