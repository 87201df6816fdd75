------------------------------ MODULE UnitChain ------------------------------
(***************************************************************************)
(* The agent chain of one path (audit/workflow.py _process_one_path):      *)
(* analyzer, validator and exploiter, in fast mode (_process_unit_single,  *)
(* one call at a time, the analyzer repeated) or in deep mode              *)
(* (_process_unit_teaming and the teams of audit/agents.py, one thread per *)
(* replica, deduplication and debate), in prompt form (invoke_agent, with  *)
(* retries) or agentic form (CoderServiceAgentTransport, with fallbacks).  *)
(***************************************************************************)
EXTENDS Integers, Sequences, FiniteSets

CONSTANTS
    Keys,           \* (finding_name, suspect_function_id, suspect_line)
    Analyzers, Validators, Exploiters,  \* audit.replication, in deep mode
    Cap,            \* audit.max_findings_per_unit
    MaxRounds,      \* validator.debate.max_rounds
    Attempts        \* attempts= of retry in invoke_agent

ASSUME ReplicationAssumption ==
    {Analyzers, Validators, Exploiters} \subseteq Nat \ {0}
ASSUME CapAssumption == Cap \in Nat \ {0}
ASSUME RoundsAssumption == MaxRounds \in Nat \ {0}
ASSUME AttemptsAssumption == Attempts \in Nat \ {0}
ASSUME KeysAssumption == IsFiniteSet(Keys)

VARIABLES
    cfg,        \* mode, stages.form, replication.exploiter > 0, and the teams
                \* whose provider_list names providers of the llm section
    pc, stage,  \* where the thread of the path is, and the stage it runs
    thread,     \* the replicas' calls
    probed,     \* _probe_done of the transport
    error,      \* the exception on its way out
    idle,       \* consecutive_no_issue
    todo,       \* consolidated candidates not yet validated, by their first record
    cur,        \* the candidate at hand
    debate,     \* the debate's round, turn and current verdicts
    findings,   \* per_finding
    checkpoint, \* checkpoint_status, 0 for no_finding
    transcripts,\* agentic_transcripts of the stage runner
    attached,   \* transcripts handed to the findings
    outcome,    \* PathOutcome, or how the exception left
    cancelled,  \* the run was cancelled
    reported,   \* history: the candidates the analyzer returned
    unanswered, \* history: a stage call failed or fell back
    calls       \* history: stage calls that returned

control == <<cfg, pc, stage, error, outcome>>
work == <<idle, todo, cur, debate, findings, checkpoint>>
runner == <<probed, transcripts, attached>>
ghosts == <<reported, unanswered, calls>>
vars == <<control, thread, runner, work, cancelled, ghosts>>

\* Verdicts in the order of their names, which is also their weight;
\* 0 is a text no status_map knows.
FALSE_POSITIVE == 1
INCONCLUSIVE == 2
PARTIAL_VALID == 3
VALID == 4
Verdicts == FALSE_POSITIVE .. VALID

\* _EVIDENCE_RANK (medium left out) and _EXPLOIT_STATUS_RANK (uncertain left out).
EvidenceRanks == {1, 3}
ExploitRank == [exploitable |-> 3, not_exploitable |-> 1, not_applicable |-> 0]

NoIssue == [keys |-> {}, rank |-> 0]
Candidates == [keys : {{k} : k \in Keys}, rank : EvidenceRanks]

Stages == {"analyzer", "validator", "exploiter"}

\* What a call of a stage can return.
Answers(s) ==
    CASE s = "analyzer" -> Candidates \cup {NoIssue}
      [] s = "validator" -> Verdicts
      [] s = "exploiter" -> DOMAIN ExploitRank

\* The largest number of a set, 0 of the empty one.
Max0(S) == IF S = {} THEN 0 ELSE CHOOSE m \in S : \A x \in S : x <= m

Replicas == 1 .. Max0({Analyzers, Validators, Exploiters})
NoCall == [st |-> "idle", try |-> 0, val |-> <<>>]
Call(st) == [st |-> st, try |-> 1, val |-> <<>>]
Busy(r) == thread[r].st \in {"queued", "running"}

NoDebate == [round |-> 0, turn |-> 0, v |-> <<0, 0>>]

Init ==
    /\ cfg \in [deep : BOOLEAN, agentic : BOOLEAN, exploit : BOOLEAN, teams : SUBSET Stages]
    /\ cfg.deep \/ cfg.teams = Stages
    /\ pc = "start" /\ stage = "none"
    /\ thread = [r \in Replicas |-> NoCall]
    /\ probed = FALSE /\ error = "none"
    /\ idle = 0 /\ todo = <<>> /\ cur = NoIssue /\ debate = NoDebate
    /\ findings = <<>> /\ checkpoint = 0
    /\ transcripts = 0 /\ attached = 0
    /\ outcome = "none" /\ cancelled = FALSE
    /\ reported = {} /\ unanswered = FALSE /\ calls = 0

Goto(p) == pc' = p /\ UNCHANGED <<cfg, stage, error, outcome>>

\* The path ends: PathResult, or an exception for the pool.
Done(o) == pc' = "done" /\ outcome' = o /\ UNCHANGED <<cfg, stage, error>>

\* The except clauses of _process_one_path; KeyboardInterrupt passes them.
OutcomeOf(e) ==
    CASE e = "context" -> "CONTEXT_SKIPPED"
      [] e \in {"llm", "neo4j"} -> "LLM_FAILED"
      [] e = "other" -> "raised"
      [] e = "interrupt" -> "interrupt"

-----------------------------------------------------------------------------
(* One stage: its calls, in threads in deep mode, inline in fast mode. *)

Fan(s) ==
    1 .. IF ~cfg.deep THEN 1
         ELSE CASE s = "analyzer" -> Analyzers
                [] s = "validator" -> Validators
                [] s = "exploiter" -> Exploiters

\* The pool's threads are started, or the one call is made.
Launch(s) ==
    /\ thread' = [r \in Replicas |->
            IF r \in Fan(s) THEN Call(IF cfg.deep THEN "queued" ELSE "running")
            ELSE NoCall]
    /\ pc' = "fan" /\ stage' = s
    /\ UNCHANGED <<cfg, error, outcome>>

\* Validators are always in prompt form in deep mode.
IsAgentic == cfg.agentic /\ ~(cfg.deep /\ stage = "validator")

Finishes(r, st, val) ==
    /\ thread' = [thread EXCEPT ![r] = [st |-> st, try |-> 0, val |-> val]]
    /\ UNCHANGED <<control, work, attached, cancelled, reported>>

\* A replica's thread starts; in prompt form its model was built before.
Begin(r) ==
    /\ thread[r].st = "queued"
    /\ IsAgentic \/ stage \in cfg.teams
    /\ thread' = [thread EXCEPT ![r] = Call("running")]
    /\ UNCHANGED <<control, runner, work, cancelled, ghosts>>

\* An agentic call has passed the probe and leaves its transcript.
Returns ==
    /\ probed' = (probed \/ IsAgentic)
    /\ transcripts' = IF IsAgentic THEN transcripts + 1 ELSE transcripts
    /\ calls' = calls + 1

Answer(r) ==
    /\ thread[r].st = "running"
    /\ \E a \in Answers(stage) : Finishes(r, "ok", a)
    /\ Returns
    /\ UNCHANGED unanswered

\* Mutant: a call whose attempts are used up passes for an answer.
RaiseAnswers(r) ==
    /\ thread[r].st = "running" /\ ~IsAgentic
    /\ \E a \in Answers(stage) : Finishes(r, "ok", a)
    /\ unanswered' = TRUE
    /\ UNCHANGED <<probed, transcripts, calls>>

\* A prompt call fails for good: retries used up, the context window is
\* exceeded (not retried), or the answer does not fit the response model.
Raise(r) ==
    /\ thread[r].st = "running" /\ ~IsAgentic
    /\ \/ thread[r].try = Attempts /\ Finishes(r, "raised", "llm")
       \/ Finishes(r, "raised", "context")
       \/ Finishes(r, "raised", "other")
    /\ unanswered' = TRUE
    /\ UNCHANGED <<probed, transcripts, calls>>

\* Mutant: the attempts are not counted.
RetryForever(r) ==
    /\ thread[r].st = "running" /\ ~IsAgentic
    /\ thread' = [thread EXCEPT ![r].try = 3 - @]
    /\ UNCHANGED <<control, runner, work, cancelled, ghosts>>

Retry(r) ==
    /\ thread[r].st = "running" /\ ~IsAgentic
    /\ thread[r].try < Attempts
    /\ thread' = [thread EXCEPT ![r].try = @ + 1]
    /\ UNCHANGED <<control, runner, work, cancelled, ghosts>>

\* An agentic call that fails returns what came with the failure, if it fits
\* the response model, and the model's defaults otherwise.
Fallback(r) ==
    /\ thread[r].st = "running" /\ IsAgentic
    /\ \E a \in Answers(stage) : Finishes(r, "ok", a)
    /\ Returns
    /\ unanswered' = TRUE

\* GET /health of the first call fails.
ProbeFails(r) ==
    /\ thread[r].st = "running" /\ IsAgentic /\ ~probed
    /\ Finishes(r, "raised", "other")
    /\ unanswered' = TRUE
    /\ UNCHANGED <<probed, transcripts, calls>>

\* A step of a call.
StageCall(r) ==
    Begin(r) \/ Answer(r) \/ Raise(r) \/ Retry(r) \/ Fallback(r) \/ ProbeFails(r)

\* A future raised: the with block is left while the others still run.
Raised ==
    /\ pc = "fan"
    /\ \E r \in Fan(stage) : thread[r].st = "raised" /\ error' = thread[r].val
    /\ pc' = "unwind"
    /\ UNCHANGED <<cfg, stage, outcome, thread, runner, work, cancelled, ghosts>>

Joined(s) ==
    /\ pc = "fan" /\ stage = s
    /\ \A r \in Fan(s) : thread[r].st = "ok"

\* Cancelled while it waits: shutdown(cancel_futures=True) drops what no
\* thread has begun, then KeyboardInterrupt leaves the with block. In fast
\* mode the interrupt ends the call itself.
CancelSeen ==
    /\ pc = "fan" /\ cancelled
    /\ error' = "interrupt"
    /\ pc' = "unwind"
    /\ thread' = [r \in Replicas |->
            IF thread[r].st = "queued" \/ (~cfg.deep /\ Busy(r)) THEN NoCall ELSE thread[r]]
    /\ UNCHANGED <<cfg, stage, outcome, runner, work, cancelled, ghosts>>

\* ThreadPoolExecutor.__exit__ waits for every thread before the exception
\* goes on to _process_one_path.
Unwind ==
    /\ pc = "unwind"
    /\ \A r \in Replicas : ~Busy(r)
    /\ Done(OutcomeOf(error))
    /\ UNCHANGED <<thread, runner, work, cancelled, ghosts>>

\* KeyboardInterrupt between two stages or in a call the path makes itself.
Interrupted ==
    /\ cancelled /\ pc \notin {"fan", "unwind", "done"}
    /\ Done("interrupt")
    /\ UNCHANGED <<thread, runner, work, cancelled, ghosts>>

Cancel ==
    /\ ~cancelled /\ pc # "done"
    /\ cancelled' = TRUE
    /\ UNCHANGED <<control, thread, runner, work, ghosts>>

-----------------------------------------------------------------------------
(* _process_one_path: cancellation, the path's functions and context. *)

CancelledAtStart ==
    /\ pc = "start" /\ cancelled
    /\ Done("CANCELLED")
    /\ UNCHANGED <<thread, runner, work, cancelled, ghosts>>

Load ==
    /\ pc = "start" /\ ~cancelled
    /\ \/ Goto("loaded")
       \/ \E e \in {"neo4j", "other"} : Done(OutcomeOf(e))
    /\ UNCHANGED <<thread, runner, work, cancelled, ghosts>>

AfterLoad ==
    /\ pc = "loaded"
    /\ IF cancelled
       THEN Done("CANCELLED") /\ UNCHANGED thread
       ELSE Launch("analyzer")
    /\ UNCHANGED <<runner, work, cancelled, ghosts>>

-----------------------------------------------------------------------------
(* Fast mode: _process_unit_single. *)

\* _matches_any_excluded.
MatchesExcluded(c) == \E i \in DOMAIN findings : findings[i].keys = c.keys

\* The analyzer's answer: a new candidate goes to the validator; anything
\* else, a repeated candidate too, counts towards the end of the loop.
AnalyzedOne ==
    /\ ~cfg.deep /\ Joined("analyzer")
    /\ LET c == thread[1].val IN
       IF c = NoIssue \/ MatchesExcluded(c)
       THEN /\ idle' = idle + 1
            /\ IF idle + 1 < 2 THEN Launch("analyzer")
               ELSE Goto("finish") /\ UNCHANGED thread
            /\ UNCHANGED <<todo, cur, debate, findings, checkpoint, reported>>
       ELSE /\ cur' = c
            /\ reported' = reported \cup {c}
            /\ Launch("validator")
            /\ UNCHANGED <<idle, todo, debate, findings, checkpoint>>
    /\ UNCHANGED <<runner, cancelled, unanswered, calls>>

Finding(verdict, status) ==
    [keys |-> cur.keys, rank |-> cur.rank, verdict |-> verdict, exploit |-> status]

\* The finding joins accepted_chain and the loop goes on below the cap.
Accept(verdict, status) ==
    /\ findings' = Append(findings, Finding(verdict, status))
    /\ idle' = 0
    /\ IF Len(findings) + 1 < Cap THEN Launch("analyzer")
       ELSE Goto("finish") /\ UNCHANGED thread
    /\ UNCHANGED <<todo, cur, debate, checkpoint>>

\* A false positive, or any finding when the exploiter is switched off, is
\* accepted without an exploiter.
ValidatedOne ==
    /\ ~cfg.deep /\ Joined("validator")
    /\ LET verdict == thread[1].val IN
       IF verdict = FALSE_POSITIVE \/ ~cfg.exploit
       THEN Accept(verdict, "skipped")
       ELSE /\ Launch("exploiter")
            /\ debate' = [debate EXCEPT !.v = <<verdict, verdict>>]
            /\ UNCHANGED <<idle, todo, cur, findings, checkpoint>>
    /\ UNCHANGED <<runner, cancelled, ghosts>>

\* not_exploitable takes a Valid verdict down to Partial Valid.
Downgraded(verdict, status) ==
    IF verdict = VALID /\ status = "not_exploitable" THEN PARTIAL_VALID ELSE verdict

ExploitedOne ==
    /\ ~cfg.deep /\ Joined("exploiter")
    /\ Accept(Downgraded(debate.v[1], thread[1].val), thread[1].val)
    /\ UNCHANGED <<runner, cancelled, ghosts>>

Worst(fs) ==
    IF fs = <<>> THEN 0
    ELSE CHOOSE v \in Verdicts :
            /\ \E i \in DOMAIN fs : fs[i].verdict = v
            /\ \A i \in DOMAIN fs : fs[i].verdict <= v

\* The loop is over: pop_transcripts_for and _aggregate_checkpoint_status.
Finish ==
    /\ pc = "finish"
    /\ checkpoint' = Worst(findings)
    /\ attached' = transcripts /\ transcripts' = 0
    /\ Done("COMPLETED")
    /\ UNCHANGED <<thread, probed, idle, todo, cur, debate, findings, cancelled, ghosts>>

-----------------------------------------------------------------------------
(* Deep mode: _process_unit_teaming with the three teams. *)

\* The analyzer records that are candidates, by subagent_index.
CandidateRecords == {r \in Fan("analyzer") : thread[r].val # NoIssue}

\* _dedup_pipeline: records with the same key are one cluster; then the judge
\* decides pair by pair, so a cluster joins an earlier one that joined none
\* itself, or stays (also when the judge fails). h[r] is the first record of
\* the cluster that record r ends in.
Judgements ==
    {h \in [CandidateRecords -> CandidateRecords] :
        \A r, q \in CandidateRecords :
            /\ h[r] <= r /\ h[h[r]] = h[r]
            /\ thread[r].val.keys = thread[q].val.keys => h[r] = h[q]}

\* Mutant: the cluster's first record stands for it.
ClusterFirst(h, r) ==
    [keys |-> UNION {thread[q].val.keys : q \in {x \in CandidateRecords : h[x] = r}},
     rank |-> thread[r].val.rank]

\* The cluster whose first record is r: its keys and the evidence of its
\* representative, the strongest record.
Cluster(h, r) ==
    LET members == {q \in CandidateRecords : h[q] = r} IN
    [keys |-> UNION {thread[q].val.keys : q \in members},
     rank |-> Max0({thread[q].val.rank : q \in members})]

\* The clusters, each at the place of its first record.
Consolidated(h) == [r \in {q \in CandidateRecords : h[q] = q} |-> Cluster(h, r)]

\* The for loop over consolidated takes its next finding, or ends.
NextFinding(rest) ==
    IF DOMAIN rest = {}
    THEN /\ Done("COMPLETED")
         /\ todo' = <<>> /\ cur' = NoIssue /\ UNCHANGED thread
    ELSE /\ Launch("validator")
         /\ \E first \in DOMAIN rest :
              /\ \A r \in DOMAIN rest : first <= r
              /\ todo' = [r \in DOMAIN rest \ {first} |-> rest[r]]
              /\ cur' = rest[first]

AnalyzedTeam ==
    /\ cfg.deep /\ Joined("analyzer")
    /\ CandidateRecords = {} \/ stage \in cfg.teams
    /\ reported' = reported \cup {thread[r].val : r \in CandidateRecords}
    /\ \E h \in Judgements : NextFinding(Consolidated(h))
    /\ UNCHANGED <<runner, idle, debate, findings, checkpoint, cancelled, unanswered, calls>>

\* ValueError for a provider_list that is empty or names an unknown provider:
\* no model of the team is built in prompt form; in agentic form the judge of
\* what the team answered has none.
TeamRefused ==
    /\ cfg.deep /\ pc = "fan" /\ stage \notin cfg.teams
    /\ \/ ~IsAgentic
       \/ Joined("analyzer") /\ CandidateRecords # {}
       \/ Joined("exploiter")
    /\ error' = "other"
    /\ pc' = "unwind"
    /\ thread' = [r \in Replicas |-> NoCall]
    /\ UNCHANGED <<cfg, stage, outcome, runner, work, cancelled, ghosts>>

\* The summary of an oversized record raises (before the judge, outside its
\* try), when there are two clusters to judge.
SummaryRaises ==
    /\ cfg.deep /\ stage \in cfg.teams
    /\ \/ /\ Joined("analyzer")
          /\ \E r, q \in CandidateRecords : thread[r].val.keys # thread[q].val.keys
       \/ Joined("exploiter") /\ Exploiters > 1
    /\ \E e \in {"llm", "context", "other"} : Done(OutcomeOf(e))
    /\ unanswered' = TRUE
    /\ UNCHANGED <<thread, runner, work, cancelled, reported, calls>>

\* The verdict is settled: the exploiter team, unless every validator said
\* false positive or there is no such team.
Settle(verdict) ==
    /\ debate' = [NoDebate EXCEPT !.v = <<verdict, verdict>>]
    /\ IF cfg.exploit /\ \E r \in Fan("validator") : thread[r].val # FALSE_POSITIVE
       THEN Launch("exploiter")
       ELSE Goto("record") /\ UNCHANGED thread

ValidatedTeam ==
    /\ cfg.deep /\ Joined("validator")
    /\ LET votes == {thread[r].val : r \in Fan("validator")} IN
       IF Cardinality(votes) <= 1 THEN Settle(Max0(votes))
       ELSE /\ debate' = [round |-> 1, turn |-> 1,
                          v |-> <<CHOOSE v \in votes : \A w \in votes : v <= w, Max0(votes)>>]
            /\ Goto("debate") /\ UNCHANGED thread
    /\ UNCHANGED <<runner, idle, todo, cur, findings, checkpoint, cancelled, ghosts>>

\* status_map.get with its default.
Known(v) == IF v = 0 THEN INCONCLUSIVE ELSE v

\* After the second debater's turn: agreement, another round, or the
\* weightier verdict. Two unknown texts may be equal or differ.
RoundEnds(v) ==
    \/ v[1] = v[2] /\ Settle(Known(v[1]))
    \/ /\ v[1] # v[2] \/ v[1] = 0
       /\ IF debate.round = MaxRounds
          THEN Settle(Known(Max0({v[1], v[2]})))
          ELSE /\ debate' = [round |-> debate.round + 1, turn |-> 1, v |-> v]
               /\ Goto("debate") /\ UNCHANGED thread

\* One debater answers: a verdict, a text no map knows, or no JSON at all,
\* which keeps its own verdict.
DebateTurn ==
    /\ pc = "debate"
    /\ \E verdict \in Verdicts \cup {0} :
         LET v == [debate.v EXCEPT ![debate.turn] = verdict] IN
         IF debate.turn = 1
         THEN /\ debate' = [debate EXCEPT !.turn = 2, !.v = v]
              /\ Goto("debate") /\ UNCHANGED thread
         ELSE RoundEnds(v)
    /\ UNCHANGED <<runner, idle, todo, cur, findings, checkpoint, cancelled, ghosts>>

\* invoke_text of the debate is neither retried nor classified.
DebateRaises ==
    /\ pc = "debate"
    /\ Done("raised")
    /\ unanswered' = TRUE
    /\ UNCHANGED <<thread, runner, work, cancelled, reported, calls>>

\* per_finding.append and worst_status_rank, then the next finding.
Record(status) ==
    /\ findings' = Append(findings, Finding(debate.v[1], status))
    /\ checkpoint' = Max0({checkpoint, debate.v[1]})
    /\ NextFinding(todo)
    /\ UNCHANGED <<idle, debate>>

\* The status placeholders: not_applicable after a unanimous false positive.
RecordUnexploited ==
    /\ pc = "record"
    /\ Record(IF \A r \in Fan("validator") : thread[r].val = FALSE_POSITIVE
              THEN "not_applicable" ELSE "skipped")
    /\ UNCHANGED <<runner, cancelled, ghosts>>

\* The strongest replica's status stands; the verdict is not touched.
ExploitedTeam ==
    /\ cfg.deep /\ Joined("exploiter") /\ stage \in cfg.teams
    /\ LET said == {thread[r].val : r \in Fan("exploiter")} IN
       Record(CHOOSE s \in said : \A t \in said : ExploitRank[t] <= ExploitRank[s])
    /\ UNCHANGED <<runner, cancelled, ghosts>>

-----------------------------------------------------------------------------
Main ==
    \/ CancelledAtStart \/ Load \/ AfterLoad \/ Raised \/ CancelSeen \/ Unwind \/ Interrupted
    \/ AnalyzedOne \/ ValidatedOne \/ ExploitedOne \/ Finish
    \/ AnalyzedTeam \/ TeamRefused \/ SummaryRaises \/ ValidatedTeam \/ DebateTurn \/ DebateRaises
    \/ RecordUnexploited \/ ExploitedTeam

Next == Main \/ (\E r \in Replicas : StageCall(r)) \/ Cancel

\* The path's thread goes on whenever it can, and every call ends: the SDK and
\* HTTP requests have timeouts.
Spec ==
    /\ Init /\ [][Next]_vars /\ WF_vars(Main)
    /\ \A r \in Replicas : WF_vars(StageCall(r))

-----------------------------------------------------------------------------
(* Properties. *)

Errors == {"none", "llm", "context", "other", "interrupt"}
Outcomes == {"none", "COMPLETED", "CONTEXT_SKIPPED", "LLM_FAILED", "CANCELLED", "raised", "interrupt"}
Clusters == [keys : SUBSET Keys, rank : {0} \cup EvidenceRanks]

\* The types of the variables; accepted findings stay below the cap in fast
\* mode and below one per analyzer in deep mode.
TypeOK ==
    /\ cfg \in [deep : BOOLEAN, agentic : BOOLEAN, exploit : BOOLEAN, teams : SUBSET Stages]
    /\ pc \in {"start", "loaded", "fan", "unwind", "finish", "debate", "record", "done"}
    /\ stage \in Stages \cup {"none"}
    /\ \A r \in Replicas :
         /\ thread[r].st \in {"idle", "queued", "running", "ok", "raised"}
         /\ thread[r].try \in 0..Attempts
         /\ thread[r].st = "ok" => thread[r].val \in Answers(stage)
         /\ thread[r].st = "raised" => thread[r].val \in Errors
    /\ {probed, cancelled, unanswered} \subseteq BOOLEAN
    /\ error \in Errors /\ outcome \in Outcomes
    /\ idle \in 0..2
    /\ \A i \in DOMAIN todo : todo[i] \in Clusters
    /\ cur \in Clusters
    /\ debate.round \in 0..MaxRounds /\ debate.turn \in 0..2
    /\ \A i \in {1, 2} : debate.v[i] \in 0..VALID
    /\ Len(findings) <= IF cfg.deep THEN Analyzers ELSE Cap
    /\ \A i \in DOMAIN findings : findings[i].keys \subseteq Keys /\ findings[i].verdict \in Verdicts
    /\ checkpoint \in 0..VALID
    /\ {calls, transcripts, attached} \subseteq Nat
    /\ reported \subseteq Candidates

\* A path reports no finding twice: no identity the analyzers gave belongs
\* to two findings, whatever the judge merged and however often the model
\* repeats a candidate it was told to leave out.
FindingsDistinct ==
    \A i, j \in DOMAIN findings : i # j => findings[i].keys \cap findings[j].keys = {}

\* A completed path lost no candidate: each one an analyzer returned is in a
\* finding, in deep mode with at least the evidence it came with.
EveryCandidateKept ==
    outcome = "COMPLETED" =>
        \A c \in reported : \E i \in DOMAIN findings :
            c.keys \subseteq findings[i].keys /\ (cfg.deep => c.rank <= findings[i].rank)

\* The label of a completed path is the weightiest verdict of its findings.
CheckpointIsWorst ==
    outcome = "COMPLETED" =>
        /\ \A i \in DOMAIN findings : findings[i].verdict <= checkpoint
        /\ IF findings = <<>> THEN checkpoint = 0
           ELSE \E i \in DOMAIN findings : findings[i].verdict = checkpoint

\* In prompt form a path is COMPLETED only if every stage call answered: the
\* failure of one replica of three fails the path, which a resume repeats.
CompletedIsAnswered == outcome = "COMPLETED" /\ ~cfg.agentic => ~unanswered

\* The iterative analyzer ends: at most two analyzer calls per finding of
\* the cap, and one validator and one exploiter call each.
CallsBounded == ~cfg.deep => calls <= 4 * Cap

\* A path the fast agentic chain completed has the transcript of every call.
TranscriptsAttached ==
    outcome = "COMPLETED" /\ cfg.agentic /\ ~cfg.deep => attached = calls

\* Every path ends, by a result or an exception.
ChainEnds == <>(pc = "done")

\* The findings of a path are the candidates of its analyzers: none twice,
\* none lost, none weightier than the label.
FindingsFaithful == TypeOK /\ FindingsDistinct /\ EveryCandidateKept /\ CheckpointIsWorst

\* Every stage call is answered for: in the outcome, in the transcripts and
\* within the cap.
CallsAccounted == CompletedIsAnswered /\ TranscriptsAttached /\ CallsBounded

=============================================================================
