------------------------------- MODULE Portal -------------------------------
(* The portal API over the report database: PortalUsers composed with       *)
(* reviewers' feedback on findings, the administrators' run overrides, the  *)
(* audit worker writing the same run rows, and the run metrics.             *)
EXTENDS PortalUsers

CONSTANTS Runs, Findings,
          NoFinding, NoUser,
          RunOf,          \* run of each finding
          Verdict,        \* validation_status of each finding
          CoderStatus,    \* coder_findings.status, "none" without a row
          Bodies,         \* feedback a client sends; canonical when the pointer
                          \* is spelled as str() spells a UUID
          Workloads,      \* sets of operations clients ask for
          MaxRequests,    \* bound on the requests of each
          MaxWrites       \* bound on the worker's writes

Labels == {"true_positive", "false_positive", "duplicate", "unlabeled"}

ASSUME PortalAssumption == /\ IsFiniteSet(Findings)
                           /\ Bodies \subseteq [label : Labels, ptr : Findings \cup {NoFinding},
                                              canonical : BOOLEAN]
                           /\ NoFinding \notin Findings /\ NoUser \notin Users
                           /\ RunOf \in [Findings -> Runs]
                           /\ MaxRequests \in [Workloads -> Nat] /\ MaxWrites \in Nat

VARIABLES runs,         \* rows of report.audit_runs
          ann,          \* rows of feedback.finding_annotations
          hist,         \* rows of feedback.annotation_history
          log,          \* rows of report.audit_run_admin_actions
          work,         \* the feedback or run request in each slot
          load, asked, writes

dataVars == <<runs, ann, hist, log>>
portalVars == <<dataVars, work, load, asked, writes>>
vars == <<usersVars, portalVars>>

Statuses == {"in_progress", "completed", "failed", "cancelled"}

NoAnn == [label |-> "none", ptr |-> NoFinding, by |-> NoUser]
Annotation == [label : Labels, ptr : Findings \cup {NoFinding}, by : Users]
Annotated(f) == ann[f].label \in Labels

\* done: completed_at is set.  A deleted run takes its findings with it.
Gone == [status |-> "gone", done |-> FALSE]
RunRow == [status : Statuses, done : BOOLEAN]
RunExists(r) == runs[r] # Gone
FindingExists(f) == RunExists(RunOf[f])
FindingsOf(r) == {f \in Findings : RunOf[f] = r}

Init ==
    /\ UsersInit
    /\ runs = [r \in Runs |-> [status |-> "in_progress", done |-> FALSE]]
    /\ ann = [f \in Findings |-> NoAnn]
    /\ hist = [f \in Findings |-> {}]
    /\ log = {}
    /\ work = [s \in Slots |-> Idle]
    /\ load \in Workloads
    /\ asked = 0 /\ writes = 0

-----------------------------------------------------------------------------
(* Arrival and the ends of a request.                                       *)

EnterWork(s, op, t, tgt, new) ==
    /\ work[s] = Idle
    /\ work' = [work EXCEPT ![s] = [phase |-> "ready", op |-> op, by |-> t.user, tgt |-> tgt,
                                    new |-> new, old |-> new, pend |-> {}]]
    /\ UNCHANGED dataVars

FeedbackOps == {"create_feedback", "update_feedback"}
RunOps == {"cancel", "complete", "delete_run"}

\* An unknown label, finding or run is answered 400 or 404 before anything.
AskFeedback(s, op, t, f, new) ==
    RequireWriter(t) /\ FindingExists(f) /\ EnterWork(s, op, t, f, new)

AskRun(s, op, t, r) == RequireAdmin(t) /\ RunExists(r) /\ EnterWork(s, op, t, r, Gone)

DropWork(s) == work' = [work EXCEPT ![s] = Idle] /\ UNCHANGED dataVars

StageWork(s, old, new) ==
    /\ work' = [work EXCEPT ![s].phase = "commit", ![s].old = old, ![s].new = new]
    /\ UNCHANGED dataVars

Doing(s, phase, op) == work[s].phase = phase /\ work[s].op = op

-----------------------------------------------------------------------------
(* Feedback.                                                                *)

\* _validate_duplicate_payload: the pointer as the client spelled it is
\* compared with str(finding.id), the database looks up the UUID it stands for.
DuplicateRules(f, new) ==
    /\ (new.label = "duplicate") = (new.ptr # NoFinding)
    /\ new.ptr # NoFinding =>
        /\ ~(new.ptr = f /\ new.canonical)
        /\ FindingExists(new.ptr)
        /\ RunOf[new.ptr] = RunOf[f]
        /\ ann[new.ptr].label # "duplicate"

ReadForCreate(s) ==
    LET w == work[s]
        ok == FindingExists(w.tgt) /\ DuplicateRules(w.tgt, w.new) /\ ~Annotated(w.tgt)
    IN  /\ Doing(s, "ready", "create_feedback")
        /\ \/ ok /\ StageWork(s, NoAnn, w.new)
           \/ ~ok /\ DropWork(s)

ReadForUpdate(s) ==
    LET w == work[s]
        ok == FindingExists(w.tgt) /\ DuplicateRules(w.tgt, w.new) /\ Annotated(w.tgt)
    IN  /\ Doing(s, "ready", "update_feedback")
        /\ \/ ok /\ StageWork(s, ann[w.tgt], w.new)
           \/ ~ok /\ DropWork(s)

NoPointerCheck(row) == TRUE      \* mutant

\* ck_finding_annotations_duplicate_pointer
PointerCheck(row) == (row.label = "duplicate") = (row.ptr # NoFinding)

\* The foreign keys an INSERT or UPDATE of feedback is held to.
ReferencesHold(f, row, reviewer) ==
    /\ FindingExists(f)
    /\ row.ptr # NoFinding => FindingExists(row.ptr)
    /\ Exists(reviewer)

Entry(old, new) == [old |-> old.label, new |-> new.label, oldPtr |-> old.ptr, newPtr |-> new.ptr]

\* Annotation and history row in one transaction; (run_id, finding_id) is unique.
CreateFeedback(s) ==
    LET w == work[s]
        f == w.tgt
        row == [label |-> w.new.label, ptr |-> w.new.ptr, by |-> w.by]
        ok == ~Annotated(f) /\ PointerCheck(row) /\ ReferencesHold(f, row, w.by)
    IN  /\ Doing(s, "commit", "create_feedback")
        /\ \/ /\ ok
              /\ ann' = [ann EXCEPT ![f] = row]
              /\ hist' = [hist EXCEPT ![f] = @ \cup {Entry(NoAnn, row)}]
              /\ work' = [work EXCEPT ![s] = Idle]
              /\ UNCHANGED <<runs, log>>
           \/ ~ok /\ DropWork(s)

\* Only the columns that differ from the loaded row are written: a pointer that
\* is given always does, as text from a UUID.  A row that an open deletion has
\* locked is waited for.  The reviewer stays the first.
MergeAnn(old, new, now) ==
    [label |-> IF new.label = old.label THEN now.label ELSE new.label,
     ptr |-> IF new.ptr = NoFinding /\ old.ptr = NoFinding THEN now.ptr ELSE new.ptr,
     by |-> now.by]

PendingDelete(f) == \E s \in Slots : work[s] # Idle /\ f \in work[s].pend

\* previous_* are the values loaded, new_* the ones asked for.
HistoryRow(old, new) == Entry(old, new)

UpdateFeedback(s) ==
    LET w == work[s]
        f == w.tgt
        row == MergeAnn(w.old, w.new, ann[f])
        ok == Annotated(f) /\ PointerCheck(row) /\ ReferencesHold(f, row, w.by)
    IN  /\ Doing(s, "commit", "update_feedback") /\ ~PendingDelete(f)
        /\ \/ /\ ok
              /\ ann' = [ann EXCEPT ![f] = row]
              /\ hist' = [hist EXCEPT ![f] = @ \cup {HistoryRow(w.old, w.new)}]
              /\ work' = [work EXCEPT ![s] = Idle]
              /\ UNCHANGED <<runs, log>>
           \/ ~ok /\ DropWork(s)

-----------------------------------------------------------------------------
(* Run overrides.                                                           *)

\* cancel_run and complete_run: completed_at is filled only when it was NULL.
ReadForOverride(s) ==
    LET w == work[s]
        row == runs[w.tgt]
        new == [status |-> IF w.op = "cancel" THEN "cancelled" ELSE "completed", done |-> TRUE]
        ok == RunExists(w.tgt) /\ row.status # new.status
    IN  /\ w.phase = "ready" /\ w.op \in {"cancel", "complete"}
        /\ \/ ok /\ StageWork(s, row, new)
           \/ ~ok /\ DropWork(s)

\* _record_admin_action: the row needs its actor (actor_user_id) to exist.
Action(w, new) == [run |-> w.tgt, action |-> w.op, previous |-> w.old.status, new |-> new]

Override(s) ==
    LET w == work[s]
        now == runs[w.tgt]
        ok == RunExists(w.tgt) /\ Exists(w.by)
    IN  /\ w.phase = "commit" /\ w.op \in {"cancel", "complete"}
        /\ \/ /\ ok
              /\ runs' = [runs EXCEPT ![w.tgt] = [status |-> w.new.status,
                                                  done |-> IF w.old.done THEN now.done ELSE TRUE]]
              /\ log' = log \cup {Action(w, w.new.status)}
              /\ work' = [work EXCEPT ![s] = Idle]
              /\ UNCHANGED <<ann, hist>>
           \/ ~ok /\ DropWork(s)

\* delete_run: its annotations are deleted first, in the same transaction.
ReadForDelete(s) ==
    LET w == work[s]
        mine == {f \in FindingsOf(w.tgt) : Annotated(f)}
    IN  /\ Doing(s, "ready", "delete_run")
        /\ \/ /\ RunExists(w.tgt) /\ \A f \in mine : ~PendingDelete(f)
              /\ work' = [work EXCEPT ![s].phase = "commit", ![s].old = runs[w.tgt], ![s].pend = mine]
              /\ UNCHANGED dataVars
           \/ ~RunExists(w.tgt) /\ DropWork(s)

\* What goes with the run: its annotations and their history.
Cascade(r) ==
    /\ ann' = [f \in Findings |-> IF RunOf[f] = r THEN NoAnn ELSE ann[f]]
    /\ hist' = [f \in Findings |-> IF RunOf[f] = r THEN {} ELSE hist[f]]

\* A duplicate committed after the annotations were deleted may meet ON
\* DELETE SET NULL before its own cascade: the CHECK then aborts everything.
\* A run deleted by somebody else meanwhile is logged twice.
DeleteRun(s) ==
    LET w == work[s]
        late == {f \in FindingsOf(w.tgt) \ w.pend : ann[f].label = "duplicate"}
    IN  /\ Doing(s, "commit", "delete_run")
        /\ \/ /\ Exists(w.by) /\ Cascade(w.tgt)
              /\ runs' = [runs EXCEPT ![w.tgt] = Gone]
              /\ log' = log \cup {Action(w, "deleted")}
              /\ work' = [work EXCEPT ![s] = Idle]
           \/ (late # {} \/ ~Exists(w.by)) /\ DropWork(s)

-----------------------------------------------------------------------------
(* The audit worker's sink: open_run of a resume, close_run, fail_run.      *)

Worker(r) ==
    /\ RunExists(r)
    /\ \/ runs' = [runs EXCEPT ![r] = [status |-> "in_progress", done |-> FALSE]]
       \/ \E status \in Statuses \ {"in_progress"} :
            runs' = [runs EXCEPT ![r] = [status |-> status, done |-> TRUE]]
    /\ UNCHANGED <<ann, hist, log, work>>

-----------------------------------------------------------------------------
(* Metrics of a run.  A filter is absent, or the set of values given, which *)
(* is the empty marker when every chip is unchecked (?validation_status=).  *)

Absent == {"absent"}
Marker == {""}

ValidStatuses == {"Valid", "Partial Valid", "Inconclusive"}
DefaultCoder == {"Verified", "Inconclusive", "Pending", "Skipped"}

\* _resolve_filter: the values to keep; the marker restricts nothing.
Kept(filter, default, all) ==
    IF filter = Absent THEN default ELSE IF filter = Marker THEN all ELSE filter

AllVerdicts == ValidStatuses \cup {"False Positive"}
AllCoder == DefaultCoder \cup {"Not Verified", "Fail"}

\* func.coalesce(CoderFinding.status, "Skipped")
CoderOf(f) == IF CoderStatus[f] = "none" THEN "Skipped" ELSE CoderStatus[f]

\* _build_metrics_select: the findings counted
Counted(r, vf, cf) ==
    {f \in FindingsOf(r) : /\ Verdict[f] \in Kept(vf, ValidStatuses, AllVerdicts)
                           /\ CoderOf(f) \in Kept(cf, DefaultCoder, AllCoder)}

Labelled(F, label) == {f \in F : ann[f].label = label}
Unlabelled(F) == {f \in F : ~Annotated(f) \/ ann[f].label = "unlabeled"}

ValidNetAllRemoved(F) ==      \* mutant
    LET valid == {f \in F : Verdict[f] \in ValidStatuses}
        added == Labelled({f \in F : Verdict[f] = "False Positive"}, "true_positive")
    IN  (Cardinality(valid) + Cardinality(added))
        - (Cardinality(Labelled(F, "false_positive")) + Cardinality(Labelled(valid, "duplicate")))

\* _row_to_metrics
ValidNet(F) ==
    LET valid == {f \in F : Verdict[f] \in ValidStatuses}
        added == Labelled({f \in F : Verdict[f] = "False Positive"}, "true_positive")
    IN  (Cardinality(valid) + Cardinality(added))
        - (Cardinality(Labelled(valid, "false_positive")) + Cardinality(Labelled(valid, "duplicate")))

-----------------------------------------------------------------------------
ServeWork(s) ==
    \/ ReadForCreate(s) \/ ReadForUpdate(s) \/ CreateFeedback(s) \/ UpdateFeedback(s)
    \/ ReadForOverride(s) \/ Override(s) \/ ReadForDelete(s) \/ DeleteRun(s)

AskedBy(s) ==
    \/ /\ UNCHANGED <<dataVars, work>>
       /\ \/ "login" \in load /\ \E u \in Users : AskLogin(s, u)
          \/ \E op \in OwnOps \cap load, t \in tokens : AskOwn(s, op, t)
          \/ \E op \in AdminOps \cap load, t \in tokens, u \in Users, role \in Roles :
                AskAdmin(s, op, t, u, role)
    \/ /\ UNCHANGED usersVars
       /\ \/ \E op \in FeedbackOps \cap load, t \in tokens, f \in Findings, new \in Bodies :
                AskFeedback(s, op, t, f, new)
          \/ \E op \in RunOps \cap load, t \in tokens, r \in Runs : AskRun(s, op, t, r)

\* reviewer_user_id ON DELETE RESTRICT
Referenced(s) == \E f \in Findings : ann[f].by = req[s].tgt

Next ==
    \/ \E s \in Slots : asked < MaxRequests[load] /\ AskedBy(s) /\ asked' = asked + 1 /\ UNCHANGED <<load, writes>>
    \/ \E s \in Slots : Serve(s) /\ UNCHANGED portalVars
    \/ \E s \in Slots : CommitDelete(s, req[s] # Idle /\ Referenced(s)) /\ UNCHANGED portalVars
    \/ \E s \in Slots : ServeWork(s) /\ UNCHANGED <<usersVars, load, asked, writes>>
    \/ \E r \in Runs : /\ "worker" \in load /\ writes < MaxWrites
                       /\ Worker(r) /\ writes' = writes + 1
                       /\ UNCHANGED <<usersVars, load, asked>>

Spec == Init /\ [][Next]_vars

-----------------------------------------------------------------------------
TypeOK ==
    /\ UsersTypeOK
    /\ runs \in [Runs -> RunRow \cup {Gone}]
    /\ ann \in [Findings -> Annotation \cup {NoAnn}]
    /\ asked \in 0 .. MaxRequests[load] /\ writes \in 0 .. MaxWrites

\* Whatever POSTs, PATCHes and deletions overlap, a stored annotation is a
\* duplicate exactly when it points somewhere, and it points to an existing
\* finding of its own run.
FeedbackWellFormed ==
    \A f \in Findings : Annotated(f) =>
        /\ (ann[f].label = "duplicate") = (ann[f].ptr # NoFinding)
        /\ ann[f].ptr # NoFinding => RunOf[ann[f].ptr] = RunOf[f] /\ FindingExists(ann[f].ptr)

\* The history is "an audit-trail of every label change": the stored label
\* and the stored pointer were each brought in by a recorded change, also
\* when two PATCHes loaded the same row.
HistoryExplains ==
    \A f \in Findings : Annotated(f) =>
        /\ \E e \in hist[f] : e.new = ann[f].label /\ e.old # e.new
        /\ ann[f].ptr # NoFinding => \E e \in hist[f] : e.newPtr = ann[f].ptr

\* A reviewer's account outlives his annotations, also when it is deleted
\* while his request is being served.
ReviewerExists == \A f \in Findings : Annotated(f) => Exists(ann[f].by)

\* A run disappears whole and on the record: no annotation or history of it
\* is left or comes back, and an administrator's delete is logged.
DeletionIsWhole ==
    \A r \in Runs : ~RunExists(r) =>
        /\ \A f \in FindingsOf(r) : ~Annotated(f) /\ hist[f] = {}
        /\ \E a \in log : a.run = r /\ a.action = "delete_run"

VerdictFilters == {Absent, Marker, {"False Positive"}}
CoderFilters == {Absent, Marker, {"Skipped"}}

\* Under any filters, whatever feedback overlapped: the valid tile is the
\* number of the counted findings that are valid after feedback, and every
\* counted finding is in one feedback bucket (_row_to_metrics adds and takes
\* away bucket counts, it never looks at a finding).
TilesAddUp ==
    \A r \in Runs, vf \in VerdictFilters, cf \in CoderFilters :
        LET F == Counted(r, vf, cf) IN
        /\ ValidNet(F) = Cardinality({f \in F :
                IF Verdict[f] \in ValidStatuses THEN ann[f].label \notin {"false_positive", "duplicate"}
                ELSE ann[f].label = "true_positive"})
        /\ Cardinality(F) = Cardinality(Labelled(F, "true_positive")) + Cardinality(Labelled(F, "false_positive"))
                            + Cardinality(Labelled(F, "duplicate")) + Cardinality(Unlabelled(F))

\* Annotations, their history and their runs agree after every overlap of
\* feedback, overrides, deletions and the worker's writes.
RecordsWhole == TypeOK /\ FeedbackWellFormed /\ HistoryExplains /\ ReviewerExists /\ DeletionIsWhole

=============================================================================
