----------------------------- MODULE CallPaths ------------------------------
(* From the calls found in the source to the audited run's coverage:        *)
(* callee resolution and path enumeration of graph/canonical.py, the unit   *)
(* planner, the context slice of a path, coverage and reconciliation.       *)
(*                                                                          *)
(* A function is a number; the order of the numbers is the order of ids and *)
(* of qualified names.  A path fingerprint stands for the path itself.      *)
EXTENDS Integers, SequencesExt

CONSTANTS Functions, External,      \* External: well-known sinks without source
          NameOf, ClassOf, NoClass,
          FoundAt,                  \* where the scan of the source met a function
          SinkKind,                 \* sink_kind, "" for none
          Decorators,               \* intents of a function's decorators, in order
          Registered,               \* functions with an inbound REGISTERS edge
          NameKind,                 \* what _ENTRY_NAME_PATTERNS says of a function
          CallSets, Depths, Counts, \* inputs
          Verdicts,
          MaxAudits                 \* bound on the paths audited

ASSUME CallPathsAssumption == /\ External \subseteq Functions /\ Functions \subseteq Nat /\ IsFiniteSet(Functions)
                              /\ \A f \in External : SinkKind[f] # "" /\ ClassOf[f] = NoClass
                              /\ Decorators \in [Functions -> Seq(STRING)]
                              /\ \A f, g \in Functions : FoundAt[f] \in Nat /\ (FoundAt[f] = FoundAt[g] => f = g)
                              /\ Depths \subseteq Nat \ {0} /\ Counts \subseteq Nat

\* A call is made by a function with source; the qualified name its parser
\* gives is that of one function, or of none (qualified = {}).
ASSUME CallsAssumption ==
    \A C \in CallSets : \A c \in C :
        /\ c.caller \in Functions \ External
        /\ c.qualified = {} \/ \E f \in Functions : c.qualified = {f}

VARIABLES calls, depth, count,      \* the parsed calls, paths_max_depth, paths_max_count
          phase, todo,              \* entries still to be walked
          stack, iters,             \* the walk, and what each iterator has left
          paths, marker,            \* yielded so far
          outcome, findings, payload

pathsVars == <<calls, depth, count, phase, todo, stack, iters, paths, marker, outcome, findings, payload>>
inputs == <<calls, depth, count>>
results == <<outcome, findings, payload>>

-----------------------------------------------------------------------------
(* The call graph.                                                          *)

\* _synthesize_sink_stubs: an external sink is a function once it is called.
Records == (Functions \ External) \cup {f \in External : \E c \in calls : c.qualified = {f}}

\* _resolve_callee: by qualified name, by a name only one function has, or
\* by the one of that name in the caller's class that was found first.
ResolveCallee(c) ==
    LET named == {f \in Records : NameOf[f] = c.name}
        mates == {f \in named : ClassOf[f] = ClassOf[c.caller] /\ ClassOf[f] # NoClass}
    IN  IF c.qualified # {} THEN c.qualified
        ELSE IF Cardinality(named) = 1 THEN named
        ELSE {f \in mates : \A g \in mates : FoundAt[f] <= FoundAt[g]}

Callees(f) == UNION {ResolveCallee(c) : c \in {d \in calls : d.caller = f}}

\* An iterator over a sorted tuple is the set of what it has left: next() is
\* its least member.
Least(S) == CHOOSE m \in S : \A n \in S : m <= n

\* Functions nobody calls; all of them when everybody is called.
EntryIds ==
    LET inbound == UNION {Callees(f) : f \in Records}
    IN  IF Records \subseteq inbound THEN Records ELSE Records \ inbound

-----------------------------------------------------------------------------
(* _enumerate_paths.                                                        *)

PathsInit ==
    /\ calls \in CallSets /\ depth \in Depths /\ count \in Counts
    /\ phase = "enumerate"
    /\ todo = EntryIds
    /\ stack = <<>> /\ iters = <<>> /\ paths = <<>>
    /\ marker = "none"
    /\ outcome = [p \in {} |-> ""] /\ findings = <<>> /\ payload = [i \in {} |-> <<>>]

\* seen: a fingerprint is yielded once
Emit(p) == IF p \in ToSet(paths) THEN paths ELSE Append(paths, p)

\* count_cap_active
CapReached == count > 0 /\ Len(paths) >= count

Mark(reason) == IF marker = "none" THEN reason ELSE marker

StartEntry ==
    /\ phase = "enumerate" /\ stack = <<>> /\ todo # {}
    /\ stack' = <<Least(todo)>>
    /\ iters' = <<Callees(Least(todo))>>
    /\ todo' = todo \ {Least(todo)}
    /\ UNCHANGED <<inputs, phase, paths, marker, results>>

CountCap ==
    /\ phase = "enumerate" /\ stack # <<>> /\ CapReached
    /\ marker' = Mark("max_count_reached")
    /\ phase' = "audit"
    /\ UNCHANGED <<inputs, todo, stack, iters, paths, results>>

Walking == phase = "enumerate" /\ stack # <<>> /\ ~CapReached
ConsumeNothing == iters' = iters      \* mutant

Consume == iters' = [iters EXCEPT ![Len(iters)] = @ \ {Least(@)}]

EndsEverywhere(p) == TRUE      \* mutant

\* A path ends where the function calls nothing at all.
EndsHere(p) == Callees(Last(p)) = {}

Backtrack ==
    /\ Walking /\ Last(iters) = {}
    /\ paths' = IF EndsHere(stack) THEN Emit(stack) ELSE paths
    /\ stack' = Front(stack) /\ iters' = Front(iters)
    /\ UNCHANGED <<inputs, phase, todo, marker, results>>

SkipVisited ==
    /\ Walking /\ Last(iters) # {} /\ Least(Last(iters)) \in ToSet(stack)
    /\ Consume
    /\ UNCHANGED <<inputs, phase, todo, stack, paths, marker, results>>

DepthMarker == Mark("max_depth_reached")

AtDepth == Len(stack) >= depth

Fresh == Walking /\ Last(iters) # {} /\ Least(Last(iters)) \notin ToSet(stack)

DepthCap ==
    /\ Fresh /\ AtDepth
    /\ paths' = Emit(stack)
    /\ marker' = DepthMarker
    /\ Consume
    /\ UNCHANGED <<inputs, phase, todo, stack, results>>

Push ==
    LET f == Least(Last(iters)) IN
    /\ Fresh /\ ~AtDepth
    /\ stack' = Append(stack, f)
    /\ iters' = Append([iters EXCEPT ![Len(iters)] = @ \ {f}], Callees(f))
    /\ UNCHANGED <<inputs, phase, todo, paths, marker, results>>

Enumerated ==
    /\ phase = "enumerate" /\ stack = <<>> /\ todo = {}
    /\ phase' = "audit"
    /\ UNCHANGED <<inputs, todo, stack, iters, paths, marker, results>>

-----------------------------------------------------------------------------
(* The planner's units beyond the paths.                                    *)

Kinds == {"http_client", "subprocess"}

ProducerIsEntry(p, i) == p[1]      \* mutant

\* The function before the sink; the sink itself when the path starts there.
Producer(p, i) == p[IF i > 1 THEN i - 1 ELSE 1]

\* _enumerate_boundary_units: one per (producer, consumer)
BoundaryUnits ==
    {<<Producer(u[1], u[2]), u[1][u[2]]>> :
        u \in {v \in ToSet(paths) \X (1 .. Cardinality(Functions)) :
                v[2] <= Len(v[1]) /\ SinkKind[v[1][v[2]]] \in Kinds}}

\* _enumerate_sink_units
InboundPaths(f) == {p \in ToSet(paths) : f \in ToSet(p)}
SinkUnits == {f \in Records : SinkKind[f] # "" /\ InboundPaths(f) # {}}

\* _ENTRY_INTENTS and _enumerate_entry_units
EntryIntents == {"route", "admin_route", "task_handler", "cli_entry"}
EntryUnits == {f \in Records \ External : ToSet(Decorators[f]) \cap EntryIntents # {} \/ f \in Registered}

-----------------------------------------------------------------------------
(* The entry of a path as its agents are given it; v2 is audit.graph_slice. *)

IntentKind(intent) ==
    CASE intent = "route" -> "public_http" [] intent = "admin_route" -> "admin_http"
      [] intent = "task_handler" -> "internal_rpc" [] intent = "cli_entry" -> "cli" [] OTHER -> ""

\* _classify_entry: the first telling decorator of the entry, else its name;
\* not called without the flag.
ClassifyEntry(p, v2) ==
    LET intents == Decorators[p[1]]
        telling == {i \in DOMAIN intents : IntentKind(intents[i]) # ""}
    IN  IF ~v2 THEN "unknown"
        ELSE IF telling # {} THEN IntentKind(intents[Least(telling)]) ELSE NameKind[p[1]]

-----------------------------------------------------------------------------
(* The run.                                                                 *)

Handle(p, o) == outcome' = [q \in DOMAIN outcome \cup {p} |-> IF q = p THEN o ELSE outcome[q]]

Pending == IF Cardinality(DOMAIN outcome) < MaxAudits THEN ToSet(paths) \ DOMAIN outcome ELSE {}

\* _build_finding of a completed path, or none; the reconciler's key is the
\* suspect (name, function and line).
AuditPath(p) ==
    /\ phase = "audit"
    /\ \/ \E o \in {"completed", "failed", "skipped"} : Handle(p, o) /\ UNCHANGED findings
       \/ /\ Handle(p, "completed")
          /\ \E f \in ToSet(p), v \in Verdicts :
                findings' = Append(findings, [path |-> p, suspect |-> f, verdict |-> v])
    /\ UNCHANGED <<inputs, phase, todo, stack, iters, paths, marker, payload>>

GroupOfPath(i) == {j \in DOMAIN findings : findings[j].path = findings[i].path}      \* mutant

\* The findings with the key of the i-th, by their positions.
Group(i) == {j \in DOMAIN findings : findings[j].suspect = findings[i].suspect}

\* members[0] of the groups
Primaries == {i \in DOMAIN findings : \A j \in 1 .. i - 1 : findings[j].suspect # findings[i].suspect}

\* PassthroughReconciler repeats the first member's verdict;
\* AgenticReconciler asks an agent about a group of several.
Consolidations(form) ==
    {c \in [Primaries -> Verdicts] :
        \A i \in Primaries : (form = "agentic" /\ Cardinality(Group(i)) > 1) \/ c[i] = findings[i].verdict}

\* _apply_reconciliation: the payload of a group is stamped on its first
\* member.
Finish(form) ==
    /\ phase = "audit"
    /\ \E c \in Consolidations(form) :
          payload' = [i \in Primaries |-> [verdicts |-> [j \in Group(i) |-> findings[j].verdict],
                                          consolidated |-> c[i]]]
    /\ phase' = "done"
    /\ UNCHANGED <<inputs, todo, stack, iters, paths, marker, outcome, findings>>

\* The agent's transport raises on some group: no finding gets a payload,
\* and the run completes.
ReconcilerRaises(form) ==
    /\ phase = "audit"
    /\ form = "agentic" /\ \E i \in DOMAIN findings : Cardinality(Group(i)) > 1
    /\ phase' = "done"
    /\ UNCHANGED <<inputs, todo, stack, iters, paths, marker, results>>

\* audit.stages.form
Forms == {"prompt", "agentic"}

\* build_coverage: the plan it is given holds the completed units.
Audited == {p \in DOMAIN outcome : outcome[p] = "completed"}
AuditedFunctions == UNION {ToSet(p) : p \in Audited}

PathState(p) ==
    IF p \in Audited THEN "AUDITED"
    ELSE IF p \notin DOMAIN outcome THEN "NOT_AUDITED"
    ELSE IF outcome[p] = "failed" THEN "FAILED" ELSE "INTERRUPTED"

PathsNext ==
    \/ StartEntry \/ CountCap \/ Backtrack \/ SkipVisited \/ DepthCap \/ Push \/ Enumerated
    \/ \E p \in Pending : AuditPath(p)
    \/ \E form \in Forms : Finish(form) \/ ReconcilerRaises(form)

PathsSpec == PathsInit /\ [][PathsNext]_pathsVars /\ WF_pathsVars(PathsNext)

-----------------------------------------------------------------------------
PathsTypeOK ==
    /\ phase \in {"enumerate", "audit", "done"}
    /\ ToSet(stack) \subseteq Records /\ Len(stack) = Len(iters) /\ Len(stack) <= depth
    /\ ToSet(paths) \subseteq Seq(Records)
    /\ marker \in {"none", "max_depth_reached", "max_count_reached"}
    /\ DOMAIN outcome \subseteq ToSet(paths)
    /\ DOMAIN payload \subseteq DOMAIN findings

Simple == {p \in UNION {[1 .. n -> Functions] : n \in 1 .. Cardinality(Functions)} :
            \A i, j \in DOMAIN p : p[i] = p[j] => i = j}

\* Call chains from an entry, no function twice.
Chains ==
    LET entries == EntryIds
        callees == [f \in Functions |-> Callees(f)]
    IN  {p \in Simple : p[1] \in entries /\ \A i \in 1 .. Len(p) - 1 : p[i + 1] \in callees[p[i]]}

\* What the graph has: chains to a function without callees, and chains cut
\* at the depth that could go on.
Wanted == {p \in Chains : /\ Len(p) <= depth
                          /\ \/ Callees(Last(p)) = {}
                             \/ Len(p) = depth /\ ~(Callees(Last(p)) \subseteq ToSet(p))}

Before(p, q) ==
    \E k \in DOMAIN q : /\ \A i \in 1 .. k - 1 : i \in DOMAIN p /\ p[i] = q[i]
                        /\ k \notin DOMAIN p \/ p[k] < q[k]

\* The walk with its two stacks yields exactly the wanted chains, each once,
\* in order; a count cap keeps the first ones.
EnumerationExact ==
    LET wanted == Wanted IN
    /\ \A i, j \in DOMAIN paths : i < j => Before(paths[i], paths[j])
    /\ paths # <<>> => ToSet(paths) \subseteq wanted
    /\ phase # "enumerate" =>
        \A p \in wanted \ ToSet(paths) : CapReached /\ \A q \in ToSet(paths) : Before(q, p)

\* Whenever a wanted chain was left out or cut short, the build is marked
\* truncated.
TruncationReported ==
    phase # "enumerate" /\ (Wanted # ToSet(paths) \/ \E p \in ToSet(paths) : Callees(Last(p)) # {})
        => marker # "none"

\* The walk ends on every graph, cyclic or not, and so does the run.
RunEnds == <>(phase = "done")

\* A boundary unit's producer is a function that calls its consumer, and no
\* call into another process on a stored path is without its unit.
BoundariesAreCalls ==
    /\ \A u \in BoundaryUnits : u[2] \in SinkUnits /\ (u[1] = u[2] \/ u[2] \in Callees(u[1]))
    /\ \A p \in ToSet(paths) : \A i \in 2 .. Len(p) : SinkKind[p[i]] \in Kinds => <<p[i - 1], p[i]>> \in BoundaryUnits

\* An entry the planner recognises by its decorator is handed to the agents
\* as "unknown" only where audit.graph_slice is off.
EntriesClassified ==
    \A p \in ToSet(paths) : p[1] \in EntryUnits \ Registered =>
        \A v2 \in BOOLEAN : (ClassifyEntry(p, v2) = "unknown") <=> ~v2

Acyclic ==
    LET callees == [f \in Functions |-> Callees(f)]
    IN  \A p \in Simple : (\A i \in 1 .. Len(p) - 1 : p[i + 1] \in callees[p[i]]) => p[1] \notin callees[Last(p)]

\* When every stored path of a program without recursion is reported as
\* audited and the build was not marked truncated, the coverage lists every
\* function of the program.
CoverageTruthful ==
    phase = "done" /\ marker = "none" /\ (\A p \in ToSet(paths) : PathState(p) = "AUDITED") /\ Acyclic
        => Records \subseteq AuditedFunctions

\* The verdict of finding i is in one stamped payload and in no other.
KeptOnce(i) ==
    \E k \in DOMAIN payload :
        /\ i \in DOMAIN payload[k].verdicts /\ payload[k].verdicts[i] = findings[i].verdict
        /\ \A l \in DOMAIN payload \ {k} : i \notin DOMAIN payload[l].verdicts

\* Reconciliation is all or nothing: every verdict of every finding is in
\* exactly one payload and only the verdict of a group of several may be
\* overruled; or there are no payloads, which needs two findings of one key.
VerdictsKept ==
    phase = "done" =>
        \/ /\ \A i \in DOMAIN findings : KeptOnce(i)
           /\ \A k \in DOMAIN payload : DOMAIN payload[k].verdicts = {k} => payload[k].consolidated = findings[k].verdict
        \/ /\ DOMAIN payload = {}
           /\ \E i, j \in DOMAIN findings : i # j /\ findings[i].suspect = findings[j].suspect

\* config.py: paths_max_count 0 is "no cap; enumerate every reachable path",
\* so without a cap every function a chain reaches is on a stored path.
ReachableIsEnumerated ==
    phase # "enumerate" /\ count = 0 /\ depth >= Cardinality(Functions) =>
        UNION {ToSet(p) : p \in Chains} \subseteq UNION {ToSet(p) : p \in ToSet(paths)}

\* The stored paths are the wanted ones, or the build says that some are not
\* there.
EnumerationSound == PathsTypeOK /\ EnumerationExact /\ TruncationReported

\* Units and entry kinds follow from the stored paths.
UnitsFollowPaths == BoundariesAreCalls /\ EntriesClassified

\* The run's record says what was audited and found.
ReportTruthful == CoverageTruthful /\ VerdictsKept

=============================================================================
