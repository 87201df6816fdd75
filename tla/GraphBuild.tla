------------------------------ MODULE GraphBuild ------------------------------
(***************************************************************************)
(* `xauditor graph build`: ApplicationServices.build_graph (services.py),  *)
(* LangChainGraphBuilder.build with its agents (graph/builder.py), the     *)
(* checkpoints of FileStateStore (graph/cache.py) and the chunk writers of *)
(* canonical_finalize (graph/canonical.py, neo4j_repository.py), together  *)
(* with an audit that reads the published build page by page               *)
(* (audit_source_neo4j.py).                                                *)
(*                                                                         *)
(* Nothing locks a build: several processes may work on one fingerprint,   *)
(* each may die between any two writes, the tree may be edited and Neo4j   *)
(* reset meanwhile.                                                        *)
(***************************************************************************)
EXTENDS Integers, Sequences, FiniteSets

CONSTANTS
    Builders,       \* processes that run `graph build`
    Trees,          \* versions of tree and settings that the fingerprint covers
    Enriched,       \* those with graph.build.enable_llm_enrichment
    Sinks,          \* values of audit.sinks, which it does not cover
    FirstSinks,     \* the one to begin with
    Rank,           \* where the path of each variant sorts
    MaxBuilds,      \* bound on the commands
    MaxFaults       \* bound on crashes, edits, upgrades and resets

\* The graph without the stubs of external sinks, and no tree.
Parsed == "parsed"
NoTree == 0
Variants == Sinks \cup {Parsed}

ASSUME TreesAssumption == Trees \subseteq Nat \ {NoTree} /\ Enriched \subseteq Trees
ASSUME SinksAssumption == Parsed \notin Sinks /\ FirstSinks \in Sinks
ASSUME RankAssumption ==
    /\ Rank \in [Variants -> Nat]
    /\ \A v, w \in Variants : Rank[v] = Rank[w] => v = w
ASSUME BoundsAssumption ==
    {MaxBuilds, MaxFaults} \subseteq Nat

StageNames == {"inventory", "reference_tracer", "graph_synthesizer"}

\* What canonical_finalize writes, in its order, and the kinds a relationship
\* must find (MATCH) to be created at all.  Classes and members go with the
\* functions; what declares a function, decorates, registers or is used by
\* it is linked to it (in the code, a node and then its relationship).
WriteOrder == <<"file", "function", "linked", "calls", "path", "includes">>
Kinds == {WriteOrder[i] : i \in 1..Len(WriteOrder)}
Needs(k) ==
    CASE k = "linked" -> {"file", "function"}
      [] k = "calls" -> {"function"}
      [] k = "includes" -> {"function", "path"}
      [] OTHER -> {}

\* Kinds that have records of their own for the stubs of external sinks.
SinkKinds == {"function", "calls", "path", "includes"}
Records == Kinds \X Trees \X Variants

VARIABLES
    \* the outside
    tree,           \* the tree as it is now
    sinks,          \* audit.sinks as it is now
    \* the cache directory
    manifest,       \* manifest.json of each fingerprint
    dir,            \* the stage directories of each fingerprint
    \* Neo4j
    db,             \* status, records and coverage payload of each build
    \* the processes
    pc, me,
    \* an audit that reads a build
    reader,
    \* history and bounds
    edited,         \* fingerprints whose tree was edited under a builder
    lost,           \* fingerprints reset before their build had returned
    shared,         \* fingerprints that two processes worked at together
    builds, faults

disk == <<manifest, dir>>
outside == <<tree, sinks>>
bounds == <<builds, faults>>
history == <<edited, lost, shared>>
vars == <<outside, disk, db, pc, me, reader, history, bounds>>

\* A manifest: completed_stages, final_build_ready, enrichment_enabled,
\* graph_enrichment_complete; "none" when there is no file, "torn" when a write of it was cut short.
ManifestKinds == {"none", "torn", "written"}
NoManifest == [kind |-> "none", completed |-> {}, ready |-> FALSE,
               enabled |-> FALSE, enriched |-> FALSE]
Seed(f) == [NoManifest EXCEPT !.kind = "written", !.enabled = f \in Enriched]
TornManifest == [NoManifest EXCEPT !.kind = "torn"]

\* A stage directory: the tree its pickles come from, and schema.json.
NoDir == [data |-> "none", of |-> NoTree, schema |-> FALSE]
EmptyBuild == [status |-> "none", recs |-> {}, payload |-> {}]
Idle == [fp |-> NoTree, sinks |-> Parsed, force |-> FALSE, stage |-> "none",
         read |-> NoManifest, files |-> NoTree, calls |-> NoTree,
         parsed |-> NoTree, funcs |-> NoTree, next |-> 1]
NoReader == [state |-> "off", fp |-> NoTree, offset |-> 0, start |-> {},
             seen |-> {}]

Init ==
    /\ tree \in Trees /\ sinks = FirstSinks
    /\ manifest = [f \in Trees |-> NoManifest]
    /\ dir = [f \in Trees |-> [s \in StageNames |-> NoDir]]
    /\ db = [f \in Trees |-> EmptyBuild]
    /\ pc = [b \in Builders |-> "idle"] /\ me = [b \in Builders |-> Idle]
    /\ reader = NoReader /\ edited = {} /\ lost = {} /\ shared = {}
    /\ builds = 0 /\ faults = 0

InUse(f) == \E b \in Builders : me[b].fp = f

Goto(b, l) ==
    /\ pc' = [pc EXCEPT ![b] = l]
    /\ me' = IF l = "idle" THEN [me EXCEPT ![b] = Idle] ELSE me

Fault == faults < MaxFaults /\ faults' = faults + 1

GotoStage(b, l, s) ==
    /\ pc' = [pc EXCEPT ![b] = l]
    /\ me' = [me EXCEPT ![b].stage = s]

-----------------------------------------------------------------------------
(* build_graph up to the stages. *)

\* resolve_repository_scope and compute_build_fingerprint.
Start(b, force) ==
    /\ pc[b] = "idle" /\ builds < MaxBuilds /\ builds' = builds + 1
    /\ pc' = [pc EXCEPT ![b] = "check"]
    /\ me' = [me EXCEPT ![b] = [Idle EXCEPT !.fp = tree, !.sinks = sinks,
                                            !.force = force]]
    /\ shared' = shared \cup {f \in {tree} : InUse(f)}
    /\ UNCHANGED <<outside, disk, db, reader, edited, lost, faults>>

\* FileStateStore.is_build_reusable; _pending_stages keeps nothing else.
IsBuildReusable(f) ==
    /\ manifest[f].kind = "written" /\ manifest[f].ready
    /\ manifest[f].enabled => manifest[f].enriched

\* require_build as _neo4j_has_build uses it.
HasBuild(f) == db[f].status = "ready"

\* The build is there already.
Reuse(b) ==
    LET f == me[b].fp IN
    /\ pc[b] = "check" /\ ~me[b].force
    /\ IsBuildReusable(f) /\ HasBuild(f)
    /\ Goto(b, "return")
    /\ UNCHANGED <<outside, disk, db, reader, history, bounds>>

\* json.loads of a manifest that a crash cut short raises, every time.
Unreadable(b) ==
    /\ pc[b] = "check" /\ ~me[b].force
    /\ manifest[me[b].fp].kind = "torn"
    /\ Goto(b, "idle")
    /\ UNCHANGED <<outside, disk, db, reader, history, bounds>>

\* clear_build: --force, or a cache whose graph is gone from Neo4j.
ClearBuild(b) ==
    LET f == me[b].fp IN
    /\ pc[b] = "check"
    /\ me[b].force \/ (IsBuildReusable(f) /\ ~HasBuild(f))
    /\ manifest' = [manifest EXCEPT ![f] = NoManifest]
    /\ dir' = [dir EXCEPT ![f] = [s \in StageNames |-> NoDir]]
    /\ Goto(b, "ping")
    /\ UNCHANGED <<outside, db, reader, history, bounds>>

\* A crash within its rmtree: any part of the directory may be gone.
CrashInClear(b) ==
    LET f == me[b].fp IN
    /\ pc[b] = "check" /\ Fault
    /\ me[b].force \/ (IsBuildReusable(f) /\ ~HasBuild(f))
    /\ \E gone \in SUBSET StageNames :
         dir' = [dir EXCEPT ![f] =
                   [s \in StageNames |-> IF s \in gone THEN NoDir
                                                       ELSE dir[f][s]]]
    /\ \/ UNCHANGED manifest
       \/ manifest' = [manifest EXCEPT ![f] = NoManifest]
    /\ shared' = shared \cup {f}
    /\ Goto(b, "idle")
    /\ UNCHANGED <<outside, db, reader, edited, lost, builds>>

\* No finished build: go on with what there is.
Resume(b) ==
    LET f == me[b].fp IN
    /\ pc[b] = "check" /\ ~me[b].force
    /\ manifest[f].kind # "torn" /\ ~IsBuildReusable(f)
    /\ Goto(b, "ping")
    /\ UNCHANGED <<outside, disk, db, reader, history, bounds>>

\* ping and bootstrap_schema, then is_final_build_ready.
Ping(b) ==
    LET f == me[b].fp IN
    /\ pc[b] = "ping"
    /\ manifest[f].kind # "torn"
    /\ Goto(b, IF manifest[f].ready THEN "enrich" ELSE "seed")
    /\ UNCHANGED <<outside, disk, db, reader, history, bounds>>

\* save_manifest_placeholder: nothing when there is a manifest.
SavePlaceholder(b) ==
    LET f == me[b].fp IN
    /\ pc[b] = "seed"
    /\ manifest' = IF manifest[f].kind = "none"
                   THEN [manifest EXCEPT ![f] = Seed(f)] ELSE manifest
    /\ GotoStage(b, "stage", "inventory")
    /\ UNCHANGED <<outside, dir, db, reader, history, bounds>>

-----------------------------------------------------------------------------
(* The checkpointed stages. *)

AtStage(b, l) == pc[b] = l /\ me[b].stage \in StageNames

StageAfter(s) ==
    CASE s = "inventory" -> "reference_tracer"
      [] s = "reference_tracer" -> "graph_synthesizer"
      [] OTHER -> "none"

\* On to the next stage, or to the check for a finished build, with memory r.
Advance(b, r) ==
    LET s == StageAfter(r.stage) IN
    /\ pc' = [pc EXCEPT ![b] = IF s = "none" THEN "final" ELSE "stage"]
    /\ me' = [me EXCEPT ![b] = [r EXCEPT !.stage = s]]

\* is_stage_complete, with its check of schema.json.
StageComplete(b) ==
    LET f == me[b].fp  s == me[b].stage IN
    /\ AtStage(b, "stage")
    /\ s \in manifest[f].completed /\ dir[f][s].schema
    /\ Goto(b, "load")
    /\ UNCHANGED <<outside, disk, db, reader, history, bounds>>

\* _discard_stage: the directory, then the stage's entry in the manifest.
Discarded(f, s) ==
    /\ dir' = [dir EXCEPT ![f][s] = NoDir]
    /\ manifest' = [manifest EXCEPT ![f].completed = @ \ {s}]

\* is_stage_complete of a checkpoint of another version, or without one.
StageOutdated(b) ==
    LET f == me[b].fp  s == me[b].stage IN
    /\ AtStage(b, "stage")
    /\ s \in manifest[f].completed /\ ~dir[f][s].schema
    /\ Discarded(f, s)
    /\ Goto(b, "run")
    /\ UNCHANGED <<outside, db, reader, history, bounds>>

StageMissing(b) ==
    LET m == manifest[me[b].fp] IN
    /\ AtStage(b, "stage")
    /\ m.kind # "torn" /\ me[b].stage \notin m.completed
    /\ Goto(b, "run")
    /\ UNCHANGED <<outside, disk, db, reader, history, bounds>>

\* load_*_stage.
Load(b) ==
    LET r == me[b]  of == dir[r.fp][r.stage].of IN
    /\ AtStage(b, "load") /\ dir[r.fp][r.stage].data = "whole"
    /\ Advance(b, CASE r.stage = "inventory" -> [r EXCEPT !.files = of]
                    [] r.stage = "reference_tracer" -> [r EXCEPT !.calls = of]
                    [] OTHER -> [r EXCEPT !.funcs = of])
    /\ UNCHANGED <<outside, disk, db, reader, history, bounds>>

\* load_*_stage of a pickle that is gone or cut short discards and raises.
LoadRaises(b) ==
    LET f == me[b].fp  s == me[b].stage IN
    /\ AtStage(b, "load") /\ dir[f][s].data # "whole"
    /\ manifest[f].kind # "torn"
    /\ Discarded(f, s)
    /\ Goto(b, "idle")
    /\ UNCHANGED <<outside, db, reader, history, bounds>>

\* The tree a stage's result is of.  InventoryAgent lists the files resolved
\* with the fingerprint; ReferenceTracerAgent reads their content now;
\* GraphSynthesizerAgent uses what the tracer parsed, if it ran in this
\* process, and reads it now otherwise.
ResultOf(r) ==
    CASE r.stage = "inventory" -> r.fp
      [] r.stage = "reference_tracer" -> tree
      [] OTHER -> IF r.parsed # NoTree THEN r.parsed ELSE tree

\* Mutant: the checkpoint is marked before its pickles are written.
RunMarksFirst(b) ==
    LET r == me[b]  f == r.fp  s == r.stage IN
    /\ AtStage(b, "run")
    /\ manifest' = [manifest EXCEPT ![f].kind = "written",
                                    ![f].completed = @ \cup {s}]
    /\ dir' = [dir EXCEPT ![f][s] = [data |-> "torn", of |-> NoTree,
                                     schema |-> TRUE]]
    /\ Goto(b, "schema")
    /\ UNCHANGED <<outside, db, reader, history, bounds>>

\* The agent runs and save_*_stage writes its pickles.
Run(b) ==
    LET r == me[b]  t == ResultOf(r) IN
    /\ AtStage(b, "run")
    /\ dir' = [dir EXCEPT ![r.fp][r.stage].data = "whole",
                          ![r.fp][r.stage].of = t]
    /\ pc' = [pc EXCEPT ![b] = "schema"]
    /\ me' = [me EXCEPT ![b] =
                CASE r.stage = "inventory" -> [r EXCEPT !.files = t]
                  [] r.stage = "reference_tracer" ->
                       [r EXCEPT !.calls = t, !.parsed = t]
                  [] OTHER -> [r EXCEPT !.funcs = t]]
    /\ UNCHANGED <<outside, manifest, db, reader, history, bounds>>

\* _write_stage_schema, and _mark_stage_complete reads the manifest.
MarkRead(b) ==
    LET r == me[b] IN
    /\ pc[b] = "schema" /\ manifest[r.fp].kind # "torn"
    /\ dir' = IF r.stage \in StageNames
              THEN [dir EXCEPT ![r.fp][r.stage].schema = TRUE] ELSE dir
    /\ pc' = [pc EXCEPT ![b] = "mark"]
    /\ me' = [me EXCEPT ![b].read = manifest[r.fp]]
    /\ UNCHANGED <<outside, manifest, db, reader, history, bounds>>

\* What _mark_stage_complete writes: of what it read, plus the stage.
Marked(r) ==
    [kind |-> "written",
     completed |-> r.read.completed \cup ({r.stage} \cap StageNames),
     ready |-> r.read.ready \/ r.stage = "canonical_finalize",
     enabled |-> IF r.stage = "canonical_finalize" THEN r.fp \in Enriched
                                                   ELSE r.read.enabled,
     enriched |-> r.read.enriched \/ r.stage = "graph_enrichment"]

MarkWrite(b) ==
    LET r == [me[b] EXCEPT !.read = NoManifest] IN
    /\ pc[b] = "mark"
    /\ manifest' = [manifest EXCEPT ![r.fp] = Marked(me[b])]
    /\ CASE r.stage \in StageNames -> Advance(b, r)
         [] r.stage = "canonical_finalize" ->
              /\ pc' = [pc EXCEPT ![b] = "enrich"]
              /\ me' = [me EXCEPT ![b] = [r EXCEPT !.stage = "none"]]
         [] OTHER ->
              /\ pc' = [pc EXCEPT ![b] = "return"]
              /\ me' = [me EXCEPT ![b] = [r EXCEPT !.stage = "none"]]
    /\ UNCHANGED <<outside, dir, db, reader, history, bounds>>

-----------------------------------------------------------------------------
(* canonical_finalize, enrichment and return. *)

\* is_final_build_ready: another process may have finished meanwhile.
CheckFinal(b) ==
    LET m == manifest[me[b].fp] IN
    /\ pc[b] = "final" /\ m.kind # "torn"
    /\ Goto(b, IF m.ready THEN "enrich" ELSE "begin")
    /\ UNCHANGED <<outside, disk, db, reader, history, bounds>>

\* Mutant: the records of the build before are deleted first.
BeginBuildAnew(b) ==
    /\ pc[b] = "begin"
    /\ db' = [db EXCEPT ![me[b].fp] = [status |-> "building", recs |-> {},
                                       payload |-> {}]]
    /\ Goto(b, "write")
    /\ UNCHANGED <<outside, disk, reader, history, bounds>>

\* begin_build: MERGE of the build node; a ready build is one no longer.
BeginBuild(b) ==
    /\ pc[b] = "begin"
    /\ db' = [db EXCEPT ![me[b].fp].status = "building"]
    /\ Goto(b, "write")
    /\ UNCHANGED <<outside, disk, reader, history, bounds>>

\* The records transform_and_persist makes of the discovered graph.
TreeOf(r, k) == CASE k = "file" -> r.files
                  [] k \in {"calls", "path", "includes"} -> r.calls
                  [] OTHER -> r.funcs
RecordsOf(r, k) ==
    {<<k, TreeOf(r, k), v>> : v \in IF k \in SinkKinds THEN {Parsed, r.sinks}
                                                      ELSE {Parsed}}
Graph(r) == UNION {RecordsOf(r, k) : k \in Kinds}

\* A relationship is only created between nodes that are there.
Linked(rec, recs) ==
    \A k \in Needs(rec[1]) : \E q \in recs : q[1] = k /\ q[3] \in {rec[3], Parsed}

\* Mutant: the calls are written before the functions.
WriteSwapped(b) ==
    LET r == me[b]  i == r.next
        k == CASE WriteOrder[i] = "function" -> "calls"
               [] WriteOrder[i] = "calls" -> "function"
               [] OTHER -> WriteOrder[i]
        new == {rec \in RecordsOf(r, k) : Linked(rec, db[r.fp].recs)} IN
    /\ pc[b] = "write"
    /\ db' = [db EXCEPT ![r.fp].recs = @ \cup new]
    /\ IF i < Len(WriteOrder)
       THEN pc' = pc /\ me' = [me EXCEPT ![b].next = i + 1]
       ELSE Goto(b, "finalize")
    /\ UNCHANGED <<outside, disk, reader, history, bounds>>

\* The write_*_chunk of the next kind: MERGE adds and never removes.
WriteChunk(b) ==
    LET r == me[b]  i == r.next
        new == {rec \in RecordsOf(r, WriteOrder[i]) :
                    Linked(rec, db[r.fp].recs)} IN
    /\ pc[b] = "write"
    /\ db' = [db EXCEPT ![r.fp].recs = @ \cup new]
    /\ IF i < Len(WriteOrder)
       THEN pc' = pc /\ me' = [me EXCEPT ![b].next = i + 1]
       ELSE Goto(b, "finalize")
    /\ UNCHANGED <<outside, disk, reader, history, bounds>>

\* finalize_build, with the coverage payload of _build_coverage; MATCH does
\* nothing when the build node is gone.
Finalize(b) ==
    LET r == me[b] IN
    /\ pc[b] = "finalize"
    /\ db' = IF db[r.fp].status = "none" THEN db
             ELSE [db EXCEPT ![r.fp].status = "ready", ![r.fp].payload = Graph(r)]
    /\ GotoStage(b, "schema", "canonical_finalize")
    /\ UNCHANGED <<outside, disk, reader, history, bounds>>

\* is_stage_complete(graph_enrichment) and _run_graph_enrichment.
Enrich(b) ==
    LET f == me[b].fp  m == manifest[f] IN
    /\ pc[b] = "enrich" /\ m.kind # "torn"
    /\ IF f \in Enriched /\ (m.kind = "none" \/ (m.enabled /\ ~m.enriched))
       THEN GotoStage(b, "schema", "graph_enrichment")
       ELSE GotoStage(b, "return", "none")
    /\ UNCHANGED <<outside, disk, db, reader, history, bounds>>

Return(b) ==
    /\ pc[b] = "return"
    /\ Goto(b, "idle")
    /\ UNCHANGED <<outside, disk, db, reader, history, bounds>>

-----------------------------------------------------------------------------
(* Faults. *)

\* get_manifest of a manifest that another process left cut short.
ReadTorn(b) ==
    /\ pc[b] \in {"ping", "stage", "load", "schema", "final", "enrich"}
    /\ manifest[me[b].fp].kind = "torn"
    /\ pc[b] = "load" => dir[me[b].fp][me[b].stage].data # "whole"
    /\ Goto(b, "idle")
    /\ UNCHANGED <<outside, disk, db, reader, history, bounds>>

\* The process dies or a stage raises.  A file it was writing is cut short:
\* write_text and write_bytes truncate first.
Crash(b) ==
    LET f == me[b].fp IN
    /\ pc[b] # "idle" /\ Fault
    /\ \/ UNCHANGED disk
       \/ /\ pc[b] = "mark" \/ (pc[b] = "seed" /\ manifest[f].kind = "none")
          /\ manifest' = [manifest EXCEPT ![f] = TornManifest]
          /\ UNCHANGED dir
       \/ /\ AtStage(b, "run")
          /\ dir' = [dir EXCEPT ![f][me[b].stage].data = "torn"]
          /\ UNCHANGED manifest
    /\ Goto(b, "idle")
    /\ UNCHANGED <<outside, db, reader, history, builds>>

-----------------------------------------------------------------------------
(* The outside. *)

EditTree(t) ==
    /\ t # tree /\ Fault
    /\ tree' = t
    /\ edited' = edited \cup {f \in Trees : InUse(f)}
    /\ UNCHANGED <<sinks, disk, db, pc, me, reader, lost, shared, builds>>

ChangeSinks(s) ==
    /\ s # sinks /\ Fault
    /\ sinks' = s
    /\ UNCHANGED <<tree, disk, db, pc, me, reader, history, builds>>

\* A release with another STATE_SCHEMA_VERSION.
Upgrade ==
    /\ Fault
    /\ \A b \in Builders : pc[b] = "idle"
    /\ dir' = [f \in Trees |-> [s \in StageNames |->
                 [dir[f][s] EXCEPT !.schema = FALSE]]]
    /\ UNCHANGED <<outside, manifest, db, pc, me, reader, history, builds>>

\* `xauditor graphdb reset`: Neo4j starts empty.  A build is lost when it had
\* not returned: some process was at it, or it died before it was enriched.
ResetDatabase ==
    /\ Fault
    /\ db' = [f \in Trees |-> EmptyBuild]
    /\ lost' = lost \cup {f \in Trees : \/ InUse(f)
                                        \/ manifest[f].ready /\ ~IsBuildReusable(f)}
    /\ reader' = [reader EXCEPT !.start = {}]
    /\ UNCHANGED <<outside, disk, pc, me, edited, shared, builds>>

-----------------------------------------------------------------------------
(* An audit reads a build: iter_path_records. *)

PathsIn(f) == {rec \in db[f].recs : rec[1] = "path"}
Whole(rec, f) == <<"includes", rec[2], rec[3]>> \in db[f].recs

\* ORDER BY path_fingerprint.
Before(p, q) ==
    \/ Rank[p[3]] < Rank[q[3]]
    \/ Rank[p[3]] = Rank[q[3]] /\ p[2] < q[2]

\* resolve_build, and the first path is asked for.
AuditBegins(f) ==
    /\ reader.state = "off" /\ HasBuild(f)
    /\ reader' = [state |-> "reading", fp |-> f, offset |-> 0,
                  start |-> {p \in PathsIn(f) : Whole(p, f)}, seen |-> {}]
    /\ UNCHANGED <<outside, disk, db, pc, me, history, bounds>>

\* A page of one path, at SKIP offset.
AuditPage ==
    /\ reader.state = "reading"
    /\ \E p \in PathsIn(reader.fp) :
         /\ Cardinality({q \in PathsIn(reader.fp) : Before(q, p)})
                = reader.offset
         /\ reader' = [reader EXCEPT !.offset = @ + 1, !.seen = @ \cup {p}]
    /\ UNCHANGED <<outside, disk, db, pc, me, history, bounds>>

\* An empty page.
AuditLastPage ==
    /\ reader.state = "reading"
    /\ Cardinality(PathsIn(reader.fp)) <= reader.offset
    /\ reader' = [reader EXCEPT !.state = "ended"]
    /\ UNCHANGED <<outside, disk, db, pc, me, history, bounds>>

AuditEnds ==
    /\ reader.state = "ended"
    /\ reader' = NoReader
    /\ UNCHANGED <<outside, disk, db, pc, me, history, bounds>>

-----------------------------------------------------------------------------
BuilderStep(b) ==
    \/ Reuse(b) \/ Unreadable(b) \/ ClearBuild(b) \/ Resume(b) \/ Ping(b)
    \/ SavePlaceholder(b) \/ StageComplete(b) \/ StageOutdated(b)
    \/ StageMissing(b) \/ Load(b) \/ LoadRaises(b) \/ Run(b) \/ MarkRead(b)
    \/ MarkWrite(b) \/ CheckFinal(b) \/ BeginBuild(b) \/ WriteChunk(b)
    \/ Finalize(b) \/ Enrich(b) \/ Return(b) \/ ReadTorn(b)

Next ==
    \/ \E b \in Builders :
         \/ BuilderStep(b) \/ Crash(b) \/ CrashInClear(b)
         \/ \E force \in BOOLEAN : Start(b, force)
    \/ \E t \in Trees : EditTree(t) \/ AuditBegins(t)
    \/ \E s \in Sinks : ChangeSinks(s)
    \/ Upgrade \/ ResetDatabase
    \/ AuditPage \/ AuditLastPage \/ AuditEnds

Spec == Init /\ [][Next]_vars

-----------------------------------------------------------------------------
(* Properties. *)

Manifests == [kind : ManifestKinds, completed : SUBSET StageNames,
              ready : BOOLEAN, enabled : BOOLEAN, enriched : BOOLEAN]
Trees0 == Trees \cup {NoTree}

TypeOK ==
    /\ tree \in Trees /\ sinks \in Sinks
    /\ manifest \in [Trees -> Manifests]
    /\ dir \in [Trees -> [StageNames -> [data : {"none", "torn", "whole"},
                                         of : Trees0, schema : BOOLEAN]]]
    /\ \A f \in Trees :
         /\ db[f].status \in {"none", "building", "ready"}
         /\ db[f].recs \subseteq Records /\ db[f].payload \subseteq Records
    /\ pc \in [Builders -> {"idle", "check", "ping", "seed", "stage", "load",
                            "run", "schema", "mark", "final", "begin",
                            "write", "finalize", "enrich", "return"}]
    /\ \A b \in Builders : pc[b] = "idle" <=> me[b].fp = NoTree
    /\ reader.seen \subseteq Records
    /\ builds \in 0..MaxBuilds /\ faults \in 0..MaxFaults

\* A checkpoint that is_stage_complete accepts is a whole one: load_*_stage
\* never meets a pickle that a crash cut short.  Two processes at one
\* fingerprint, or a clear_build that is cut short itself, can undo that.
CheckpointIsWhole ==
    \A f \in Trees \ shared : \A s \in manifest[f].completed :
        dir[f][s].schema => dir[f][s].data = "whole"

\* A build that Neo4j shows as ready holds every record its coverage payload
\* names, each relationship with both ends, and is the graph of the tree the
\* fingerprint is of, unless that tree was edited while it was read.
ReadyIsComplete ==
    \A f \in Trees : HasBuild(f) /\ f \notin lost =>
        /\ db[f].payload # {} /\ db[f].payload \subseteq db[f].recs
        /\ f \notin edited => \A rec \in db[f].payload : rec[2] = f

\* build_graph returns a fingerprint that an audit can use at once, unless
\* another process is publishing it again or died at that.
ReturnedIsReady ==
    \A b \in Builders : pc[b] = "return" =>
        LET f == me[b].fp IN
        \/ HasBuild(f) \/ f \in lost \/ (f \in shared /\ faults > 0)
        \/ \E c \in Builders \ {b} : me[c].fp = f /\ pc[c] \in {"write", "finalize"}

\* An audit gets every path its build had when it began, although a rebuild of
\* the same fingerprint inserts others between two pages.
AuditMissesNothing ==
    reader.state = "ended" => reader.start \subseteq reader.seen

\* The cache on disk can be trusted, in every state a build reaches.
CacheSound == TypeOK /\ CheckpointIsWhole

\* build_graph returns a build that is there and is complete.
ReturnedIsComplete == ReadyIsComplete /\ ReturnedIsReady

=============================================================================
