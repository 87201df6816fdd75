--------------------------- MODULE GraphBuildProofs ---------------------------
(***************************************************************************)
(* Proofs about GraphBuild, for any number of processes, trees, sinks,     *)
(* builds and faults.                                                      *)
(***************************************************************************)
EXTENDS GraphBuild, FiniteSetTheorems, TLAPS

USE DEF outside, disk, history, bounds

(***************************************************************************)
(* Typing, with what each process has read of the tree where it is.        *)
(***************************************************************************)
Finals == {"canonical_finalize", "graph_enrichment"}
Stages == StageNames \cup Finals \cup {"none"}
Places == {"idle", "check", "ping", "seed", "stage", "load", "run", "schema",
           "mark", "final", "begin", "write", "finalize", "enrich", "return"}
Memories ==
    [fp : Trees0, sinks : Variants, force : BOOLEAN, stage : Stages,
     read : Manifests, files : Trees0, calls : Trees0, parsed : Trees0,
     funcs : Trees0, next : 1..6]
Dirs == [data : {"none", "torn", "whole"}, of : Trees0, schema : BOOLEAN]
Builds == [status : {"none", "building", "ready"}, recs : SUBSET Records,
           payload : SUBSET Records]

Shapes ==
    /\ tree \in Trees /\ sinks \in Sinks
    /\ manifest \in [Trees -> Manifests]
    /\ dir \in [Trees -> [StageNames -> Dirs]]
    /\ db \in [Trees -> Builds]
    /\ pc \in [Builders -> Places]
    /\ me \in [Builders -> Memories]
    /\ builds \in 0..MaxBuilds /\ faults \in 0..MaxFaults

\* The updates of a process's memory.
LEMMA MemoryUpdates ==
    ASSUME NEW r \in Memories
    PROVE  /\ \A s \in Stages : [r EXCEPT !.stage = s] \in Memories
           /\ \A t \in Trees0 :
                /\ [r EXCEPT !.files = t] \in Memories
                /\ [r EXCEPT !.calls = t] \in Memories
                /\ [r EXCEPT !.calls = t, !.parsed = t] \in Memories
                /\ [r EXCEPT !.funcs = t] \in Memories
           /\ \A m \in Manifests : [r EXCEPT !.read = m] \in Memories
           /\ \A i \in 1..6 : [r EXCEPT !.next = i] \in Memories
BY DEF Memories

LEMMA Constants ==
    /\ NoManifest \in Manifests /\ TornManifest \in Manifests
    /\ \A f \in Trees : Seed(f) \in Manifests
    /\ NoDir \in Dirs /\ EmptyBuild \in Builds
    /\ Idle \in Memories
    /\ Len(WriteOrder) = 6
<1>1. NoManifest \in Manifests
    BY DEF NoManifest, Manifests, ManifestKinds
<1>2. TornManifest \in Manifests
    BY DEF TornManifest, NoManifest, Manifests, ManifestKinds
<1>3. ASSUME NEW f \in Trees PROVE Seed(f) \in Manifests
  <2>1. (f \in Enriched) \in BOOLEAN
      OBVIOUS
  <2> QED BY <2>1 DEF Seed, NoManifest, Manifests, ManifestKinds
<1>4. NoDir \in Dirs /\ EmptyBuild \in Builds
    BY DEF NoDir, Dirs, Trees0, EmptyBuild, Builds
<1>5. Idle \in Memories
    BY <1>1 DEF Idle, Memories, Stages, Trees0, Variants
<1>6. Len(WriteOrder) = 6
    BY DEF WriteOrder
<1> QED BY <1>1, <1>2, <1>3, <1>4, <1>5, <1>6

\* The stages before s, those whose result process b has where it is, and the
\* tree that result is of.
Behind(s) ==
    CASE s = "inventory" -> {}
      [] s = "reference_tracer" -> {"inventory"}
      [] OTHER -> {"inventory", "reference_tracer"}
Marking(b) == pc[b] \in {"schema", "mark"}
Have(b) ==
    IF pc[b] \in {"stage", "load", "run"} THEN Behind(me[b].stage)
    ELSE IF Marking(b) /\ me[b].stage \in StageNames
    THEN Behind(me[b].stage) \cup {me[b].stage}
    ELSE IF pc[b] \in {"final", "begin", "write", "finalize"} THEN StageNames
    ELSE {}
Got(r, s) == CASE s = "inventory" -> r.files
               [] s = "reference_tracer" -> r.calls
               [] OTHER -> r.funcs

PlacedAt(b) ==
    /\ pc[b] = "idle" <=> me[b].fp = NoTree
    /\ pc[b] \in {"stage", "load", "run"} => me[b].stage \in StageNames
    /\ Marking(b) => me[b].stage \in StageNames \cup Finals
    /\ \A s \in Have(b) : Got(me[b], s) \in Trees
Placed == \A b \in Builders : PlacedAt(b)
WholeIsOfTree ==
    \A f \in Trees, s \in StageNames :
        dir[f][s].data = "whole" => dir[f][s].of \in Trees

Typed == Shapes /\ Placed /\ WholeIsOfTree

\* What the steps of a process do to the process.
LEMMA Moves ==
    ASSUME Shapes, NEW b \in Builders, NEW l \in Places
    PROVE  /\ Goto(b, l) =>
                /\ pc' \in [Builders -> Places] /\ me' \in [Builders -> Memories]
                /\ pc'[b] = l /\ me'[b] = IF l = "idle" THEN Idle ELSE me[b]
                /\ \A c \in Builders \ {b} : pc'[c] = pc[c] /\ me'[c] = me[c]
           /\ \A s \in Stages : GotoStage(b, l, s) =>
                /\ pc' \in [Builders -> Places] /\ me' \in [Builders -> Memories]
                /\ pc'[b] = l /\ me'[b] = [me[b] EXCEPT !.stage = s]
                /\ \A c \in Builders \ {b} : pc'[c] = pc[c] /\ me'[c] = me[c]
           /\ \A r \in Memories : Advance(b, r) =>
                /\ pc' \in [Builders -> Places] /\ me' \in [Builders -> Memories]
                /\ pc'[b] = IF StageAfter(r.stage) = "none" THEN "final" ELSE "stage"
                /\ me'[b] = [r EXCEPT !.stage = StageAfter(r.stage)]
                /\ \A c \in Builders \ {b} : pc'[c] = pc[c] /\ me'[c] = me[c]
<1>1. pc \in [Builders -> Places] /\ me \in [Builders -> Memories] /\ me[b] \in Memories
    BY DEF Shapes
<1>2. ASSUME Goto(b, l) 
      PROVE  /\ pc' \in [Builders -> Places] /\ me' \in [Builders -> Memories]
             /\ pc'[b] = l /\ me'[b] = IF l = "idle" THEN Idle ELSE me[b]
             /\ \A c \in Builders \ {b} : pc'[c] = pc[c] /\ me'[c] = me[c]
    BY <1>1, <1>2, Constants DEF Goto
<1>3. ASSUME NEW s \in Stages, GotoStage(b, l, s)
      PROVE  /\ pc' \in [Builders -> Places] /\ me' \in [Builders -> Memories]
             /\ pc'[b] = l /\ me'[b] = [me[b] EXCEPT !.stage = s]
             /\ \A c \in Builders \ {b} : pc'[c] = pc[c] /\ me'[c] = me[c]
  <2>1. [me[b] EXCEPT !.stage = s] \in Memories
      BY <1>1, MemoryUpdates
  <2>2. me' = [me EXCEPT ![b] = [me[b] EXCEPT !.stage = s]]
      BY <1>1, <1>3 DEF GotoStage
  <2>3. pc' = [pc EXCEPT ![b] = l]
      BY <1>3 DEF GotoStage
  <2> QED BY <1>1, <2>1, <2>2, <2>3
<1>4. ASSUME NEW r \in Memories, Advance(b, r)
      PROVE  /\ pc' \in [Builders -> Places] /\ me' \in [Builders -> Memories]
             /\ pc'[b] = IF StageAfter(r.stage) = "none" THEN "final" ELSE "stage"
             /\ me'[b] = [r EXCEPT !.stage = StageAfter(r.stage)]
             /\ \A c \in Builders \ {b} : pc'[c] = pc[c] /\ me'[c] = me[c]
  <2>1. StageAfter(r.stage) \in Stages
      BY DEF StageAfter, Stages, StageNames
  <2>2. [r EXCEPT !.stage = StageAfter(r.stage)] \in Memories
      BY <1>4, <2>1, MemoryUpdates
  <2>3. (IF StageAfter(r.stage) = "none" THEN "final" ELSE "stage") \in Places
      BY DEF Places
  <2>4. /\ pc' = [pc EXCEPT ![b] = IF StageAfter(r.stage) = "none" THEN "final" ELSE "stage"]
        /\ me' = [me EXCEPT ![b] = [r EXCEPT !.stage = StageAfter(r.stage)]]
      BY <1>4 DEF Advance
  <2> QED BY <1>1, <2>2, <2>3, <2>4
<1> QED BY <1>2, <1>3, <1>4

(***************************************************************************)
(* What each step does, in terms of the process that takes it and of the   *)
(* fingerprint it works at.                                                *)
(***************************************************************************)
Others(b) == \A c \in Builders \ {b} : pc'[c] = pc[c] /\ me'[c] = me[c]
Move(b, from, to) == pc[b] = from /\ pc'[b] = to
Carries(b) ==
    /\ me'[b].fp = me[b].fp /\ me'[b].sinks = me[b].sinks
    /\ me'[b].files = me[b].files /\ me'[b].calls = me[b].calls
    /\ me'[b].parsed = me[b].parsed /\ me'[b].funcs = me[b].funcs
    /\ me'[b].next = me[b].next /\ me'[b].read = me[b].read
Stays(b) == Carries(b) /\ me'[b].stage = me[b].stage
Leaves(b) == pc[b] # "idle" /\ pc'[b] = "idle" /\ me'[b] = Idle

Moved == pc' \in [Builders -> Places] /\ me' \in [Builders -> Memories]

\* Steps that end a command and write nothing.
Ends(b) == Unreadable(b) \/ Return(b) \/ ReadTorn(b)
LEMMA EndsEffect ==
    ASSUME Typed, NEW b \in Builders, Ends(b)
    PROVE  /\ Moved /\ Others(b) /\ Leaves(b) /\ pc[b] \notin {"write", "finalize"}
           /\ UNCHANGED <<outside, disk, db, reader, history, bounds>>
<1>0. Shapes /\ me[b] \in Memories /\ pc[b] \in Places /\ "idle" \in Places
    BY DEF Typed, Shapes, Places
<1>1. Goto(b, "idle") /\ pc[b] \notin {"idle", "write", "finalize"}
      /\ UNCHANGED <<outside, disk, db, reader, history, bounds>>
    BY DEF Ends, Unreadable, Return, ReadTorn
<1> QED BY <1>0, <1>1, Moves DEF Moved, Others, Leaves

\* Steps that only look.
Looks(b) ==
    \/ Reuse(b) \/ Resume(b) \/ Ping(b) \/ StageComplete(b) \/ StageMissing(b)
    \/ CheckFinal(b) \/ Enrich(b)
LEMMA LooksEffect ==
    ASSUME Typed, NEW b \in Builders, Looks(b)
    PROVE  LET f == me[b].fp IN
           /\ Moved /\ Others(b) /\ Carries(b)
           /\ UNCHANGED <<outside, disk, db, reader, history, bounds>>
           /\ \/ Move(b, "check", "return") /\ Stays(b) /\ HasBuild(f)
              \/ Move(b, "check", "ping") /\ Stays(b) /\ ~IsBuildReusable(f)
              \/ Move(b, "ping", "enrich") /\ Stays(b) /\ manifest[f].ready
              \/ Move(b, "ping", "seed") /\ Stays(b)
              \/ Move(b, "stage", "load") /\ Stays(b)
              \/ Move(b, "stage", "run") /\ Stays(b)
                   /\ me[b].stage \notin manifest[f].completed
              \/ Move(b, "final", "enrich") /\ Stays(b) /\ manifest[f].ready
              \/ Move(b, "final", "begin") /\ Stays(b) /\ ~manifest[f].ready
              \/ Move(b, "enrich", "schema") /\ me'[b].stage = "graph_enrichment"
              \/ Move(b, "enrich", "return")
<1>0. Shapes /\ me[b] \in Memories /\ pc[b] \in Places
    BY DEF Typed, Shapes
<1> DEFINE f == me[b].fp
<1>1. CASE Reuse(b)
  <2>1. Goto(b, "return") /\ "return" \in Places
      BY <1>1 DEF Reuse, Places
  <2> QED BY <1>0, <1>1, <2>1, Moves
          DEF Reuse, Moved, Others, Carries, Stays, Move
<1>2. CASE Resume(b)
  <2>1. Goto(b, "ping") /\ "ping" \in Places
      BY <1>2 DEF Resume, Places
  <2> QED BY <1>0, <1>2, <2>1, Moves
          DEF Resume, Moved, Others, Carries, Stays, Move
<1>3. CASE Ping(b)
  <2>1. Goto(b, IF manifest[f].ready THEN "enrich" ELSE "seed")
        /\ {"enrich", "seed"} \subseteq Places
      BY <1>3 DEF Ping, Places
  <2> QED BY <1>0, <1>3, <2>1, Moves
          DEF Ping, Moved, Others, Carries, Stays, Move
<1>4. CASE StageComplete(b)
  <2>1. Goto(b, "load") /\ "load" \in Places
      BY <1>4 DEF StageComplete, Places
  <2> QED BY <1>0, <1>4, <2>1, Moves
          DEF StageComplete, AtStage, Moved, Others, Carries, Stays, Move
<1>5. CASE StageMissing(b)
  <2>1. Goto(b, "run") /\ "run" \in Places
      BY <1>5 DEF StageMissing, Places
  <2> QED BY <1>0, <1>5, <2>1, Moves
          DEF StageMissing, AtStage, Moved, Others, Carries, Stays, Move
<1>6. CASE CheckFinal(b)
  <2>1. Goto(b, IF manifest[f].ready THEN "enrich" ELSE "begin")
        /\ {"enrich", "begin"} \subseteq Places
      BY <1>6 DEF CheckFinal, Places
  <2> QED BY <1>0, <1>6, <2>1, Moves
          DEF CheckFinal, Moved, Others, Carries, Stays, Move
<1>7. CASE Enrich(b)
  <2>1. \/ GotoStage(b, "schema", "graph_enrichment")
        \/ GotoStage(b, "return", "none")
      BY <1>7 DEF Enrich
  <2>2. {"schema", "return"} \subseteq Places /\ {"graph_enrichment", "none"} \subseteq Stages
      BY DEF Places, Stages, Finals
  <2>3. pc[b] = "enrich" /\ UNCHANGED <<outside, disk, db, reader, history, bounds>>
      BY <1>7 DEF Enrich
  <2>4. /\ Moved /\ Others(b)
        /\ \/ pc'[b] = "schema" /\ me'[b] = [me[b] EXCEPT !.stage = "graph_enrichment"]
           \/ pc'[b] = "return" /\ me'[b] = [me[b] EXCEPT !.stage = "none"]
      BY <1>0, <2>1, <2>2, Moves DEF Moved, Others
  <2>5. Carries(b)
      BY <1>0, <2>4 DEF Carries, Memories
  <2>6. \/ pc'[b] = "schema" /\ me'[b].stage = "graph_enrichment"
        \/ pc'[b] = "return"
      BY <1>0, <2>4 DEF Memories
  <2> QED BY <2>3, <2>4, <2>5, <2>6 DEF Move
<1> QED BY <1>1, <1>2, <1>3, <1>4, <1>5, <1>6, <1>7 DEF Looks

\* A stage's result comes from its pickles.
LEMMA LoadEffect ==
    ASSUME Typed, NEW b \in Builders, Load(b)
    PROVE  LET f == me[b].fp  s == me[b].stage IN
           /\ Moved /\ Others(b)
           /\ UNCHANGED <<outside, disk, db, reader, history, bounds>>
           /\ pc[b] = "load" /\ s \in StageNames /\ f \in Trees
           /\ dir[f][s].data = "whole"
           /\ me'[b].fp = f /\ me'[b].sinks = me[b].sinks /\ me'[b].next = me[b].next
           /\ me'[b].parsed = me[b].parsed /\ me'[b].stage = StageAfter(s)
           /\ pc'[b] = IF StageAfter(s) = "none" THEN "final" ELSE "stage"
           /\ \A q \in StageNames :
                Got(me'[b], q) = IF q = s THEN dir[f][s].of ELSE Got(me[b], q)
<1> DEFINE f == me[b].fp
           s == me[b].stage
           of == dir[f][s].of
           r == CASE s = "inventory" -> [me[b] EXCEPT !.files = of]
                  [] s = "reference_tracer" -> [me[b] EXCEPT !.calls = of]
                  [] OTHER -> [me[b] EXCEPT !.funcs = of]
<1>1. Shapes /\ me[b] \in Memories /\ "final" \in Places /\ f \in Trees0
    BY DEF Typed, Shapes, Places, Memories
<1>2. /\ pc[b] = "load" /\ s \in StageNames /\ dir[f][s].data = "whole"
      /\ Advance(b, r)
      /\ UNCHANGED <<outside, disk, db, reader, history, bounds>>
    BY DEF Load, AtStage
<1>3. f \in Trees
    BY <1>1, <1>2 DEF Typed, Placed, PlacedAt, Trees0
<1>4. of \in Trees0
    BY <1>1, <1>2, <1>3 DEF Shapes, Dirs
<1>5. r \in Memories
    BY <1>1, <1>4, MemoryUpdates
<1>6. /\ Moved /\ Others(b)
      /\ pc'[b] = IF StageAfter(r.stage) = "none" THEN "final" ELSE "stage"
      /\ me'[b] = [r EXCEPT !.stage = StageAfter(r.stage)]
    BY <1>1, <1>2, <1>5, Moves DEF Moved, Others
<1>7. /\ r.fp = f /\ r.sinks = me[b].sinks /\ r.next = me[b].next
      /\ r.parsed = me[b].parsed /\ r.stage = s
      /\ \A q \in StageNames : Got(r, q) = IF q = s THEN of ELSE Got(me[b], q)
    BY <1>1, <1>2 DEF Memories, Got, StageNames
<1>8. LET w == [r EXCEPT !.stage = StageAfter(r.stage)] IN
      /\ w.fp = r.fp /\ w.sinks = r.sinks /\ w.next = r.next
      /\ w.parsed = r.parsed /\ w.stage = StageAfter(r.stage)
      /\ \A q \in StageNames : Got(w, q) = Got(r, q)
  <2> HIDE DEF r
  <2> QED BY <1>5 DEF Memories, Got
<1> HIDE DEF r
<1> QED BY <1>2, <1>3, <1>6, <1>7, <1>8

OnlyManifest(f) ==
    /\ manifest' \in [Trees -> Manifests]
    /\ \A g \in Trees \ {f} : manifest'[g] = manifest[g]
OnlyDir(f) ==
    /\ dir' \in [Trees -> [StageNames -> Dirs]]
    /\ \A g \in Trees \ {f} : dir'[g] = dir[g]
OnlyBuild(f) ==
    /\ db' \in [Trees -> Builds]
    /\ \A g \in Trees \ {f} : db'[g] = db[g]

LEMMA AtWork ==
    ASSUME Typed, NEW b \in Builders, pc[b] # "idle"
    PROVE  me[b] \in Memories /\ me[b].fp \in Trees
BY DEF Typed, Shapes, Placed, PlacedAt, Memories, Trees0

LEMMA ClearEffect ==
    ASSUME Typed, NEW b \in Builders, ClearBuild(b)
    PROVE  LET f == me[b].fp IN
           /\ Moved /\ Others(b) /\ Stays(b) /\ Move(b, "check", "ping") /\ f \in Trees
           /\ OnlyManifest(f) /\ manifest'[f] = NoManifest
           /\ OnlyDir(f) /\ \A s \in StageNames : dir'[f][s] = NoDir
           /\ UNCHANGED <<outside, db, reader, history, bounds>>
<1>1. Goto(b, "ping") /\ "ping" \in Places /\ pc[b] = "check" /\ Shapes
    BY DEF ClearBuild, Places, Typed
<1>2. me[b] \in Memories /\ me[b].fp \in Trees
    BY <1>1, AtWork
<1>3. Moved /\ Others(b) /\ Stays(b) /\ Move(b, "check", "ping")
    BY <1>1, <1>2, Moves DEF Moved, Others, Stays, Carries, Move
<1>4. OnlyManifest(me[b].fp) /\ manifest'[me[b].fp] = NoManifest
    BY <1>1, <1>2, Constants DEF ClearBuild, OnlyManifest, Shapes
<1>5. OnlyDir(me[b].fp) /\ \A s \in StageNames : dir'[me[b].fp][s] = NoDir
    BY <1>1, <1>2, Constants DEF ClearBuild, OnlyDir, Shapes
<1> QED BY <1>2, <1>3, <1>4, <1>5 DEF ClearBuild

LEMMA CrashInClearEffect ==
    ASSUME Typed, NEW b \in Builders, CrashInClear(b)
    PROVE  LET f == me[b].fp IN
           /\ Moved /\ Others(b) /\ Leaves(b) /\ f \in Trees
           /\ OnlyManifest(f) /\ manifest'[f] \in {manifest[f], NoManifest}
           /\ OnlyDir(f) /\ \A s \in StageNames : dir'[f][s] \in {dir[f][s], NoDir}
           /\ shared' = shared \cup {f} /\ faults' = faults + 1 /\ faults < MaxFaults
           /\ UNCHANGED <<outside, db, reader, edited, lost, builds>>
<1>1. Goto(b, "idle") /\ "idle" \in Places /\ pc[b] = "check" /\ Shapes
    BY DEF CrashInClear, Places, Typed
<1>2. me[b] \in Memories /\ me[b].fp \in Trees
    BY <1>1, AtWork
<1>3. Moved /\ Others(b) /\ Leaves(b)
    BY <1>1, <1>2, Moves DEF Moved, Others, Leaves
<1>4. OnlyManifest(me[b].fp) /\ manifest'[me[b].fp] \in {manifest[me[b].fp], NoManifest}
    BY <1>1, <1>2, Constants DEF CrashInClear, OnlyManifest, Shapes
<1>5. OnlyDir(me[b].fp)
      /\ \A s \in StageNames : dir'[me[b].fp][s] \in {dir[me[b].fp][s], NoDir}
    BY <1>1, <1>2, Constants DEF CrashInClear, OnlyDir, Shapes
<1> QED BY <1>2, <1>3, <1>4, <1>5 DEF CrashInClear, Fault

LEMMA SeedEffect ==
    ASSUME Typed, NEW b \in Builders, SavePlaceholder(b)
    PROVE  LET f == me[b].fp IN
           /\ Moved /\ Others(b) /\ Carries(b) /\ Move(b, "seed", "stage") /\ f \in Trees
           /\ me'[b].stage = "inventory"
           /\ OnlyManifest(f)
           /\ \/ manifest'[f] = manifest[f]
              \/ manifest'[f].completed = {} /\ ~manifest'[f].ready
           /\ UNCHANGED <<outside, dir, db, reader, history, bounds>>
<1>1. GotoStage(b, "stage", "inventory") /\ "stage" \in Places /\ "inventory" \in Stages
      /\ pc[b] = "seed" /\ Shapes
    BY DEF SavePlaceholder, Places, Stages, StageNames, Typed
<1>2. me[b] \in Memories /\ me[b].fp \in Trees
    BY <1>1, AtWork
<1>3. Moved /\ Others(b) /\ pc'[b] = "stage" /\ me'[b] = [me[b] EXCEPT !.stage = "inventory"]
    BY <1>1, <1>2, Moves DEF Moved, Others
<1>4. Carries(b) /\ me'[b].stage = "inventory"
    BY <1>2, <1>3 DEF Carries, Memories
<1>5. Seed(me[b].fp) \in Manifests
      /\ Seed(me[b].fp).completed = {} /\ ~Seed(me[b].fp).ready
    BY <1>2, Constants DEF Seed, NoManifest
<1>6. /\ OnlyManifest(me[b].fp)
      /\ \/ manifest'[me[b].fp] = manifest[me[b].fp]
         \/ manifest'[me[b].fp] = Seed(me[b].fp)
    BY <1>1, <1>2, <1>5 DEF SavePlaceholder, OnlyManifest, Shapes
<1> QED BY <1>1, <1>2, <1>3, <1>4, <1>5, <1>6 DEF SavePlaceholder, Move

\* _discard_stage, then the stage is run again or the command fails.
LEMMA DiscardEffect ==
    ASSUME Typed, NEW b \in Builders, StageOutdated(b) \/ LoadRaises(b)
    PROVE  LET f == me[b].fp  s == me[b].stage IN
           /\ Moved /\ Others(b) /\ f \in Trees /\ s \in StageNames
           /\ Leaves(b) \/ (Stays(b) /\ Move(b, "stage", "run"))
           /\ pc[b] \in {"stage", "load"}
           /\ OnlyManifest(f) /\ manifest'[f].completed = manifest[f].completed \ {s}
           /\ manifest'[f].ready = manifest[f].ready
           /\ manifest'[f].kind = manifest[f].kind
           /\ manifest'[f].enabled = manifest[f].enabled
           /\ manifest'[f].enriched = manifest[f].enriched
           /\ OnlyDir(f) /\ dir'[f][s] = NoDir
           /\ \A q \in StageNames \ {s} : dir'[f][q] = dir[f][q]
           /\ UNCHANGED <<outside, db, reader, history, bounds>>
<1> DEFINE f == me[b].fp
           s == me[b].stage
<1>1. /\ s \in StageNames /\ Discarded(f, s)
      /\ \/ pc[b] = "stage" /\ Goto(b, "run")
         \/ pc[b] = "load" /\ Goto(b, "idle")
      /\ UNCHANGED <<outside, db, reader, history, bounds>>
    BY DEF StageOutdated, LoadRaises, AtStage
<1>2. me[b] \in Memories /\ f \in Trees /\ Shapes
    BY <1>1, AtWork DEF Typed
<1>3. "run" \in Places /\ "idle" \in Places
    BY DEF Places
<1>4. Moved /\ Others(b) /\ (Leaves(b) \/ (Stays(b) /\ Move(b, "stage", "run")))
    BY <1>1, <1>2, <1>3, Moves DEF Moved, Others, Leaves, Stays, Carries, Move
<1>5. /\ manifest[f] \in Manifests
      /\ [manifest[f] EXCEPT !.completed = @ \ {s}] \in Manifests
      /\ manifest' = [manifest EXCEPT ![f] = [manifest[f] EXCEPT !.completed = @ \ {s}]]
    <2>1. manifest[f] \in Manifests
        BY <1>2 DEF Shapes
    <2>2. [manifest[f] EXCEPT !.completed = @ \ {s}] \in Manifests
        BY <2>1 DEF Manifests
    <2>3. manifest' = [manifest EXCEPT ![f] = [manifest[f] EXCEPT !.completed = @ \ {s}]]
        BY <1>1 DEF Discarded
    <2> QED BY <2>1, <2>2, <2>3
<1>6. OnlyManifest(f) /\ manifest'[f] = [manifest[f] EXCEPT !.completed = @ \ {s}]
    BY <1>2, <1>5 DEF OnlyManifest, Shapes
<1>7. /\ manifest'[f].completed = manifest[f].completed \ {s}
      /\ manifest'[f].ready = manifest[f].ready
      /\ manifest'[f].kind = manifest[f].kind
      /\ manifest'[f].enabled = manifest[f].enabled
      /\ manifest'[f].enriched = manifest[f].enriched
    BY <1>5, <1>6 DEF Manifests
<1>8. /\ OnlyDir(f) /\ dir'[f][s] = NoDir
      /\ \A q \in StageNames \ {s} : dir'[f][q] = dir[f][q]
    BY <1>1, <1>2, Constants DEF Discarded, OnlyDir, Shapes
<1> QED BY <1>1, <1>2, <1>4, <1>6, <1>7, <1>8

\* The agent runs; its result is of the tree ResultOf says.
LEMMA RunEffect ==
    ASSUME Typed, NEW b \in Builders, Run(b)
    PROVE  LET f == me[b].fp  s == me[b].stage  t == ResultOf(me[b]) IN
           /\ Moved /\ Others(b) /\ f \in Trees /\ s \in StageNames /\ t \in Trees
           /\ Move(b, "run", "schema") /\ me'[b].fp = f /\ me'[b].stage = s
           /\ me'[b].sinks = me[b].sinks /\ me'[b].next = me[b].next
           /\ me'[b].parsed \in {me[b].parsed, t}
           /\ \A q \in StageNames : Got(me'[b], q) = IF q = s THEN t ELSE Got(me[b], q)
           /\ OnlyDir(f) /\ dir'[f][s].data = "whole" /\ dir'[f][s].of = t
           /\ dir'[f][s].schema = dir[f][s].schema
           /\ \A q \in StageNames \ {s} : dir'[f][q] = dir[f][q]
           /\ UNCHANGED <<outside, manifest, db, reader, history, bounds>>
<1> DEFINE f == me[b].fp
           s == me[b].stage
           t == ResultOf(me[b])
           r == CASE s = "inventory" -> [me[b] EXCEPT !.files = t]
                  [] s = "reference_tracer" -> [me[b] EXCEPT !.calls = t, !.parsed = t]
                  [] OTHER -> [me[b] EXCEPT !.funcs = t]
           d == [dir[f][s] EXCEPT !.data = "whole", !.of = t]
<1>1. /\ pc[b] = "run" /\ s \in StageNames
      /\ pc' = [pc EXCEPT ![b] = "schema"] /\ me' = [me EXCEPT ![b] = r]
      /\ UNCHANGED <<outside, manifest, db, reader, history, bounds>>
    BY DEF Run, AtStage
<1>2. me[b] \in Memories /\ f \in Trees /\ Shapes /\ "schema" \in Places
    BY <1>1, AtWork DEF Typed, Places
<1>3. t \in Trees /\ t \in Trees0
    BY <1>2 DEF ResultOf, Memories, Trees0, Shapes
<1>4. r \in Memories
    BY <1>2, <1>3, MemoryUpdates
<1>5. /\ r.fp = f /\ r.stage = s /\ r.sinks = me[b].sinks /\ r.next = me[b].next
      /\ r.parsed \in {me[b].parsed, t}
      /\ \A q \in StageNames : Got(r, q) = IF q = s THEN t ELSE Got(me[b], q)
    BY <1>1, <1>2 DEF Memories, Got, StageNames
<1>6. Moved /\ Others(b) /\ pc'[b] = "schema" /\ me'[b] = r
  <2> HIDE DEF r
  <2> QED BY <1>1, <1>2, <1>4 DEF Moved, Others, Shapes
<1>7. dir[f][s] \in Dirs /\ d \in Dirs
      /\ d.data = "whole" /\ d.of = t /\ d.schema = dir[f][s].schema
  <2>1. dir[f][s] \in Dirs
      BY <1>1, <1>2 DEF Shapes
  <2> HIDE DEF t
  <2> QED BY <2>1, <1>3 DEF Dirs
<1>8. dir' = [dir EXCEPT ![f] = [dir[f] EXCEPT ![s] = d]]
    BY <1>1, <1>2 DEF Run, Shapes, Dirs
<1>9. /\ OnlyDir(f) /\ dir'[f][s] = d
      /\ \A q \in StageNames \ {s} : dir'[f][q] = dir[f][q]
  <2> HIDE DEF d
  <2> QED BY <1>1, <1>2, <1>7, <1>8 DEF OnlyDir, Shapes
<1> HIDE DEF r, d, t
<1> QED BY <1>1, <1>2, <1>3, <1>5, <1>6, <1>7, <1>9 DEF Move, t

LEMMA MarkReadEffect ==
    ASSUME Typed, NEW b \in Builders, MarkRead(b)
    PROVE  LET f == me[b].fp  s == me[b].stage IN
           /\ Moved /\ Others(b) /\ f \in Trees /\ Move(b, "schema", "mark")
           /\ me'[b].fp = f /\ me'[b].stage = s /\ me'[b].sinks = me[b].sinks
           /\ me'[b].next = me[b].next /\ me'[b].parsed = me[b].parsed
           /\ \A q \in StageNames : Got(me'[b], q) = Got(me[b], q)
           /\ me'[b].read = manifest[f]
           /\ OnlyDir(f)
           /\ \A q \in StageNames :
                /\ dir'[f][q].data = dir[f][q].data /\ dir'[f][q].of = dir[f][q].of
                /\ q # s => dir'[f][q].schema = dir[f][q].schema
           /\ UNCHANGED <<outside, manifest, db, reader, history, bounds>>
<1> DEFINE f == me[b].fp
           s == me[b].stage
           r == [me[b] EXCEPT !.read = manifest[f]]
           d == [dir[f][s] EXCEPT !.schema = TRUE]
<1>1. pc[b] = "schema" /\ pc' = [pc EXCEPT ![b] = "mark"]
      /\ UNCHANGED <<outside, manifest, db, reader, history, bounds>>
    BY DEF MarkRead
<1>2. me[b] \in Memories /\ f \in Trees /\ Shapes /\ "mark" \in Places
    BY <1>1, AtWork DEF Typed, Places
<1>3. manifest[f] \in Manifests
    BY <1>2 DEF Shapes
<1>4. r \in Memories
    BY <1>2, <1>3, MemoryUpdates
<1>5. /\ r.fp = f /\ r.stage = s /\ r.sinks = me[b].sinks /\ r.next = me[b].next
      /\ r.parsed = me[b].parsed /\ r.read = manifest[f]
      /\ \A q \in StageNames : Got(r, q) = Got(me[b], q)
    BY <1>2 DEF Memories, Got, StageNames
<1>6. me' = [me EXCEPT ![b] = r]
    BY <1>2 DEF MarkRead, Shapes
<1>7. Moved /\ Others(b) /\ pc'[b] = "mark" /\ me'[b] = r
  <2> HIDE DEF r
  <2> QED BY <1>1, <1>2, <1>4, <1>6 DEF Moved, Others, Shapes
<1>8. CASE s \in StageNames
  <2>1. /\ dir[f][s] \in Dirs /\ d \in Dirs
        /\ d.data = dir[f][s].data /\ d.of = dir[f][s].of
    <3>1. dir[f][s] \in Dirs
        BY <1>2, <1>8 DEF Shapes
    <3>2. PICK e \in Dirs : e = dir[f][s]
        BY <3>1
    <3>3. LET x == [e EXCEPT !.schema = TRUE] IN
          x \in Dirs /\ x.data = e.data /\ x.of = e.of
        BY DEF Dirs
    <3> QED BY <3>2, <3>3
  <2>2. dir' = [dir EXCEPT ![f] = [dir[f] EXCEPT ![s] = d]]
      BY <1>2, <1>8 DEF MarkRead, Shapes, Dirs
  <2>3. /\ OnlyDir(f) /\ dir'[f][s] = d
        /\ \A q \in StageNames \ {s} : dir'[f][q] = dir[f][q]
    <3> HIDE DEF d
    <3> QED BY <1>2, <1>8, <2>1, <2>2 DEF OnlyDir, Shapes
  <2> HIDE DEF d, r
  <2> QED BY <1>1, <1>2, <1>5, <1>7, <2>1, <2>3 DEF Move
<1>9. CASE s \notin StageNames
  <2>1. dir' = dir
      BY <1>9 DEF MarkRead
  <2> HIDE DEF d, r
  <2> QED BY <1>1, <1>2, <1>5, <1>7, <1>9, <2>1 DEF Move, OnlyDir, Shapes
<1> QED BY <1>8, <1>9

LEMMA MarkWriteEffect ==
    ASSUME Typed, NEW b \in Builders, MarkWrite(b)
    PROVE  LET f == me[b].fp  s == me[b].stage IN
           /\ Moved /\ Others(b) /\ f \in Trees /\ pc[b] = "mark"
           /\ me'[b].fp = f /\ me'[b].sinks = me[b].sinks
           /\ me'[b].next = me[b].next /\ me'[b].parsed = me[b].parsed
           /\ \A q \in StageNames : Got(me'[b], q) = Got(me[b], q)
           /\ \/ /\ s \in StageNames /\ me'[b].stage = StageAfter(s)
                 /\ pc'[b] = IF StageAfter(s) = "none" THEN "final" ELSE "stage"
              \/ s = "canonical_finalize" /\ pc'[b] = "enrich"
              \/ s = "graph_enrichment" /\ pc'[b] = "return"
           /\ OnlyManifest(f) /\ manifest'[f].kind = "written"
           /\ manifest'[f].completed = me[b].read.completed \cup ({s} \cap StageNames)
           /\ manifest'[f].ready <=> (me[b].read.ready \/ s = "canonical_finalize")
           /\ UNCHANGED <<outside, dir, db, reader, history, bounds>>
<1> DEFINE f == me[b].fp
           s == me[b].stage
           r == [me[b] EXCEPT !.read = NoManifest]
           w == [r EXCEPT !.stage = "none"]
<1>1. pc[b] = "mark"
      /\ UNCHANGED <<outside, dir, db, reader, history, bounds>>
    BY DEF MarkWrite
<1>2. me[b] \in Memories /\ f \in Trees /\ Shapes /\ {"final", "enrich", "return"} \subseteq Places
    BY <1>1, AtWork DEF Typed, Places
<1>3. s \in StageNames \cup Finals
    BY <1>1 DEF Typed, Placed, PlacedAt, Marking
<1>4. r \in Memories /\ "none" \in Stages
    BY <1>2, Constants, MemoryUpdates DEF Stages
<1>5. /\ r.fp = f /\ r.stage = s /\ r.sinks = me[b].sinks /\ r.next = me[b].next
      /\ r.parsed = me[b].parsed
      /\ \A q \in StageNames : Got(r, q) = Got(me[b], q)
    BY <1>2 DEF Memories, Got, StageNames
<1>6. ASSUME NEW x \in Stages
      PROVE  LET v == [r EXCEPT !.stage = x] IN
             /\ v \in Memories
             /\ v.fp = f /\ v.stage = x /\ v.sinks = me[b].sinks /\ v.next = me[b].next
             /\ v.parsed = me[b].parsed
             /\ \A q \in StageNames : Got(v, q) = Got(me[b], q)
  <2>1. [r EXCEPT !.stage = x] \in Memories
      BY <1>4, MemoryUpdates
  <2> HIDE DEF r
  <2> QED BY <1>4, <1>5, <2>1 DEF Memories, Got
<1>7. /\ Moved /\ Others(b)
      /\ me'[b].fp = f /\ me'[b].sinks = me[b].sinks
      /\ me'[b].next = me[b].next /\ me'[b].parsed = me[b].parsed
      /\ \A q \in StageNames : Got(me'[b], q) = Got(me[b], q)
      /\ \/ /\ s \in StageNames /\ me'[b].stage = StageAfter(s)
            /\ pc'[b] = IF StageAfter(s) = "none" THEN "final" ELSE "stage"
         \/ s = "canonical_finalize" /\ pc'[b] = "enrich"
         \/ s = "graph_enrichment" /\ pc'[b] = "return"
  <2>1. CASE s \in StageNames
    <3>1. Advance(b, r)
      <4>1. r.stage \in StageNames
          BY <1>5, <2>1
      <4> QED BY <4>1 DEF MarkWrite, StageNames
    <3>2. StageAfter(s) \in Stages
        BY DEF StageAfter, Stages, StageNames
    <3>3. /\ Moved /\ Others(b)
          /\ me'[b] = [r EXCEPT !.stage = StageAfter(s)]
          /\ pc'[b] = IF StageAfter(s) = "none" THEN "final" ELSE "stage"
      <4> HIDE DEF r
      <4> QED BY <1>2, <1>4, <1>5, <3>1, Moves DEF Moved, Others
    <3> HIDE DEF r
    <3> QED BY <1>6, <2>1, <3>2, <3>3
  <2>2. CASE s = "canonical_finalize"
    <3>1. pc' = [pc EXCEPT ![b] = "enrich"] /\ me' = [me EXCEPT ![b] = w]
        BY <1>5, <2>2 DEF MarkWrite, StageNames
    <3>2. Moved /\ Others(b) /\ me'[b] = w /\ pc'[b] = "enrich"
      <4>1. w \in Memories
          BY <1>4, <1>6
      <4> HIDE DEF w
      <4> QED BY <1>2, <3>1, <4>1 DEF Moved, Others, Shapes
    <3> HIDE DEF r
    <3> QED BY <1>4, <1>6, <2>2, <3>2
  <2>3. CASE s = "graph_enrichment"
    <3>1. pc' = [pc EXCEPT ![b] = "return"] /\ me' = [me EXCEPT ![b] = w]
        BY <1>5, <2>3 DEF MarkWrite, StageNames
    <3>2. Moved /\ Others(b) /\ me'[b] = w /\ pc'[b] = "return"
      <4>1. w \in Memories
          BY <1>4, <1>6
      <4> HIDE DEF w
      <4> QED BY <1>2, <3>1, <4>1 DEF Moved, Others, Shapes
    <3> HIDE DEF r
    <3> QED BY <1>4, <1>6, <2>3, <3>2
  <2> QED BY <1>3, <2>1, <2>2, <2>3 DEF Finals
<1>8. /\ Marked(me[b]) \in Manifests /\ Marked(me[b]).kind = "written"
      /\ Marked(me[b]).completed = me[b].read.completed \cup ({s} \cap StageNames)
      /\ Marked(me[b]).ready <=> (me[b].read.ready \/ s = "canonical_finalize")
  <2>1. me[b].read \in Manifests
      BY <1>2 DEF Memories
  <2>2. /\ (me[b].read.ready \/ s = "canonical_finalize") \in BOOLEAN
        /\ (me[b].read.enriched \/ s = "graph_enrichment") \in BOOLEAN
        /\ (IF s = "canonical_finalize" THEN f \in Enriched ELSE me[b].read.enabled) \in BOOLEAN
    <3>1. {me[b].read.ready, me[b].read.enriched, me[b].read.enabled} \subseteq BOOLEAN
        BY <2>1 DEF Manifests
    <3>2. CASE s = "canonical_finalize"
        BY <3>2
    <3>3. CASE s # "canonical_finalize"
        BY <3>1, <3>3
    <3> QED BY <3>2, <3>3
  <2>3. me[b].read.completed \cup ({s} \cap StageNames) \subseteq StageNames
      BY <2>1 DEF Manifests
  <2> QED BY <2>2, <2>3 DEF Marked, Manifests, ManifestKinds
<1>9. OnlyManifest(f) /\ manifest'[f] = Marked(me[b])
  <2>1. manifest' = [manifest EXCEPT ![f] = Marked(me[b])]
      BY <1>5 DEF MarkWrite
  <2> QED BY <1>2, <1>8, <2>1 DEF OnlyManifest, Shapes
<1> QED BY <1>1, <1>2, <1>7, <1>8, <1>9

\* What canonical_finalize makes of a process's results.
LEMMA KindFacts ==
    /\ Kinds = {"file", "function", "linked", "calls", "path", "includes"}
    /\ WriteOrder[1] = "file" /\ WriteOrder[2] = "function" /\ WriteOrder[3] = "linked"
    /\ WriteOrder[4] = "calls" /\ WriteOrder[5] = "path" /\ WriteOrder[6] = "includes"
<1>1. /\ Len(WriteOrder) = 6
      /\ WriteOrder[1] = "file" /\ WriteOrder[2] = "function" /\ WriteOrder[3] = "linked"
      /\ WriteOrder[4] = "calls" /\ WriteOrder[5] = "path" /\ WriteOrder[6] = "includes"
    BY DEF WriteOrder
<1>2. 1..6 = {1, 2, 3, 4, 5, 6}
    OBVIOUS
<1>3. Kinds = {WriteOrder[i] : i \in {1, 2, 3, 4, 5, 6}}
    BY <1>1, <1>2 DEF Kinds
<1> QED BY <1>1, <1>3

LEMMA RecordFacts ==
    ASSUME NEW r \in Memories, \A s \in StageNames : Got(r, s) \in Trees, NEW k \in Kinds
    PROVE  /\ TreeOf(r, k) \in Trees /\ \E s \in StageNames : TreeOf(r, k) = Got(r, s)
           /\ RecordsOf(r, k) \subseteq Records /\ IsFiniteSet(RecordsOf(r, k))
           /\ \A rec \in RecordsOf(r, k) :
                rec[1] = k /\ rec[2] = TreeOf(r, k) /\ rec[3] \in Variants
           /\ <<k, TreeOf(r, k), Parsed>> \in RecordsOf(r, k)
<1>1. r.files \in Trees /\ r.calls \in Trees /\ r.funcs \in Trees
      /\ r.files = Got(r, "inventory") /\ r.calls = Got(r, "reference_tracer")
      /\ r.funcs = Got(r, "graph_synthesizer")
    BY DEF Got, StageNames
<1>2. TreeOf(r, k) \in Trees /\ \E s \in StageNames : TreeOf(r, k) = Got(r, s)
    BY <1>1 DEF TreeOf, StageNames
<1>3. r.sinks \in Variants /\ Parsed \in Variants
    BY DEF Memories, Variants
<1> DEFINE T == TreeOf(r, k)
           two == {<<k, T, Parsed>>, <<k, T, r.sinks>>}
<1> HIDE DEF T
<1>4. RecordsOf(r, k) \subseteq two /\ <<k, T, Parsed>> \in RecordsOf(r, k)
    BY DEF RecordsOf, T
<1>5. two \subseteq Records /\ \A rec \in two : rec[1] = k /\ rec[2] = T /\ rec[3] \in Variants
    BY <1>2, <1>3 DEF Records, T
<1>6. IsFiniteSet(two)
  <2>1. IsFiniteSet({<<k, T, Parsed>>})
      BY FS_Singleton
  <2>2. IsFiniteSet({<<k, T, Parsed>>} \cup {<<k, T, r.sinks>>})
      BY <2>1, FS_AddElement
  <2>3. two = {<<k, T, Parsed>>} \cup {<<k, T, r.sinks>>}
      OBVIOUS
  <2> QED BY <2>2, <2>3
<1>7. IsFiniteSet(RecordsOf(r, k))
  <2> HIDE DEF two
  <2> QED BY <1>4, <1>6, FS_Subset
<1> HIDE DEF two
<1> QED BY <1>2, <1>4, <1>5, <1>7 DEF T

LEMMA GraphFacts ==
    ASSUME NEW r \in Memories, \A s \in StageNames : Got(r, s) \in Trees
    PROVE  /\ Graph(r) \subseteq Records /\ Graph(r) # {}
           /\ \A rec \in Graph(r) : \E s \in StageNames : rec[2] = Got(r, s)
<1>1. ASSUME NEW k \in Kinds
      PROVE  /\ RecordsOf(r, k) \subseteq Records /\ RecordsOf(r, k) # {}
             /\ \A rec \in RecordsOf(r, k) : \E s \in StageNames : rec[2] = Got(r, s)
  <2>1. /\ RecordsOf(r, k) \subseteq Records
        /\ \A rec \in RecordsOf(r, k) : rec[2] = TreeOf(r, k)
        /\ <<k, TreeOf(r, k), Parsed>> \in RecordsOf(r, k)
      BY RecordFacts
  <2>2. \E s \in StageNames : TreeOf(r, k) = Got(r, s)
      BY RecordFacts
  <2> QED BY <2>1, <2>2
<1>2. "file" \in Kinds
    BY KindFacts
<1> QED BY <1>1, <1>2 DEF Graph

LEMMA BeginEffect ==
    ASSUME Typed, NEW b \in Builders, BeginBuild(b)
    PROVE  LET f == me[b].fp IN
           /\ Moved /\ Others(b) /\ Stays(b) /\ Move(b, "begin", "write") /\ f \in Trees
           /\ OnlyBuild(f) /\ db'[f].status = "building"
           /\ db'[f].recs = db[f].recs
           /\ UNCHANGED <<outside, disk, reader, history, bounds>>
<1>1. Goto(b, "write") /\ "write" \in Places /\ pc[b] = "begin" /\ Shapes
    BY DEF BeginBuild, Places, Typed
<1>2. me[b] \in Memories /\ me[b].fp \in Trees
    BY <1>1, AtWork
<1>3. Moved /\ Others(b) /\ Stays(b) /\ Move(b, "begin", "write")
    BY <1>1, <1>2, Moves DEF Moved, Others, Stays, Carries, Move
<1> DEFINE f == me[b].fp
           d == [db[f] EXCEPT !.status = "building"]
<1>4. d \in Builds /\ d.status = "building" /\ d.recs = db[f].recs
    BY <1>1, <1>2 DEF Shapes, Builds
<1>5. db' = [db EXCEPT ![f] = d]
    BY <1>1, <1>2 DEF BeginBuild, Shapes, Builds
<1>6. OnlyBuild(f) /\ db'[f] = d
  <2> HIDE DEF d
  <2> QED BY <1>1, <1>2, <1>4, <1>5 DEF OnlyBuild, Shapes
<1> QED BY <1>2, <1>3, <1>4, <1>6 DEF BeginBuild

LEMMA WriteEffect ==
    ASSUME Typed, NEW b \in Builders, WriteChunk(b)
    PROVE  LET f == me[b].fp  i == me[b].next
               new == {rec \in RecordsOf(me[b], WriteOrder[i]) : Linked(rec, db[f].recs)} IN
           /\ Moved /\ Others(b) /\ pc[b] = "write" /\ f \in Trees
           /\ me'[b].fp = f /\ me'[b].stage = me[b].stage /\ me'[b].sinks = me[b].sinks
           /\ me'[b].parsed = me[b].parsed
           /\ \A q \in StageNames : Got(me'[b], q) = Got(me[b], q)
           /\ \/ i < 6 /\ pc'[b] = "write" /\ me'[b].next = i + 1
              \/ i = 6 /\ pc'[b] = "finalize"
           /\ OnlyBuild(f) /\ db'[f].status = db[f].status
           /\ db'[f].payload = db[f].payload /\ db'[f].recs = db[f].recs \cup new
           /\ new \subseteq Records /\ IsFiniteSet(new)
           /\ UNCHANGED <<outside, disk, reader, history, bounds>>
<1> DEFINE f == me[b].fp
           i == me[b].next
           new == {rec \in RecordsOf(me[b], WriteOrder[i]) : Linked(rec, db[f].recs)}
           d == [db[f] EXCEPT !.recs = @ \cup new]
<1>1. pc[b] = "write" /\ Shapes /\ "finalize" \in Places
      /\ UNCHANGED <<outside, disk, reader, history, bounds>>
    BY DEF WriteChunk, Typed, Places
<1>2. me[b] \in Memories /\ f \in Trees /\ i \in 1..6
    BY <1>1, AtWork DEF Memories
<1>3. \A s \in StageNames : Got(me[b], s) \in Trees
    BY <1>1 DEF Typed, Placed, PlacedAt, Have, Marking
<1>4. WriteOrder[i] \in Kinds
    BY <1>2, Constants DEF Kinds
<1>5. new \subseteq Records /\ IsFiniteSet(new)
  <2>1. /\ RecordsOf(me[b], WriteOrder[i]) \subseteq Records
        /\ IsFiniteSet(RecordsOf(me[b], WriteOrder[i]))
      BY <1>2, <1>3, <1>4, RecordFacts
  <2>2. new \subseteq RecordsOf(me[b], WriteOrder[i])
      OBVIOUS
  <2> HIDE DEF new
  <2> QED BY <2>1, <2>2, FS_Subset
<1> HIDE DEF new
<1>6. d \in Builds /\ d.status = db[f].status /\ d.payload = db[f].payload
      /\ d.recs = db[f].recs \cup new
    BY <1>1, <1>2, <1>5 DEF Shapes, Builds
<1>7. db' = [db EXCEPT ![f] = d]
    BY <1>1, <1>2 DEF WriteChunk, Shapes, Builds, new
<1>8. OnlyBuild(f) /\ db'[f] = d
  <2> HIDE DEF d
  <2> QED BY <1>1, <1>2, <1>6, <1>7 DEF OnlyBuild, Shapes
<1>9. /\ Moved /\ Others(b)
      /\ me'[b].fp = f /\ me'[b].stage = me[b].stage /\ me'[b].sinks = me[b].sinks
      /\ me'[b].parsed = me[b].parsed
      /\ \A q \in StageNames : Got(me'[b], q) = Got(me[b], q)
      /\ \/ i < 6 /\ pc'[b] = "write" /\ me'[b].next = i + 1
         \/ i = 6 /\ pc'[b] = "finalize"
  <2>1. CASE i < 6
    <3> DEFINE r == [me[b] EXCEPT !.next = i + 1]
    <3>1. pc' = pc /\ me' = [me EXCEPT ![b] = r]
        BY <1>1, <1>2, <2>1, Constants DEF WriteChunk, Shapes
    <3>2. r \in Memories
      <4>1. i + 1 \in 1..6
          BY <1>2, <2>1
      <4> HIDE DEF i
      <4> QED BY <1>2, <4>1, MemoryUpdates
    <3>3. /\ r.fp = f /\ r.stage = me[b].stage /\ r.sinks = me[b].sinks
          /\ r.parsed = me[b].parsed /\ r.next = i + 1
          /\ \A q \in StageNames : Got(r, q) = Got(me[b], q)
        BY <1>2 DEF Memories, Got, StageNames
    <3> HIDE DEF r
    <3> QED BY <1>1, <2>1, <3>1, <3>2, <3>3 DEF Moved, Others, Shapes
  <2>2. CASE i = 6
    <3>1. Goto(b, "finalize")
        BY <2>2, Constants DEF WriteChunk
    <3> QED BY <1>1, <2>2, <3>1, Moves DEF Moved, Others
  <2> QED BY <1>2, <2>1, <2>2
<1> QED BY <1>1, <1>2, <1>5, <1>6, <1>8, <1>9 DEF new

LEMMA FinalizeEffect ==
    ASSUME Typed, NEW b \in Builders, Finalize(b)
    PROVE  LET f == me[b].fp IN
           /\ Moved /\ Others(b) /\ Carries(b) /\ Move(b, "finalize", "schema") /\ f \in Trees
           /\ me'[b].stage = "canonical_finalize"
           /\ OnlyBuild(f) /\ db'[f].recs = db[f].recs
           /\ IF db[f].status = "none" THEN db'[f] = db[f]
              ELSE db'[f].status = "ready" /\ db'[f].payload = Graph(me[b])
           /\ \A s \in StageNames : Got(me[b], s) \in Trees
           /\ UNCHANGED <<outside, disk, reader, history, bounds>>
<1> DEFINE f == me[b].fp
           d == [db[f] EXCEPT !.status = "ready", !.payload = Graph(me[b])]
<1>1. GotoStage(b, "schema", "canonical_finalize") /\ "schema" \in Places
      /\ "canonical_finalize" \in Stages /\ pc[b] = "finalize" /\ Shapes
    BY DEF Finalize, Places, Stages, Finals, Typed
<1>2. me[b] \in Memories /\ f \in Trees
    BY <1>1, AtWork
<1>3. \A s \in StageNames : Got(me[b], s) \in Trees
    BY <1>1 DEF Typed, Placed, PlacedAt, Have, Marking
<1>4. Graph(me[b]) \subseteq Records
    BY <1>2, <1>3, GraphFacts
<1>5. /\ Moved /\ Others(b) /\ pc'[b] = "schema"
      /\ me'[b] = [me[b] EXCEPT !.stage = "canonical_finalize"]
    BY <1>1, <1>2, Moves DEF Moved, Others
<1>6. Carries(b) /\ me'[b].stage = "canonical_finalize"
    BY <1>2, <1>5 DEF Carries, Memories
<1>7. d \in Builds /\ d.status = "ready" /\ d.payload = Graph(me[b]) /\ d.recs = db[f].recs
    BY <1>1, <1>2, <1>4 DEF Shapes, Builds
<1>8. db' = IF db[f].status = "none" THEN db ELSE [db EXCEPT ![f] = d]
    BY <1>1, <1>2 DEF Finalize, Shapes, Builds
<1>9. OnlyBuild(f) /\ db'[f] = IF db[f].status = "none" THEN db[f] ELSE d
  <2> HIDE DEF d
  <2> QED BY <1>1, <1>2, <1>7, <1>8 DEF OnlyBuild, Shapes
<1> HIDE DEF d
<1> QED BY <1>1, <1>2, <1>3, <1>5, <1>6, <1>7, <1>9 DEF Finalize, Move

LEMMA CrashEffect ==
    ASSUME Typed, NEW b \in Builders, Crash(b)
    PROVE  LET f == me[b].fp  s == me[b].stage IN
           /\ Moved /\ Others(b) /\ Leaves(b) /\ f \in Trees
           /\ faults' = faults + 1 /\ faults < MaxFaults
           /\ \/ UNCHANGED disk
              \/ OnlyManifest(f) /\ manifest'[f] = TornManifest /\ UNCHANGED dir
              \/ /\ pc[b] = "run" /\ s \in StageNames /\ UNCHANGED manifest
                 /\ OnlyDir(f) /\ dir'[f][s].data = "torn"
                 /\ \A q \in StageNames \ {s} : dir'[f][q] = dir[f][q]
           /\ UNCHANGED <<outside, db, reader, history, builds>>
<1> DEFINE f == me[b].fp
           s == me[b].stage
           d == [dir[f][s] EXCEPT !.data = "torn"]
<1>1. Goto(b, "idle") /\ "idle" \in Places /\ pc[b] # "idle" /\ Shapes
    BY DEF Crash, Places, Typed
<1>2. me[b] \in Memories /\ f \in Trees
    BY <1>1, AtWork
<1>3. Moved /\ Others(b) /\ Leaves(b)
    BY <1>1, <1>2, Moves DEF Moved, Others, Leaves
<1>4. /\ faults' = faults + 1 /\ faults < MaxFaults
      /\ UNCHANGED <<outside, db, reader, history, builds>>
    BY DEF Crash, Fault
<1>5. CASE UNCHANGED disk
    BY <1>2, <1>3, <1>4, <1>5
<1>6. CASE manifest' = [manifest EXCEPT ![f] = TornManifest] /\ UNCHANGED dir
  <2>1. OnlyManifest(f) /\ manifest'[f] = TornManifest
      BY <1>1, <1>2, <1>6, Constants DEF OnlyManifest, Shapes
  <2> QED BY <1>2, <1>3, <1>4, <1>6, <2>1
<1>7. CASE AtStage(b, "run") /\ dir' = [dir EXCEPT ![f][s].data = "torn"]
           /\ UNCHANGED manifest
  <2>1. pc[b] = "run" /\ s \in StageNames
      BY <1>7 DEF AtStage
  <2>2. dir[f][s] \in Dirs
      BY <1>1, <1>2, <2>1 DEF Shapes
  <2>3. d \in Dirs /\ d.data = "torn"
      BY <2>2 DEF Dirs
  <2>4. dir' = [dir EXCEPT ![f] = [dir[f] EXCEPT ![s] = d]]
      BY <1>1, <1>2, <1>7, <2>1 DEF Shapes, Dirs
  <2>5. /\ OnlyDir(f) /\ dir'[f][s] = d
        /\ \A q \in StageNames \ {s} : dir'[f][q] = dir[f][q]
    <3> HIDE DEF d
    <3> QED BY <1>1, <1>2, <2>1, <2>3, <2>4 DEF OnlyDir, Shapes
  <2> HIDE DEF d
  <2> QED BY <1>2, <1>3, <1>4, <1>7, <2>1, <2>3, <2>5
<1> QED BY <1>5, <1>6, <1>7 DEF Crash

LEMMA StartEffect ==
    ASSUME Typed, NEW b \in Builders, NEW force \in BOOLEAN, Start(b, force)
    PROVE  /\ Moved /\ Others(b) /\ Move(b, "idle", "check")
           /\ me'[b].fp = tree
           /\ me'[b].files = NoTree /\ me'[b].calls = NoTree
           /\ me'[b].parsed = NoTree /\ me'[b].funcs = NoTree /\ me'[b].next = 1
           /\ shared' = shared \cup {f \in {tree} : InUse(f)}
           /\ builds' = builds + 1 /\ builds < MaxBuilds
           /\ UNCHANGED <<outside, disk, db, reader, edited, lost, faults>>
<1> DEFINE r == [Idle EXCEPT !.fp = tree, !.sinks = sinks, !.force = force]
<1>1. /\ pc[b] = "idle" /\ pc' = [pc EXCEPT ![b] = "check"] /\ me' = [me EXCEPT ![b] = r]
      /\ builds' = builds + 1 /\ builds < MaxBuilds
      /\ shared' = shared \cup {f \in {tree} : InUse(f)}
      /\ UNCHANGED <<outside, disk, db, reader, edited, lost, faults>>
    BY DEF Start
<1>2. Shapes /\ "check" \in Places /\ tree \in Trees0 /\ sinks \in Variants
    BY DEF Typed, Shapes, Places, Trees0, Variants
<1>3. r \in Memories
    BY <1>2, Constants DEF Memories
<1>4. /\ r.fp = tree /\ r.files = NoTree /\ r.calls = NoTree
      /\ r.parsed = NoTree /\ r.funcs = NoTree /\ r.next = 1
    BY DEF Idle
<1>5. Moved /\ Others(b) /\ pc'[b] = "check" /\ me'[b] = r
  <2> HIDE DEF r
  <2> QED BY <1>1, <1>2, <1>3 DEF Moved, Others, Shapes
<1> HIDE DEF r
<1> QED BY <1>1, <1>4, <1>5 DEF Move

\* A step that only the environment or an audit takes.
Audit ==
    (\E f \in Trees : AuditBegins(f)) \/ AuditPage \/ AuditLastPage \/ AuditEnds
Around ==
    \/ \E t \in Trees : EditTree(t)
    \/ \E s \in Sinks : ChangeSinks(s)
    \/ Audit
    \/ UNCHANGED vars
LEMMA AroundEffect ==
    ASSUME Typed, Around
    PROVE  /\ UNCHANGED <<disk, db, pc, me, lost, shared, builds>>
           /\ tree' \in Trees /\ sinks' \in Sinks /\ faults' \in 0..MaxFaults
           /\ faults' = 0 => faults = 0
           /\ \/ tree' = tree /\ edited' = edited
              \/ edited' = edited \cup {f \in Trees : InUse(f)}
<1>1. Shapes
    BY DEF Typed
<1>2. CASE \E t \in Trees : EditTree(t)
    BY <1>1, <1>2, BoundsAssumption DEF EditTree, Fault, Shapes
<1>3. CASE \E s \in Sinks : ChangeSinks(s)
    BY <1>1, <1>3, BoundsAssumption DEF ChangeSinks, Fault, Shapes
<1>4. CASE Audit
    BY <1>1, <1>4 DEF Audit, AuditBegins, AuditPage, AuditLastPage, AuditEnds, Shapes
<1>5. CASE UNCHANGED vars
    BY <1>1, <1>5 DEF vars, Shapes
<1> QED BY <1>2, <1>3, <1>4, <1>5 DEF Around

LEMMA UpgradeEffect ==
    ASSUME Typed, Upgrade
    PROVE  /\ dir' \in [Trees -> [StageNames -> Dirs]]
           /\ \A f \in Trees, s \in StageNames :
                /\ dir'[f][s].data = dir[f][s].data /\ dir'[f][s].of = dir[f][s].of
                /\ dir'[f][s].schema = FALSE
           /\ faults' = faults + 1 /\ faults < MaxFaults
           /\ UNCHANGED <<outside, manifest, db, pc, me, reader, history, builds>>
<1>1. \A f \in Trees, s \in StageNames :
        LET d == [dir[f][s] EXCEPT !.schema = FALSE] IN
        /\ d \in Dirs /\ d.data = dir[f][s].data /\ d.of = dir[f][s].of /\ d.schema = FALSE
  <2> SUFFICES ASSUME NEW f \in Trees, NEW s \in StageNames, NEW e \in Dirs, e = dir[f][s]
               PROVE  LET d == [e EXCEPT !.schema = FALSE] IN
                      d \in Dirs /\ d.data = e.data /\ d.of = e.of /\ d.schema = FALSE
      BY DEF Typed, Shapes
  <2> QED BY DEF Dirs
<1>2. dir' = [f \in Trees |-> [s \in StageNames |-> [dir[f][s] EXCEPT !.schema = FALSE]]]
    BY DEF Upgrade
<1>3. \A f \in Trees, s \in StageNames : dir'[f][s] = [dir[f][s] EXCEPT !.schema = FALSE]
    BY <1>2
<1>4. dir' \in [Trees -> [StageNames -> Dirs]]
    BY <1>1, <1>2
<1> QED BY <1>1, <1>3, <1>4 DEF Upgrade, Fault

LEMMA ResetEffect ==
    ASSUME Typed, ResetDatabase
    PROVE  /\ db' \in [Trees -> Builds] /\ \A f \in Trees : db'[f] = EmptyBuild
           /\ lost' = lost \cup {f \in Trees :
                        InUse(f) \/ (manifest[f].ready /\ ~IsBuildReusable(f))}
           /\ reader' = [reader EXCEPT !.start = {}]
           /\ faults' = faults + 1 /\ faults < MaxFaults
           /\ UNCHANGED <<outside, disk, pc, me, edited, shared, builds>>
BY Constants DEF ResetDatabase, Fault

LEMMA StepCases ==
    ASSUME [Next]_vars
    PROVE  \/ Around \/ Upgrade \/ ResetDatabase
           \/ \E b \in Builders :
                \/ Ends(b) \/ Looks(b) \/ Load(b)
                \/ ClearBuild(b) \/ SavePlaceholder(b) \/ StageOutdated(b) \/ LoadRaises(b)
                \/ Run(b) \/ MarkRead(b) \/ MarkWrite(b)
                \/ BeginBuild(b) \/ WriteChunk(b) \/ Finalize(b)
                \/ Crash(b) \/ CrashInClear(b)
                \/ \E force \in BOOLEAN : Start(b, force)
BY DEF Next, BuilderStep, Around, Audit, Ends, Looks

LEMMA TypeInit == Init => Typed
<1> SUFFICES ASSUME Init PROVE Typed
    OBVIOUS
<1>1. \A b \in Builders : pc[b] = "idle" /\ me[b] = Idle
    BY DEF Init
<1>2. \A f \in Trees, s \in StageNames : dir[f][s] = NoDir
    BY DEF Init
<1>3. Shapes
  <2>1. dir \in [Trees -> [StageNames -> Dirs]]
      BY Constants DEF Init
  <2>2. manifest \in [Trees -> Manifests] /\ db \in [Trees -> Builds]
      BY Constants DEF Init
  <2>3. pc \in [Builders -> Places] /\ me \in [Builders -> Memories]
      BY Constants DEF Init, Places
  <2> QED BY <2>1, <2>2, <2>3, SinksAssumption, BoundsAssumption DEF Init, Shapes
<1>4. Placed
    BY <1>1 DEF Placed, PlacedAt, Marking, Have, Idle
<1>5. WholeIsOfTree
    BY <1>2 DEF WholeIsOfTree, NoDir
<1> QED BY <1>3, <1>4, <1>5 DEF Typed

\* A step changes the place of the process that takes it only.
LEMMA PlacedStep ==
    ASSUME Typed, NEW b \in Builders, Others(b), PlacedAt(b)'
    PROVE  Placed'
<1> SUFFICES ASSUME NEW c \in Builders \ {b} PROVE PlacedAt(c)'
    BY DEF Placed
<1>1. PlacedAt(c) /\ pc'[c] = pc[c] /\ me'[c] = me[c]
    BY DEF Typed, Placed, Others
<1> QED BY <1>1 DEF PlacedAt, Marking, Have

LEMMA LeavesPlaced ==
    ASSUME NEW b \in Builders, Leaves(b)
    PROVE  PlacedAt(b)'
BY DEF Leaves, PlacedAt, Marking, Have, Idle

LEMMA WholeStep ==
    ASSUME Typed, NEW f \in Trees, OnlyDir(f),
           \A s \in StageNames : dir'[f][s].data = "whole" => dir'[f][s].of \in Trees
    PROVE  WholeIsOfTree'
BY DEF Typed, OnlyDir, WholeIsOfTree

LEMMA CarriesGot ==
    ASSUME NEW b, Carries(b)
    PROVE  \A q : Got(me'[b], q) = Got(me[b], q)
BY DEF Carries, Got

LEMMA TypeStep == ASSUME Typed, [Next]_vars PROVE Typed'
<1>0. Shapes /\ Placed /\ WholeIsOfTree
    BY DEF Typed
<1>b. MaxBuilds \in Nat /\ MaxFaults \in Nat
    BY BoundsAssumption
<1>1. CASE Around
  <2>1. /\ UNCHANGED <<disk, db, pc, me, lost, shared, builds>>
        /\ tree' \in Trees /\ sinks' \in Sinks /\ faults' \in 0..MaxFaults
      BY <1>1, AroundEffect
  <2>2. Shapes'
      BY <1>0, <2>1 DEF Shapes
  <2>3. Placed' /\ WholeIsOfTree'
      BY <1>0, <2>1 DEF Placed, PlacedAt, Marking, Have, WholeIsOfTree
  <2> QED BY <2>2, <2>3 DEF Typed
<1>2. CASE Upgrade
  <2>1. Shapes'
      BY <1>0, <1>2, <1>b, UpgradeEffect DEF Shapes
  <2>2. Placed' /\ WholeIsOfTree'
      BY <1>0, <1>2, UpgradeEffect DEF Placed, PlacedAt, Marking, Have, WholeIsOfTree
  <2> QED BY <2>1, <2>2 DEF Typed
<1>3. CASE ResetDatabase
  <2>1. Shapes'
      BY <1>0, <1>3, <1>b, ResetEffect DEF Shapes
  <2>2. Placed' /\ WholeIsOfTree'
      BY <1>0, <1>3, ResetEffect DEF Placed, PlacedAt, Marking, Have, WholeIsOfTree
  <2> QED BY <2>1, <2>2 DEF Typed
<1>4. ASSUME NEW b \in Builders, Ends(b) PROVE Typed'
  <2>1. /\ Moved /\ Others(b) /\ Leaves(b)
        /\ UNCHANGED <<outside, disk, db, reader, history, bounds>>
      BY <1>4, EndsEffect
  <2>2. Shapes' /\ WholeIsOfTree'
      BY <1>0, <2>1 DEF Shapes, Moved, WholeIsOfTree
  <2>3. Placed'
      BY <2>1, PlacedStep, LeavesPlaced
  <2> QED BY <2>2, <2>3 DEF Typed
<1>5. ASSUME NEW b \in Builders, Looks(b) PROVE Typed'
  <2>1. /\ Moved /\ Others(b) /\ Carries(b)
        /\ UNCHANGED <<outside, disk, db, reader, history, bounds>>
      BY <1>5, LooksEffect
  <2>2. Shapes' /\ WholeIsOfTree'
      BY <1>0, <2>1 DEF Shapes, Moved, WholeIsOfTree
  <2>3. \A q : Got(me'[b], q) = Got(me[b], q)
      BY <2>1, CarriesGot
  <2>4. PlacedAt(b)
      BY <1>0 DEF Placed
  <2>5. /\ pc[b] # "idle" /\ pc'[b] # "idle" /\ me'[b].fp = me[b].fp
        /\ \/ pc'[b] \in {"return", "ping", "enrich", "seed"}
           \/ pc[b] = "stage" /\ pc'[b] \in {"load", "run"} /\ me'[b].stage = me[b].stage
           \/ pc[b] = "final" /\ pc'[b] = "begin"
           \/ pc'[b] = "schema" /\ me'[b].stage = "graph_enrichment"
      BY <1>5, <2>1, LooksEffect DEF Move, Stays, Carries
  <2>6. PlacedAt(b)'
      BY <2>3, <2>4, <2>5 DEF PlacedAt, Marking, Have, StageNames, Finals
  <2> QED BY <2>1, <2>2, <2>6, PlacedStep DEF Typed
<1>6. ASSUME NEW b \in Builders, Load(b) PROVE Typed'
  <2> DEFINE f == me[b].fp
             s == me[b].stage
  <2>1. /\ Moved /\ Others(b)
        /\ UNCHANGED <<outside, disk, db, reader, history, bounds>>
        /\ pc[b] = "load" /\ s \in StageNames /\ f \in Trees
        /\ dir[f][s].data = "whole"
        /\ me'[b].fp = f /\ me'[b].stage = StageAfter(s)
        /\ pc'[b] = IF StageAfter(s) = "none" THEN "final" ELSE "stage"
        /\ \A q \in StageNames :
             Got(me'[b], q) = IF q = s THEN dir[f][s].of ELSE Got(me[b], q)
      BY <1>6, LoadEffect
  <2>2. Shapes' /\ WholeIsOfTree'
      BY <1>0, <2>1 DEF Shapes, Moved, WholeIsOfTree
  <2>3. dir[f][s].of \in Trees
      BY <1>0, <2>1 DEF WholeIsOfTree
  <2>4. PlacedAt(b)
      BY <1>0 DEF Placed
  <2>5. PlacedAt(b)'
      BY <2>1, <2>3, <2>4 DEF PlacedAt, Marking, Have, Behind, StageNames, StageAfter
  <2> QED BY <2>1, <2>2, <2>5, PlacedStep DEF Typed
<1>7. ASSUME NEW b \in Builders, ClearBuild(b) PROVE Typed'
  <2> DEFINE f == me[b].fp
  <2>1. /\ Moved /\ Others(b) /\ Stays(b) /\ Move(b, "check", "ping") /\ f \in Trees
        /\ OnlyManifest(f) /\ OnlyDir(f) /\ \A s \in StageNames : dir'[f][s] = NoDir
        /\ UNCHANGED <<outside, db, reader, history, bounds>>
      BY <1>7, ClearEffect
  <2>2. Shapes'
      BY <1>0, <2>1 DEF Shapes, Moved, OnlyManifest, OnlyDir
  <2>3. WholeIsOfTree'
      BY <2>1, WholeStep DEF NoDir
  <2>4. PlacedAt(b)'
      BY <1>0, <2>1 DEF Placed, PlacedAt, Marking, Have, Move, Stays, Carries
  <2> QED BY <2>1, <2>2, <2>3, <2>4, PlacedStep DEF Typed
<1>8. ASSUME NEW b \in Builders, SavePlaceholder(b) PROVE Typed'
  <2> DEFINE f == me[b].fp
  <2>1. /\ Moved /\ Others(b) /\ Carries(b) /\ Move(b, "seed", "stage") /\ f \in Trees
        /\ me'[b].stage = "inventory" /\ OnlyManifest(f)
        /\ UNCHANGED <<outside, dir, db, reader, history, bounds>>
      BY <1>8, SeedEffect
  <2>2. Shapes' /\ WholeIsOfTree'
      BY <1>0, <2>1 DEF Shapes, Moved, OnlyManifest, WholeIsOfTree
  <2>3. PlacedAt(b)'
      BY <1>0, <2>1 DEF Placed, PlacedAt, Marking, Have, Behind, StageNames, Move, Carries
  <2> QED BY <2>1, <2>2, <2>3, PlacedStep DEF Typed
<1>9. ASSUME NEW b \in Builders, StageOutdated(b) \/ LoadRaises(b) PROVE Typed'
  <2> DEFINE f == me[b].fp
             s == me[b].stage
  <2>1. /\ Moved /\ Others(b) /\ f \in Trees /\ s \in StageNames
        /\ Leaves(b) \/ (Stays(b) /\ Move(b, "stage", "run"))
        /\ OnlyManifest(f) /\ OnlyDir(f) /\ dir'[f][s] = NoDir
        /\ \A q \in StageNames \ {s} : dir'[f][q] = dir[f][q]
        /\ UNCHANGED <<outside, db, reader, history, bounds>>
      BY <1>9, DiscardEffect
  <2>2. Shapes'
      BY <1>0, <2>1 DEF Shapes, Moved, OnlyManifest, OnlyDir
  <2>3. WholeIsOfTree'
      BY <1>0, <2>1, WholeStep DEF NoDir, WholeIsOfTree
  <2>4. CASE Leaves(b)
      BY <2>1, <2>2, <2>3, <2>4, LeavesPlaced, PlacedStep DEF Typed
  <2>5. CASE Stays(b) /\ Move(b, "stage", "run")
    <3>1. \A q : Got(me'[b], q) = Got(me[b], q)
        BY <2>5, CarriesGot DEF Stays
    <3>2. PlacedAt(b)'
        BY <1>0, <2>1, <2>5, <3>1 DEF Placed, PlacedAt, Marking, Have, Move, Stays, Carries
    <3> QED BY <2>1, <2>2, <2>3, <3>2, PlacedStep DEF Typed
  <2> QED BY <2>1, <2>4, <2>5
<1>10. ASSUME NEW b \in Builders, Run(b) PROVE Typed'
  <2> DEFINE f == me[b].fp
             s == me[b].stage
             t == ResultOf(me[b])
  <2>1. /\ Moved /\ Others(b) /\ f \in Trees /\ s \in StageNames /\ t \in Trees
        /\ Move(b, "run", "schema") /\ me'[b].fp = f /\ me'[b].stage = s
        /\ \A q \in StageNames : Got(me'[b], q) = IF q = s THEN t ELSE Got(me[b], q)
        /\ OnlyDir(f) /\ dir'[f][s].of = t
        /\ \A q \in StageNames \ {s} : dir'[f][q] = dir[f][q]
        /\ UNCHANGED <<outside, manifest, db, reader, history, bounds>>
      BY <1>10, RunEffect
  <2> HIDE DEF t
  <2>2. Shapes'
      BY <1>0, <2>1 DEF Shapes, Moved, OnlyDir
  <2>3. WholeIsOfTree'
      BY <1>0, <2>1, WholeStep DEF WholeIsOfTree
  <2>4. PlacedAt(b)
      BY <1>0 DEF Placed
  <2>5. PlacedAt(b)'
      BY <2>1, <2>4 DEF PlacedAt, Marking, Have, Behind, StageNames, Move
  <2> QED BY <2>1, <2>2, <2>3, <2>5, PlacedStep DEF Typed
<1>11. ASSUME NEW b \in Builders, MarkRead(b) PROVE Typed'
  <2> DEFINE f == me[b].fp
             s == me[b].stage
  <2>1. /\ Moved /\ Others(b) /\ f \in Trees /\ Move(b, "schema", "mark")
        /\ me'[b].fp = f /\ me'[b].stage = s
        /\ \A q \in StageNames : Got(me'[b], q) = Got(me[b], q)
        /\ OnlyDir(f)
        /\ \A q \in StageNames :
             dir'[f][q].data = dir[f][q].data /\ dir'[f][q].of = dir[f][q].of
        /\ UNCHANGED <<outside, manifest, db, reader, history, bounds>>
      BY <1>11, MarkReadEffect
  <2>2. Shapes'
      BY <1>0, <2>1 DEF Shapes, Moved, OnlyDir
  <2>3. WholeIsOfTree'
      BY <1>0, <2>1, WholeStep DEF WholeIsOfTree
  <2>4. PlacedAt(b)
      BY <1>0 DEF Placed
  <2>5. PlacedAt(b)'
      BY <2>1, <2>4 DEF PlacedAt, Marking, Have, Behind, StageNames, Move
  <2> QED BY <2>1, <2>2, <2>3, <2>5, PlacedStep DEF Typed
<1>12. ASSUME NEW b \in Builders, MarkWrite(b) PROVE Typed'
  <2> DEFINE f == me[b].fp
             s == me[b].stage
  <2>1. /\ Moved /\ Others(b) /\ f \in Trees /\ pc[b] = "mark" /\ me'[b].fp = f
        /\ \A q \in StageNames : Got(me'[b], q) = Got(me[b], q)
        /\ \/ /\ s \in StageNames /\ me'[b].stage = StageAfter(s)
              /\ pc'[b] = IF StageAfter(s) = "none" THEN "final" ELSE "stage"
           \/ pc'[b] \in {"enrich", "return"}
        /\ OnlyManifest(f)
        /\ UNCHANGED <<outside, dir, db, reader, history, bounds>>
      BY <1>12, MarkWriteEffect
  <2>2. Shapes' /\ WholeIsOfTree'
      BY <1>0, <2>1 DEF Shapes, Moved, OnlyManifest, WholeIsOfTree
  <2>4. PlacedAt(b)
      BY <1>0 DEF Placed
  <2>5. PlacedAt(b)'
      BY <2>1, <2>4 DEF PlacedAt, Marking, Have, Behind, StageNames, StageAfter
  <2> QED BY <2>1, <2>2, <2>5, PlacedStep DEF Typed
<1>13. ASSUME NEW b \in Builders, BeginBuild(b) PROVE Typed'
  <2>1. /\ Moved /\ Others(b) /\ Stays(b) /\ Move(b, "begin", "write")
        /\ OnlyBuild(me[b].fp)
        /\ UNCHANGED <<outside, disk, reader, history, bounds>>
      BY <1>13, BeginEffect
  <2>2. Shapes' /\ WholeIsOfTree'
      BY <1>0, <2>1 DEF Shapes, Moved, OnlyBuild, WholeIsOfTree
  <2>3. \A q : Got(me'[b], q) = Got(me[b], q)
      BY <2>1, CarriesGot DEF Stays
  <2>4. PlacedAt(b)'
      BY <1>0, <2>1, <2>3 DEF Placed, PlacedAt, Marking, Have, Move, Stays, Carries
  <2> QED BY <2>1, <2>2, <2>4, PlacedStep DEF Typed
<1>14. ASSUME NEW b \in Builders, WriteChunk(b) PROVE Typed'
  <2>1. /\ Moved /\ Others(b) /\ pc[b] = "write" /\ me'[b].fp = me[b].fp
        /\ \A q \in StageNames : Got(me'[b], q) = Got(me[b], q)
        /\ pc'[b] \in {"write", "finalize"} /\ OnlyBuild(me[b].fp)
        /\ UNCHANGED <<outside, disk, reader, history, bounds>>
      BY <1>14, WriteEffect
  <2>2. Shapes' /\ WholeIsOfTree'
      BY <1>0, <2>1 DEF Shapes, Moved, OnlyBuild, WholeIsOfTree
  <2>3. PlacedAt(b)'
      BY <1>0, <2>1 DEF Placed, PlacedAt, Marking, Have
  <2> QED BY <2>1, <2>2, <2>3, PlacedStep DEF Typed
<1>15. ASSUME NEW b \in Builders, Finalize(b) PROVE Typed'
  <2>1. /\ Moved /\ Others(b) /\ Carries(b) /\ Move(b, "finalize", "schema")
        /\ me'[b].stage = "canonical_finalize" /\ OnlyBuild(me[b].fp)
        /\ UNCHANGED <<outside, disk, reader, history, bounds>>
      BY <1>15, FinalizeEffect
  <2>2. Shapes' /\ WholeIsOfTree'
      BY <1>0, <2>1 DEF Shapes, Moved, OnlyBuild, WholeIsOfTree
  <2>3. PlacedAt(b)'
      BY <1>0, <2>1 DEF Placed, PlacedAt, Marking, Have, Move, Carries, StageNames, Finals
  <2> QED BY <2>1, <2>2, <2>3, PlacedStep DEF Typed
<1>16. ASSUME NEW b \in Builders, Crash(b) PROVE Typed'
  <2> DEFINE f == me[b].fp
             s == me[b].stage
  <2>1. /\ Moved /\ Others(b) /\ Leaves(b) /\ f \in Trees
        /\ faults' = faults + 1 /\ faults < MaxFaults
        /\ OnlyManifest(f) \/ UNCHANGED manifest
        /\ UNCHANGED <<outside, db, reader, history, builds>>
      BY <1>16, CrashEffect
  <2>2. \/ UNCHANGED dir
        \/ /\ OnlyDir(f) /\ dir'[f][s].data = "torn"
           /\ \A q \in StageNames \ {s} : dir'[f][q] = dir[f][q]
      BY <1>16, CrashEffect
  <2>3. Shapes'
      BY <1>0, <1>b, <2>1, <2>2 DEF Shapes, Moved, OnlyManifest, OnlyDir
  <2>4. WholeIsOfTree'
    <3>1. CASE UNCHANGED dir
        BY <1>0, <3>1 DEF WholeIsOfTree
    <3>2. CASE /\ OnlyDir(f) /\ dir'[f][s].data = "torn"
               /\ \A q \in StageNames \ {s} : dir'[f][q] = dir[f][q]
        BY <1>0, <2>1, <3>2, WholeStep DEF WholeIsOfTree
    <3> QED BY <2>2, <3>1, <3>2
  <2> QED BY <2>1, <2>3, <2>4, LeavesPlaced, PlacedStep DEF Typed
<1>17. ASSUME NEW b \in Builders, CrashInClear(b) PROVE Typed'
  <2> DEFINE f == me[b].fp
  <2>1. /\ Moved /\ Others(b) /\ Leaves(b) /\ f \in Trees
        /\ OnlyManifest(f) /\ OnlyDir(f)
        /\ \A s \in StageNames : dir'[f][s] \in {dir[f][s], NoDir}
        /\ faults' = faults + 1 /\ faults < MaxFaults
        /\ UNCHANGED <<outside, db, reader, edited, lost, builds>>
      BY <1>17, CrashInClearEffect
  <2>2. Shapes'
      BY <1>0, <1>b, <2>1 DEF Shapes, Moved, OnlyManifest, OnlyDir
  <2>3. WholeIsOfTree'
      BY <1>0, <2>1, WholeStep DEF NoDir, WholeIsOfTree
  <2> QED BY <2>1, <2>2, <2>3, LeavesPlaced, PlacedStep DEF Typed
<1>18. ASSUME NEW b \in Builders, NEW force \in BOOLEAN, Start(b, force) PROVE Typed'
  <2>1. /\ Moved /\ Others(b) /\ Move(b, "idle", "check") /\ me'[b].fp = tree
        /\ builds' = builds + 1 /\ builds < MaxBuilds
        /\ UNCHANGED <<outside, disk, db, reader, edited, lost, faults>>
      BY <1>18, StartEffect
  <2>2. Shapes' /\ WholeIsOfTree'
      BY <1>0, <1>b, <2>1 DEF Shapes, Moved, WholeIsOfTree
  <2>3. tree # NoTree
      BY <1>0, TreesAssumption DEF Shapes
  <2>4. PlacedAt(b)'
      BY <2>1, <2>3 DEF PlacedAt, Marking, Have, Move
  <2> QED BY <2>1, <2>2, <2>4, PlacedStep DEF Typed
<1> QED BY <1>1, <1>2, <1>3, <1>4, <1>5, <1>6, <1>7, <1>8, <1>9, <1>10, <1>11,
           <1>12, <1>13, <1>14, <1>15, <1>16, <1>17, <1>18, StepCases

(***************************************************************************)
(* The cache.  At a fingerprint that was never shared there is one process *)
(* at most, and what it is about to write agrees with the directory.       *)
(***************************************************************************)
Alone ==
    \A f \in Trees \ shared : \A b, c \in Builders :
        me[b].fp = f /\ me[c].fp = f => b = c

InHandAt(b) ==
    LET f == me[b].fp  s == me[b].stage IN
    f \in Trees \ shared =>
        /\ pc[b] = "run" => s \notin manifest[f].completed
        /\ Marking(b) /\ s \in StageNames => dir[f][s].data = "whole"
        /\ pc[b] = "mark" => me[b].read = manifest[f]
InHand == \A b \in Builders : InHandAt(b)

WholeAt(f) ==
    f \notin shared =>
        \A s \in manifest[f].completed : dir[f][s].schema => dir[f][s].data = "whole"

Cache == Alone /\ InHand /\ CheckpointIsWhole

LEMMA CacheInit == Init => Cache
<1> SUFFICES ASSUME Init PROVE Cache
    OBVIOUS
<1>1. \A b \in Builders : me[b].fp = NoTree
    BY DEF Init, Idle
<1>2. NoTree \notin Trees
    BY TreesAssumption
<1>3. \A f \in Trees : manifest[f].completed = {}
    BY DEF Init, NoManifest
<1> QED BY <1>1, <1>2, <1>3 DEF Cache, Alone, InHand, InHandAt, CheckpointIsWhole

\* A step of b that leaves the files of other fingerprints alone.
LEMMA CacheOf ==
    ASSUME Typed, Cache, NEW b \in Builders, Others(b), shared \subseteq shared',
           NEW f \in Trees, me[b].fp = f, me'[b].fp \in {f, NoTree},
           \A g \in Trees \ {f} : manifest'[g] = manifest[g] /\ dir'[g] = dir[g],
           InHandAt(b)', WholeAt(f)'
    PROVE  Cache'
<1>0. NoTree \notin Trees
    BY TreesAssumption
<1>1. Alone'
    BY <1>0 DEF Cache, Alone, Others
<1>2. InHand'
  <2> SUFFICES ASSUME NEW c \in Builders \ {b}, me'[c].fp \in Trees \ shared'
               PROVE  InHandAt(c)'
      BY DEF InHand, InHandAt
  <2>1. pc'[c] = pc[c] /\ me'[c] = me[c] /\ me[c].fp \in Trees \ shared
      BY DEF Others
  <2>2. me[c].fp # f
      BY <2>1 DEF Cache, Alone
  <2>3. InHandAt(c)
      BY DEF Cache, InHand
  <2>4. manifest'[me[c].fp] = manifest[me[c].fp] /\ dir'[me[c].fp] = dir[me[c].fp]
      BY <2>1, <2>2
  <2> QED BY <2>1, <2>3, <2>4 DEF InHandAt, Marking
<1>3. CheckpointIsWhole'
  <2> SUFFICES ASSUME NEW g \in Trees \ shared'
               PROVE  WholeAt(g)'
      BY DEF CheckpointIsWhole, WholeAt
  <2>1. CASE g = f
      BY <2>1
  <2>2. CASE g # f
      BY <2>2 DEF WholeAt, Cache, CheckpointIsWhole
  <2> QED BY <2>1, <2>2
<1> QED BY <1>1, <1>2, <1>3 DEF Cache

\* A step of b that writes no file.
LEMMA CacheKept ==
    ASSUME Typed, Cache, NEW b \in Builders, Others(b), shared \subseteq shared',
           UNCHANGED disk, pc[b] # "idle", me'[b].fp \in {me[b].fp, NoTree}, InHandAt(b)'
    PROVE  Cache'
<1> PICK f \in Trees : f = me[b].fp
    BY AtWork
<1>1. WholeAt(f)'
    BY DEF WholeAt, Cache, CheckpointIsWhole
<1> QED BY <1>1, CacheOf

LEMMA LeavesInHand ==
    ASSUME NEW b \in Builders, Leaves(b)
    PROVE  InHandAt(b)' /\ me'[b].fp = NoTree /\ pc[b] # "idle"
<1>1. NoTree \notin Trees
    BY TreesAssumption
<1> QED BY <1>1 DEF Leaves, InHandAt, Idle

LEMMA CacheStep == ASSUME Typed, Cache, [Next]_vars PROVE Cache'
<1>0. Shapes /\ Placed /\ Alone /\ InHand /\ CheckpointIsWhole
    BY DEF Typed, Cache
<1>1. CASE Around
  <2>1. UNCHANGED <<disk, pc, me, shared>>
      BY <1>1, AroundEffect
  <2> QED BY <1>0, <2>1
          DEF Cache, Alone, InHand, InHandAt, Marking, CheckpointIsWhole
<1>2. CASE Upgrade
  <2>1. /\ \A f \in Trees, s \in StageNames :
             dir'[f][s].data = dir[f][s].data /\ dir'[f][s].schema = FALSE
        /\ UNCHANGED <<manifest, pc, me, shared>>
      BY <1>2, UpgradeEffect
  <2>2. Alone' /\ InHand'
      BY <1>0, <2>1 DEF Alone, InHand, InHandAt, Marking
  <2>3. \A f \in Trees : manifest[f].completed \subseteq StageNames
      BY <1>0 DEF Shapes, Manifests
  <2>4. CheckpointIsWhole'
      BY <2>1, <2>3 DEF CheckpointIsWhole
  <2> QED BY <2>2, <2>4 DEF Cache
<1>3. CASE ResetDatabase
  <2>1. UNCHANGED <<disk, pc, me, shared>>
      BY <1>3, ResetEffect
  <2> QED BY <1>0, <2>1
          DEF Cache, Alone, InHand, InHandAt, Marking, CheckpointIsWhole
<1>4. ASSUME NEW b \in Builders, Ends(b) PROVE Cache'
  <2>1. Others(b) /\ Leaves(b) /\ UNCHANGED <<disk, history>>
      BY <1>4, EndsEffect
  <2> QED BY <2>1, LeavesInHand, CacheKept
<1>5. ASSUME NEW b \in Builders, Looks(b) PROVE Cache'
  <2>1. /\ Others(b) /\ Carries(b) /\ UNCHANGED <<disk, history>>
        /\ pc[b] # "idle"
        /\ \/ pc'[b] \notin {"run", "schema", "mark"}
           \/ pc'[b] = "run" /\ me'[b].stage \notin manifest[me[b].fp].completed
           \/ pc'[b] = "schema" /\ me'[b].stage = "graph_enrichment"
      BY <1>5, LooksEffect DEF Move, Stays
  <2>2. InHandAt(b)'
      BY <2>1 DEF InHandAt, Marking, StageNames, Carries
  <2> QED BY <2>1, <2>2, CacheKept DEF Carries
<1>6. ASSUME NEW b \in Builders, Load(b) PROVE Cache'
  <2>1. /\ Others(b) /\ UNCHANGED <<disk, history>> /\ pc[b] = "load"
        /\ me'[b].fp = me[b].fp /\ pc'[b] \in {"final", "stage"}
      BY <1>6, LoadEffect
  <2>2. InHandAt(b)'
      BY <2>1 DEF InHandAt, Marking
  <2> QED BY <2>1, <2>2, CacheKept
<1>7. ASSUME NEW b \in Builders, ClearBuild(b) PROVE Cache'
  <2> PICK f \in Trees : f = me[b].fp
      BY <1>7, ClearEffect
  <2>1. /\ Others(b) /\ me'[b].fp = f /\ pc'[b] = "ping" /\ f \in Trees
        /\ OnlyManifest(f) /\ manifest'[f] = NoManifest /\ OnlyDir(f) /\ UNCHANGED history
      BY <1>7, ClearEffect DEF Stays, Carries, Move
  <2>2. InHandAt(b)' /\ WholeAt(f)'
      BY <2>1 DEF InHandAt, Marking, WholeAt, NoManifest
  <2> QED BY <2>1, <2>2, CacheOf DEF OnlyManifest, OnlyDir
<1>8. ASSUME NEW b \in Builders, SavePlaceholder(b) PROVE Cache'
  <2> PICK f \in Trees : f = me[b].fp
      BY <1>8, SeedEffect
  <2>1. /\ Others(b) /\ me'[b].fp = f /\ pc'[b] = "stage" /\ f \in Trees
        /\ OnlyManifest(f) /\ (manifest'[f] = manifest[f] \/ manifest'[f].completed = {})
        /\ UNCHANGED <<dir, history>>
      BY <1>8, SeedEffect DEF Carries, Move
  <2>2. InHandAt(b)' /\ WholeAt(f)'
      BY <1>0, <2>1 DEF InHandAt, Marking, WholeAt, CheckpointIsWhole
  <2> QED BY <2>1, <2>2, CacheOf DEF OnlyManifest
<1>9. ASSUME NEW b \in Builders, StageOutdated(b) \/ LoadRaises(b) PROVE Cache'
  <2> PICK f \in Trees : f = me[b].fp
      BY <1>9, DiscardEffect
  <2> DEFINE s == me[b].stage
  <2>1. /\ Others(b) /\ f \in Trees /\ s \in StageNames
        /\ Leaves(b) \/ (pc'[b] = "run" /\ me'[b].fp = f /\ me'[b].stage = s)
        /\ OnlyManifest(f) /\ manifest'[f].completed = manifest[f].completed \ {s}
        /\ OnlyDir(f) /\ \A q \in StageNames \ {s} : dir'[f][q] = dir[f][q]
        /\ UNCHANGED history
      BY <1>9, DiscardEffect DEF Stays, Carries, Move
  <2>2. manifest[f].completed \subseteq StageNames
      BY <1>0, <2>1 DEF Shapes, Manifests
  <2>3. WholeAt(f)'
      BY <1>0, <2>1, <2>2 DEF WholeAt, CheckpointIsWhole
  <2>4. CASE Leaves(b)
      BY <2>1, <2>3, <2>4, LeavesInHand, CacheOf DEF OnlyManifest, OnlyDir
  <2>5. CASE pc'[b] = "run" /\ me'[b].fp = f /\ me'[b].stage = s
    <3>1. InHandAt(b)'
        BY <2>1, <2>5 DEF InHandAt, Marking
    <3> QED BY <2>1, <2>3, <2>5, <3>1, CacheOf DEF OnlyManifest, OnlyDir
  <2> QED BY <2>1, <2>4, <2>5
<1>10. ASSUME NEW b \in Builders, Run(b) PROVE Cache'
  <2> PICK f \in Trees : f = me[b].fp
      BY <1>10, RunEffect
  <2> DEFINE s == me[b].stage
  <2>1. /\ Others(b) /\ f \in Trees /\ s \in StageNames
        /\ pc[b] = "run" /\ pc'[b] = "schema" /\ me'[b].fp = f /\ me'[b].stage = s
        /\ OnlyDir(f) /\ dir'[f][s].data = "whole"
        /\ \A q \in StageNames \ {s} : dir'[f][q] = dir[f][q]
        /\ UNCHANGED <<manifest, history>>
      BY <1>10, RunEffect DEF Move
  <2>2. InHandAt(b)'
      BY <2>1 DEF InHandAt, Marking
  <2>3. manifest[f].completed \subseteq StageNames
      BY <1>0, <2>1 DEF Shapes, Manifests
  <2>4. WholeAt(f)'
      BY <1>0, <2>1, <2>3 DEF WholeAt, CheckpointIsWhole
  <2> QED BY <2>1, <2>2, <2>4, CacheOf DEF OnlyDir
<1>11. ASSUME NEW b \in Builders, MarkRead(b) PROVE Cache'
  <2> PICK f \in Trees : f = me[b].fp
      BY <1>11, MarkReadEffect
  <2> DEFINE s == me[b].stage
  <2>1. /\ Others(b) /\ f \in Trees
        /\ pc[b] = "schema" /\ pc'[b] = "mark" /\ me'[b].fp = f /\ me'[b].stage = s
        /\ me'[b].read = manifest[f] /\ OnlyDir(f)
        /\ \A q \in StageNames :
             /\ dir'[f][q].data = dir[f][q].data
             /\ q # s => dir'[f][q].schema = dir[f][q].schema
        /\ UNCHANGED <<manifest, history>>
      BY <1>11, MarkReadEffect DEF Move
  <2>2. InHandAt(b)
      BY <1>0 DEF InHand
  <2>3. InHandAt(b)'
      BY <2>1, <2>2 DEF InHandAt, Marking
  <2>4. manifest[f].completed \subseteq StageNames
      BY <1>0, <2>1 DEF Shapes, Manifests
  <2>5. WholeAt(f)'
      BY <1>0, <2>1, <2>2, <2>4 DEF WholeAt, CheckpointIsWhole, InHandAt, Marking
  <2> QED BY <2>1, <2>3, <2>5, CacheOf DEF OnlyDir
<1>12. ASSUME NEW b \in Builders, MarkWrite(b) PROVE Cache'
  <2> PICK f \in Trees : f = me[b].fp
      BY <1>12, MarkWriteEffect
  <2> DEFINE s == me[b].stage
  <2>1. /\ Others(b) /\ f \in Trees /\ pc[b] = "mark" /\ me'[b].fp = f
        /\ pc'[b] \in {"final", "stage", "enrich", "return"}
        /\ OnlyManifest(f)
        /\ manifest'[f].completed = me[b].read.completed \cup ({s} \cap StageNames)
        /\ UNCHANGED <<dir, history>>
      BY <1>12, MarkWriteEffect
  <2>2. InHandAt(b)
      BY <1>0 DEF InHand
  <2>3. InHandAt(b)'
      BY <2>1 DEF InHandAt, Marking
  <2>4. WholeAt(f)'
      BY <1>0, <2>1, <2>2 DEF WholeAt, CheckpointIsWhole, InHandAt, Marking
  <2> QED BY <2>1, <2>3, <2>4, CacheOf DEF OnlyManifest
<1>13. ASSUME NEW b \in Builders, BeginBuild(b) \/ WriteChunk(b) \/ Finalize(b) PROVE Cache'
  <2>1. /\ Others(b) /\ UNCHANGED <<disk, history>> /\ pc[b] # "idle"
        /\ me'[b].fp = me[b].fp
        /\ \/ pc'[b] \in {"write", "finalize"}
           \/ pc'[b] = "schema" /\ me'[b].stage = "canonical_finalize"
    <3>1. CASE BeginBuild(b)
        BY <3>1, BeginEffect DEF Stays, Carries, Move
    <3>2. CASE WriteChunk(b)
        BY <3>2, WriteEffect
    <3>3. CASE Finalize(b)
        BY <3>3, FinalizeEffect DEF Carries, Move
    <3> QED BY <1>13, <3>1, <3>2, <3>3
  <2>2. InHandAt(b)'
      BY <2>1 DEF InHandAt, Marking, StageNames
  <2> QED BY <2>1, <2>2, CacheKept
<1>14. ASSUME NEW b \in Builders, Crash(b) PROVE Cache'
  <2> PICK f \in Trees : f = me[b].fp
      BY <1>14, CrashEffect
  <2> DEFINE s == me[b].stage
  <2>1. /\ Others(b) /\ Leaves(b) /\ f \in Trees /\ UNCHANGED history
        /\ \/ UNCHANGED disk
           \/ OnlyManifest(f) /\ manifest'[f] = TornManifest /\ UNCHANGED dir
           \/ /\ pc[b] = "run" /\ s \in StageNames /\ UNCHANGED manifest
              /\ OnlyDir(f) /\ \A q \in StageNames \ {s} : dir'[f][q] = dir[f][q]
      BY <1>14, CrashEffect
  <2>2. InHandAt(b)
      BY <1>0 DEF InHand
  <2>3. manifest[f].completed \subseteq StageNames
      BY <1>0, <2>1 DEF Shapes, Manifests
  <2>4. WholeAt(f)'
    <3>1. CASE UNCHANGED disk
        BY <1>0, <2>1, <3>1 DEF WholeAt, CheckpointIsWhole
    <3>2. CASE manifest'[f] = TornManifest
        BY <3>2 DEF WholeAt, TornManifest, NoManifest
    <3>3. CASE /\ pc[b] = "run" /\ s \in StageNames /\ UNCHANGED manifest
               /\ OnlyDir(f) /\ \A q \in StageNames \ {s} : dir'[f][q] = dir[f][q]
        BY <1>0, <2>1, <2>2, <2>3, <3>3 DEF WholeAt, CheckpointIsWhole, InHandAt
    <3> QED BY <2>1, <3>1, <3>2, <3>3
  <2>5. \A g \in Trees \ {f} : manifest'[g] = manifest[g] /\ dir'[g] = dir[g]
      BY <2>1 DEF OnlyManifest, OnlyDir
  <2> QED BY <2>1, <2>4, <2>5, LeavesInHand, CacheOf
<1>15. ASSUME NEW b \in Builders, CrashInClear(b) PROVE Cache'
  <2> PICK f \in Trees : f = me[b].fp
      BY <1>15, CrashInClearEffect
  <2>1. /\ Others(b) /\ Leaves(b) /\ f \in Trees /\ OnlyManifest(f) /\ OnlyDir(f)
        /\ shared' = shared \cup {f}
      BY <1>15, CrashInClearEffect
  <2>2. WholeAt(f)'
      BY <2>1 DEF WholeAt
  <2> QED BY <2>1, <2>2, LeavesInHand, CacheOf DEF OnlyManifest, OnlyDir
<1>16. ASSUME NEW b \in Builders, NEW force \in BOOLEAN, Start(b, force) PROVE Cache'
  <2>1. /\ Others(b) /\ Move(b, "idle", "check") /\ me'[b].fp = tree
        /\ shared' = shared \cup {f \in {tree} : InUse(f)} /\ UNCHANGED disk
      BY <1>16, StartEffect
  <2>2. me[b].fp = NoTree /\ NoTree \notin Trees
      BY <1>0, <2>1, TreesAssumption DEF Placed, PlacedAt, Move
  <2>3. Alone'
      BY <1>0, <2>1, <2>2 DEF Alone, Others, InUse
  <2>4. InHand'
      BY <1>0, <2>1 DEF InHand, InHandAt, Marking, Others, Move
  <2>5. CheckpointIsWhole'
      BY <1>0, <2>1 DEF CheckpointIsWhole
  <2> QED BY <2>3, <2>4, <2>5 DEF Cache
<1> QED BY <1>1, <1>2, <1>3, <1>4, <1>5, <1>6, <1>7, <1>8, <1>9, <1>10, <1>11,
           <1>12, <1>13, <1>14, <1>15, <1>16, StepCases

(***************************************************************************)
(* Where results come from.  At a fingerprint whose tree was not edited    *)
(* under a process, everything read or stored is of that tree.             *)
(***************************************************************************)
FreshAt(b) ==
    LET r == me[b] IN
    r.fp \in Trees \ edited =>
        /\ tree = r.fp /\ r.parsed \in {NoTree, r.fp}
        /\ \A s \in StageNames : Got(r, s) \in {NoTree, r.fp}
FreshDir(f) ==
    f \notin edited => \A s \in StageNames : dir[f][s].data = "whole" => dir[f][s].of = f
Fresh == (\A b \in Builders : FreshAt(b)) /\ (\A f \in Trees : FreshDir(f))

LEMMA FreshInit == Init => Fresh
<1> SUFFICES ASSUME Init PROVE Fresh
    OBVIOUS
<1>1. \A b \in Builders : me[b].fp = NoTree
    BY DEF Init, Idle
<1>2. \A f \in Trees, s \in StageNames : dir[f][s].data = "none"
    BY DEF Init, NoDir
<1> QED BY <1>1, <1>2, TreesAssumption DEF Fresh, FreshAt, FreshDir

LEMMA FreshOf ==
    ASSUME Typed, Fresh, NEW b \in Builders, Others(b), UNCHANGED <<tree, edited>>,
           NEW f \in Trees, \A g \in Trees \ {f} : dir'[g] = dir[g],
           FreshAt(b)', FreshDir(f)'
    PROVE  Fresh'
<1>1. ASSUME NEW c \in Builders \ {b} PROVE FreshAt(c)'
  <2>1. me'[c] = me[c] /\ FreshAt(c)
      BY DEF Others, Fresh
  <2> QED BY <2>1 DEF FreshAt
<1>2. ASSUME NEW g \in Trees \ {f} PROVE FreshDir(g)'
  <2>1. dir'[g] = dir[g] /\ FreshDir(g)
      BY DEF Fresh
  <2> QED BY <2>1 DEF FreshDir
<1> QED BY <1>1, <1>2 DEF Fresh

LEMMA FreshKept ==
    ASSUME Typed, Fresh, NEW b \in Builders, Others(b), UNCHANGED <<tree, edited, dir>>,
           FreshAt(b)'
    PROVE  Fresh'
<1>1. ASSUME NEW f \in Trees PROVE FreshDir(f)'
    BY DEF Fresh, FreshDir
<1>2. ASSUME NEW c \in Builders \ {b} PROVE FreshAt(c)'
  <2>1. me'[c] = me[c] /\ FreshAt(c)
      BY DEF Others, Fresh
  <2> QED BY <2>1 DEF FreshAt
<1> QED BY <1>1, <1>2 DEF Fresh

LEMMA LeavesFresh ==
    ASSUME NEW b \in Builders, Leaves(b)
    PROVE  FreshAt(b)'
BY TreesAssumption DEF Leaves, FreshAt, Idle

\* The process goes on with the same results.
LEMMA SameFresh ==
    ASSUME Fresh, NEW b \in Builders, UNCHANGED <<tree, edited>>,
           me'[b].fp = me[b].fp, me'[b].parsed = me[b].parsed,
           \A q \in StageNames : Got(me'[b], q) = Got(me[b], q)
    PROVE  FreshAt(b)'
<1>1. FreshAt(b)
    BY DEF Fresh
<1> QED BY <1>1 DEF FreshAt

LEMMA FreshStep == ASSUME Typed, Fresh, [Next]_vars PROVE Fresh'
<1>0. Shapes /\ Placed /\ NoTree \notin Trees
    BY TreesAssumption DEF Typed
<1>f. \A b \in Builders : FreshAt(b)
    BY DEF Fresh
<1>d. \A f \in Trees : FreshDir(f)
    BY DEF Fresh
<1>1. CASE Around
  <2>1. /\ UNCHANGED <<dir, me>>
        /\ \/ tree' = tree /\ edited' = edited
           \/ edited' = edited \cup {f \in Trees : InUse(f)}
      BY <1>1, AroundEffect
  <2>2. CASE tree' = tree /\ edited' = edited
      BY <2>1, <2>2 DEF Fresh, FreshAt, FreshDir
  <2>3. CASE edited' = edited \cup {f \in Trees : InUse(f)}
    <3>1. \A b \in Builders : FreshAt(b)'
        BY <2>1, <2>3 DEF FreshAt, InUse
    <3>2. \A f \in Trees : FreshDir(f)'
        BY <1>d, <2>1, <2>3 DEF FreshDir
    <3> QED BY <3>1, <3>2 DEF Fresh
  <2> QED BY <2>1, <2>2, <2>3
<1>2. CASE Upgrade
  <2>1. /\ \A f \in Trees, s \in StageNames :
             dir'[f][s].data = dir[f][s].data /\ dir'[f][s].of = dir[f][s].of
        /\ UNCHANGED <<tree, edited, me>>
      BY <1>2, UpgradeEffect
  <2> QED BY <2>1 DEF Fresh, FreshAt, FreshDir
<1>3. CASE ResetDatabase
  <2>1. UNCHANGED <<tree, edited, dir, me>>
      BY <1>3, ResetEffect
  <2> QED BY <2>1 DEF Fresh, FreshAt, FreshDir
<1>4. ASSUME NEW b \in Builders, Ends(b) PROVE Fresh'
    BY <1>4, EndsEffect, LeavesFresh, FreshKept
<1>5. ASSUME NEW b \in Builders, Looks(b) PROVE Fresh'
  <2>1. Others(b) /\ Carries(b) /\ UNCHANGED <<tree, edited, dir>>
      BY <1>5, LooksEffect
  <2>2. FreshAt(b)'
      BY <2>1, CarriesGot, SameFresh DEF Carries
  <2> QED BY <2>1, <2>2, FreshKept
<1>6. ASSUME NEW b \in Builders, Load(b) PROVE Fresh'
  <2> PICK f \in Trees : f = me[b].fp
      BY <1>6, LoadEffect
  <2> DEFINE s == me[b].stage
  <2>1. /\ Others(b) /\ UNCHANGED <<tree, edited, dir>> /\ s \in StageNames
        /\ dir[f][s].data = "whole" /\ me'[b].fp = f /\ me'[b].parsed = me[b].parsed
        /\ \A q \in StageNames :
             Got(me'[b], q) = IF q = s THEN dir[f][s].of ELSE Got(me[b], q)
      BY <1>6, LoadEffect
  <2>2. FreshAt(b) /\ FreshDir(f)
      BY <1>f, <1>d
  <2>3. FreshAt(b)'
      BY <2>1, <2>2 DEF FreshAt, FreshDir
  <2> QED BY <2>1, <2>3, FreshKept
<1>7. ASSUME NEW b \in Builders, ClearBuild(b) PROVE Fresh'
  <2> PICK f \in Trees : f = me[b].fp
      BY <1>7, ClearEffect
  <2>1. /\ Others(b) /\ Carries(b) /\ UNCHANGED <<tree, edited>>
        /\ OnlyDir(f) /\ \A s \in StageNames : dir'[f][s] = NoDir
      BY <1>7, ClearEffect DEF Stays
  <2>2. FreshAt(b)'
      BY <2>1, CarriesGot, SameFresh DEF Carries
  <2>3. FreshDir(f)'
      BY <2>1 DEF FreshDir, NoDir
  <2> QED BY <2>1, <2>2, <2>3, FreshOf DEF OnlyDir
<1>8. ASSUME NEW b \in Builders, SavePlaceholder(b) PROVE Fresh'
  <2>1. Others(b) /\ Carries(b) /\ UNCHANGED <<tree, edited, dir>>
      BY <1>8, SeedEffect
  <2>2. FreshAt(b)'
      BY <2>1, CarriesGot, SameFresh DEF Carries
  <2> QED BY <2>1, <2>2, FreshKept
<1>9. ASSUME NEW b \in Builders, StageOutdated(b) \/ LoadRaises(b) PROVE Fresh'
  <2> PICK f \in Trees : f = me[b].fp
      BY <1>9, DiscardEffect
  <2> DEFINE s == me[b].stage
  <2>1. /\ Others(b) /\ s \in StageNames /\ (Leaves(b) \/ Carries(b))
        /\ OnlyDir(f) /\ dir'[f][s] = NoDir
        /\ \A q \in StageNames \ {s} : dir'[f][q] = dir[f][q]
        /\ UNCHANGED <<tree, edited>>
      BY <1>9, DiscardEffect DEF Stays
  <2>2. FreshAt(b)'
    <3>1. CASE Leaves(b)
        BY <3>1, LeavesFresh
    <3>2. CASE Carries(b)
        BY <2>1, <3>2, CarriesGot, SameFresh DEF Carries
    <3> QED BY <2>1, <3>1, <3>2
  <2>3. FreshDir(f)'
      BY <1>d, <2>1 DEF FreshDir, NoDir
  <2> QED BY <2>1, <2>2, <2>3, FreshOf DEF OnlyDir
<1>10. ASSUME NEW b \in Builders, Run(b) PROVE Fresh'
  <2> PICK f \in Trees : f = me[b].fp
      BY <1>10, RunEffect
  <2> DEFINE s == me[b].stage
             t == ResultOf(me[b])
  <2>1. /\ Others(b) /\ s \in StageNames
        /\ me'[b].fp = f /\ me'[b].parsed \in {me[b].parsed, t}
        /\ \A q \in StageNames : Got(me'[b], q) = IF q = s THEN t ELSE Got(me[b], q)
        /\ OnlyDir(f) /\ dir'[f][s].of = t
        /\ \A q \in StageNames \ {s} : dir'[f][q] = dir[f][q]
        /\ UNCHANGED <<tree, edited>>
      BY <1>10, RunEffect
  <2>2. f \notin edited => t = f
    <3>1. FreshAt(b)
        BY <1>f
    <3> QED BY <3>1 DEF FreshAt, ResultOf
  <2> HIDE DEF t
  <2>3. FreshAt(b)'
      BY <1>f, <2>1, <2>2 DEF FreshAt
  <2>4. FreshDir(f)'
      BY <1>d, <2>1, <2>2 DEF FreshDir
  <2> QED BY <2>1, <2>3, <2>4, FreshOf DEF OnlyDir
<1>11. ASSUME NEW b \in Builders, MarkRead(b) PROVE Fresh'
  <2> PICK f \in Trees : f = me[b].fp
      BY <1>11, MarkReadEffect
  <2>1. /\ Others(b) /\ me'[b].fp = f /\ me'[b].parsed = me[b].parsed
        /\ \A q \in StageNames : Got(me'[b], q) = Got(me[b], q)
        /\ OnlyDir(f)
        /\ \A q \in StageNames :
             dir'[f][q].data = dir[f][q].data /\ dir'[f][q].of = dir[f][q].of
        /\ UNCHANGED <<tree, edited>>
      BY <1>11, MarkReadEffect
  <2>2. FreshAt(b)'
      BY <2>1, SameFresh
  <2>3. FreshDir(f)'
      BY <1>d, <2>1 DEF FreshDir
  <2> QED BY <2>1, <2>2, <2>3, FreshOf DEF OnlyDir
<1>12. ASSUME NEW b \in Builders, MarkWrite(b) PROVE Fresh'
  <2>1. /\ Others(b) /\ me'[b].fp = me[b].fp /\ me'[b].parsed = me[b].parsed
        /\ \A q \in StageNames : Got(me'[b], q) = Got(me[b], q)
        /\ UNCHANGED <<tree, edited, dir>>
      BY <1>12, MarkWriteEffect
  <2> QED BY <2>1, SameFresh, FreshKept
<1>13. ASSUME NEW b \in Builders, BeginBuild(b) \/ Finalize(b) PROVE Fresh'
  <2>1. Others(b) /\ Carries(b) /\ UNCHANGED <<tree, edited, dir>>
      BY <1>13, BeginEffect, FinalizeEffect DEF Stays
  <2>2. FreshAt(b)'
      BY <2>1, CarriesGot, SameFresh DEF Carries
  <2> QED BY <2>1, <2>2, FreshKept
<1>14. ASSUME NEW b \in Builders, WriteChunk(b) PROVE Fresh'
  <2>1. /\ Others(b) /\ me'[b].fp = me[b].fp /\ me'[b].parsed = me[b].parsed
        /\ \A q \in StageNames : Got(me'[b], q) = Got(me[b], q)
        /\ UNCHANGED <<tree, edited, dir>>
      BY <1>14, WriteEffect
  <2> QED BY <2>1, SameFresh, FreshKept
<1>15. ASSUME NEW b \in Builders, Crash(b) PROVE Fresh'
  <2> PICK f \in Trees : f = me[b].fp
      BY <1>15, CrashEffect
  <2> DEFINE s == me[b].stage
  <2>1. /\ Others(b) /\ Leaves(b) /\ UNCHANGED <<tree, edited>>
        /\ \/ UNCHANGED dir
           \/ /\ OnlyDir(f) /\ dir'[f][s].data = "torn"
              /\ \A q \in StageNames \ {s} : dir'[f][q] = dir[f][q]
      BY <1>15, CrashEffect
  <2>2. FreshDir(f)'
      BY <1>d, <2>1 DEF FreshDir
  <2> QED BY <2>1, <2>2, LeavesFresh, FreshOf DEF OnlyDir
<1>16. ASSUME NEW b \in Builders, CrashInClear(b) PROVE Fresh'
  <2> PICK f \in Trees : f = me[b].fp
      BY <1>16, CrashInClearEffect
  <2>1. /\ Others(b) /\ Leaves(b) /\ OnlyDir(f) /\ UNCHANGED <<tree, edited>>
        /\ \A s \in StageNames : dir'[f][s] \in {dir[f][s], NoDir}
      BY <1>16, CrashInClearEffect
  <2>2. FreshDir(f)'
      BY <1>d, <2>1 DEF FreshDir, NoDir
  <2> QED BY <2>1, <2>2, LeavesFresh, FreshOf DEF OnlyDir
<1>17. ASSUME NEW b \in Builders, NEW force \in BOOLEAN, Start(b, force) PROVE Fresh'
  <2>1. /\ Others(b) /\ UNCHANGED <<tree, edited, dir>> /\ me'[b].fp = tree
        /\ me'[b].parsed = NoTree
        /\ \A s \in StageNames : Got(me'[b], s) = NoTree
      BY <1>17, StartEffect DEF Got
  <2>2. FreshAt(b)'
      BY <2>1 DEF FreshAt
  <2> QED BY <2>1, <2>2, FreshKept
<1> QED BY <1>1, <1>2, <1>3, <1>4, <1>5, <1>6, <1>7, <1>8, <1>9, <1>10, <1>11,
           <1>12, <1>13, <1>14, <1>15, <1>16, <1>17, StepCases

(***************************************************************************)
(* What is published.  A process has written every kind before the one it  *)
(* is at, unless the database was reset under it; a build that is ready    *)
(* holds all its payload.                                                  *)
(***************************************************************************)
BeforeWrite(b) ==
    \/ pc[b] \in {"check", "ping", "seed", "stage", "load", "run", "final", "begin"}
    \/ Marking(b) /\ me[b].stage \in StageNames
WrittenAt(b) ==
    LET r == me[b] IN
    /\ BeforeWrite(b) => r.next = 1
    /\ r.fp \in Trees \ lost =>
         /\ pc[b] = "write" =>
              \A j \in 1..(r.next - 1) : RecordsOf(r, WriteOrder[j]) \subseteq db[r.fp].recs
         /\ pc[b] = "finalize" => Graph(r) \subseteq db[r.fp].recs
CompleteAt(f) ==
    /\ IsFiniteSet(db[f].recs)
    /\ HasBuild(f) /\ f \notin lost =>
         /\ db[f].payload # {} /\ db[f].payload \subseteq db[f].recs
         /\ f \notin edited => \A rec \in db[f].payload : rec[2] = f
Published == (\A b \in Builders : WrittenAt(b)) /\ (\A f \in Trees : CompleteAt(f))

LEMMA PublishedInit == Init => Published
<1> SUFFICES ASSUME Init PROVE Published
    OBVIOUS
<1>1. \A b \in Builders : me[b] = Idle /\ pc[b] = "idle"
    BY DEF Init
<1>2. \A f \in Trees : db[f].status = "none" /\ db[f].recs = {}
    BY DEF Init, EmptyBuild
<1>3. \A b \in Builders : WrittenAt(b)
    BY <1>1 DEF WrittenAt, BeforeWrite, Marking
<1>4. \A f \in Trees : CompleteAt(f)
    BY <1>2, FS_EmptySet DEF CompleteAt, HasBuild
<1> QED BY <1>3, <1>4 DEF Published

LEMMA SameRecords ==
    ASSUME NEW b \in Builders, me'[b].sinks = me[b].sinks,
           \A q \in StageNames : Got(me'[b], q) = Got(me[b], q)
    PROVE  /\ \A k : RecordsOf(me'[b], k) = RecordsOf(me[b], k)
           /\ Graph(me'[b]) = Graph(me[b])
<1>1. /\ me'[b].files = me[b].files /\ me'[b].calls = me[b].calls
      /\ me'[b].funcs = me[b].funcs
    BY DEF Got, StageNames
<1>2. \A k : TreeOf(me'[b], k) = TreeOf(me[b], k)
    BY <1>1 DEF TreeOf
<1>3. \A k : RecordsOf(me'[b], k) = RecordsOf(me[b], k)
    BY <1>2 DEF RecordsOf
<1> QED BY <1>3 DEF Graph

\* The records of a build only grow, so what others have written stays.
LEMMA WrittenOthers ==
    ASSUME Published, NEW b \in Builders, Others(b), lost \subseteq lost',
           \A g \in Trees : db[g].recs \subseteq db'[g].recs, WrittenAt(b)'
    PROVE  \A c \in Builders : WrittenAt(c)'
<1> SUFFICES ASSUME NEW c \in Builders \ {b} PROVE WrittenAt(c)'
    OBVIOUS
<1>1. WrittenAt(c) /\ pc'[c] = pc[c] /\ me'[c] = me[c]
    BY DEF Published, Others
<1>2. (BeforeWrite(c) => me[c].next = 1)'
    BY <1>1 DEF WrittenAt, BeforeWrite, Marking
<1>3. ASSUME me[c].fp \in Trees \ lost'
      PROVE  /\ pc[c] = "write" =>
                  \A j \in 1..(me[c].next - 1) :
                      RecordsOf(me[c], WriteOrder[j]) \subseteq db'[me[c].fp].recs
             /\ pc[c] = "finalize" => Graph(me[c]) \subseteq db'[me[c].fp].recs
  <2>1. db[me[c].fp].recs \subseteq db'[me[c].fp].recs /\ me[c].fp \in Trees \ lost
      BY <1>3
  <2> QED BY <1>1, <2>1 DEF WrittenAt
<1> QED BY <1>1, <1>2, <1>3 DEF WrittenAt

LEMMA PublishedKept ==
    ASSUME Published, NEW b \in Builders, Others(b), UNCHANGED <<db, lost, edited>>,
           WrittenAt(b)'
    PROVE  Published'
<1>1. \A c \in Builders : WrittenAt(c)'
    BY WrittenOthers
<1>2. \A f \in Trees : CompleteAt(f)'
    BY DEF Published, CompleteAt, HasBuild
<1> QED BY <1>1, <1>2 DEF Published

\* A step to a place where nothing is claimed, or before the writing.
LEMMA NotWriting ==
    ASSUME NEW b \in Builders, pc'[b] \notin {"write", "finalize"},
           BeforeWrite(b)' => me'[b].next = 1
    PROVE  WrittenAt(b)'
BY DEF WrittenAt

LEMMA LeavesWritten ==
    ASSUME NEW b \in Builders, Leaves(b) PROVE WrittenAt(b)'
BY DEF Leaves, Idle, WrittenAt, BeforeWrite, Marking

\* Every record of the next kind finds the nodes it is linked to.
LEMMA AllLinked ==
    ASSUME NEW r \in Memories, \A s \in StageNames : Got(r, s) \in Trees,
           NEW recs,
           \A j \in 1..(r.next - 1) : RecordsOf(r, WriteOrder[j]) \subseteq recs
    PROVE  \A rec \in RecordsOf(r, WriteOrder[r.next]) : Linked(rec, recs)
<1>1. r.next \in 1..6
    BY DEF Memories
<1>2. WriteOrder[r.next] \in Kinds
    BY <1>1, Constants DEF Kinds
<1> SUFFICES ASSUME NEW rec \in RecordsOf(r, WriteOrder[r.next]), NEW k \in Needs(rec[1])
             PROVE  \E q \in recs : q[1] = k /\ q[3] \in {rec[3], Parsed}
    BY DEF Linked
<1>3. rec[1] = WriteOrder[r.next]
  <2> PICK w \in Kinds : w = WriteOrder[r.next]
      BY <1>2
  <2>1. \A x \in RecordsOf(r, w) : x[1] = w
      BY DEF RecordsOf
  <2> QED BY <2>1
<1>4. \E j \in 1..(r.next - 1) : WriteOrder[j] = k
  <2>1. CASE r.next = 1
      BY <1>3, <2>1, KindFacts DEF Needs
  <2>2. CASE r.next = 2
      BY <1>3, <2>2, KindFacts DEF Needs
  <2>3. CASE r.next = 3
      BY <1>3, <2>3, KindFacts DEF Needs
  <2>4. CASE r.next = 4
      BY <1>3, <2>4, KindFacts DEF Needs
  <2>5. CASE r.next = 5
      BY <1>3, <2>5, KindFacts DEF Needs
  <2>6. CASE r.next = 6
      BY <1>3, <2>6, KindFacts DEF Needs
  <2> QED BY <1>1, <2>1, <2>2, <2>3, <2>4, <2>5, <2>6
<1>5. PICK j \in 1..(r.next - 1) : WriteOrder[j] = k
    BY <1>4
<1>6. k \in Kinds
    BY <1>1, <1>5, Constants DEF Kinds
<1>7. <<k, TreeOf(r, k), Parsed>> \in RecordsOf(r, k)
    BY <1>6, RecordFacts
<1>8. <<k, TreeOf(r, k), Parsed>> \in recs
    BY <1>5, <1>7
<1> QED BY <1>8

LEMMA PublishedStep == ASSUME Typed, Fresh, Published, [Next]_vars PROVE Published'
<1>0. Shapes /\ Placed /\ NoTree \notin Trees
    BY TreesAssumption DEF Typed
<1>w. \A b \in Builders : WrittenAt(b)
    BY DEF Published
<1>c. \A f \in Trees : CompleteAt(f)
    BY DEF Published
<1>1. CASE Around
  <2>1. UNCHANGED <<db, pc, me, lost>> /\ edited \subseteq edited'
      BY <1>1, AroundEffect
  <2>2. \A b \in Builders : WrittenAt(b)'
      BY <1>w, <2>1 DEF WrittenAt, BeforeWrite, Marking
  <2>3. \A f \in Trees : CompleteAt(f)'
      BY <1>c, <2>1 DEF CompleteAt, HasBuild
  <2> QED BY <2>2, <2>3 DEF Published
<1>2. CASE Upgrade
  <2>1. UNCHANGED <<db, pc, me, lost, edited>>
      BY <1>2, UpgradeEffect
  <2> QED BY <1>w, <1>c, <2>1
          DEF Published, WrittenAt, BeforeWrite, Marking, CompleteAt, HasBuild
<1>3. CASE ResetDatabase
  <2>1. /\ \A f \in Trees : db'[f] = EmptyBuild
        /\ lost' = lost \cup {f \in Trees :
                     InUse(f) \/ (manifest[f].ready /\ ~IsBuildReusable(f))}
        /\ UNCHANGED <<pc, me>>
      BY <1>3, ResetEffect
  <2>2. \A b \in Builders : me[b].fp \in Trees => me[b].fp \in lost'
      BY <2>1 DEF InUse
  <2>3. \A b \in Builders : WrittenAt(b)'
      BY <1>w, <2>1, <2>2 DEF WrittenAt, BeforeWrite, Marking
  <2>4. \A f \in Trees : db'[f].recs = {} /\ db'[f].status = "none"
      BY <2>1 DEF EmptyBuild
  <2>5. \A f \in Trees : CompleteAt(f)'
      BY <2>4, FS_EmptySet DEF CompleteAt, HasBuild
  <2> QED BY <2>3, <2>5 DEF Published
<1>4. ASSUME NEW b \in Builders, Ends(b) PROVE Published'
    BY <1>4, EndsEffect, LeavesWritten, PublishedKept
<1>5. ASSUME NEW b \in Builders, Looks(b) PROVE Published'
  <2>1. /\ Others(b) /\ Carries(b) /\ UNCHANGED <<db, lost, edited>>
        /\ pc'[b] \notin {"write", "finalize"}
        /\ \/ BeforeWrite(b)
           \/ pc'[b] = "return" 
           \/ pc'[b] = "schema" /\ me'[b].stage = "graph_enrichment"
      BY <1>5, LooksEffect DEF Move, BeforeWrite
  <2>2. BeforeWrite(b)' => me'[b].next = 1
      BY <1>w, <2>1 DEF WrittenAt, BeforeWrite, Marking, StageNames, Carries
  <2> QED BY <2>1, <2>2, NotWriting, PublishedKept
<1>6. ASSUME NEW b \in Builders, Load(b) PROVE Published'
  <2>1. /\ Others(b) /\ UNCHANGED <<db, lost, edited>> /\ pc[b] = "load"
        /\ me'[b].next = me[b].next /\ pc'[b] \in {"final", "stage"}
      BY <1>6, LoadEffect
  <2>2. me'[b].next = 1
      BY <1>w, <2>1 DEF WrittenAt, BeforeWrite
  <2> QED BY <2>1, <2>2, NotWriting, PublishedKept
<1>7. ASSUME NEW b \in Builders, ClearBuild(b) \/ SavePlaceholder(b) PROVE Published'
  <2>1. /\ Others(b) /\ UNCHANGED <<db, lost, edited>> /\ pc[b] \in {"check", "seed"}
        /\ me'[b].next = me[b].next /\ pc'[b] \in {"ping", "stage"}
    <3>1. CASE ClearBuild(b)
        BY <3>1, ClearEffect DEF Stays, Carries, Move
    <3>2. CASE SavePlaceholder(b)
        BY <3>2, SeedEffect DEF Carries, Move
    <3> QED BY <1>7, <3>1, <3>2
  <2>2. me'[b].next = 1
      BY <1>w, <2>1 DEF WrittenAt, BeforeWrite
  <2> QED BY <2>1, <2>2, NotWriting, PublishedKept
<1>8. ASSUME NEW b \in Builders, StageOutdated(b) \/ LoadRaises(b) PROVE Published'
  <2>1. /\ Others(b) /\ UNCHANGED <<db, lost, edited>>
        /\ Leaves(b) \/ (Stays(b) /\ Move(b, "stage", "run"))
      BY <1>8, DiscardEffect
  <2>2. CASE Leaves(b)
      BY <2>1, <2>2, LeavesWritten, PublishedKept
  <2>3. CASE Stays(b) /\ Move(b, "stage", "run")
    <3>1. me'[b].next = 1 /\ pc'[b] = "run"
        BY <1>w, <2>3 DEF WrittenAt, BeforeWrite, Stays, Carries, Move
    <3> QED BY <2>1, <3>1, NotWriting, PublishedKept
  <2> QED BY <2>1, <2>2, <2>3
<1>9. ASSUME NEW b \in Builders, Run(b) PROVE Published'
  <2>1. /\ Others(b) /\ UNCHANGED <<db, lost, edited>> /\ pc[b] = "run"
        /\ me'[b].next = me[b].next /\ pc'[b] = "schema"
      BY <1>9, RunEffect DEF Move
  <2>2. me'[b].next = 1
      BY <1>w, <2>1 DEF WrittenAt, BeforeWrite
  <2> QED BY <2>1, <2>2, NotWriting, PublishedKept
<1>10. ASSUME NEW b \in Builders, MarkRead(b) PROVE Published'
  <2>1. /\ Others(b) /\ UNCHANGED <<db, lost, edited>> /\ pc[b] = "schema"
        /\ me'[b].next = me[b].next /\ pc'[b] = "mark" /\ me'[b].stage = me[b].stage
      BY <1>10, MarkReadEffect DEF Move
  <2>2. BeforeWrite(b)' => me'[b].next = 1
      BY <1>w, <2>1 DEF WrittenAt, BeforeWrite, Marking
  <2> QED BY <2>1, <2>2, NotWriting, PublishedKept
<1>11. ASSUME NEW b \in Builders, MarkWrite(b) PROVE Published'
  <2>1. /\ Others(b) /\ UNCHANGED <<db, lost, edited>> /\ pc[b] = "mark"
        /\ me'[b].next = me[b].next
        /\ \/ me[b].stage \in StageNames /\ pc'[b] \in {"final", "stage"}
           \/ pc'[b] \in {"enrich", "return"}
      BY <1>11, MarkWriteEffect
  <2>2. BeforeWrite(b)' => me'[b].next = 1
      BY <1>w, <2>1 DEF WrittenAt, BeforeWrite, Marking
  <2> QED BY <2>1, <2>2, NotWriting, PublishedKept
<1>12. ASSUME NEW b \in Builders, BeginBuild(b) PROVE Published'
  <2> PICK f \in Trees : f = me[b].fp
      BY <1>12, BeginEffect
  <2>1. /\ Others(b) /\ Stays(b) /\ Move(b, "begin", "write")
        /\ OnlyBuild(f) /\ db'[f].status = "building" /\ db'[f].recs = db[f].recs
        /\ UNCHANGED <<lost, edited>>
      BY <1>12, BeginEffect
  <2>2. me'[b].next = 1 /\ pc'[b] = "write"
      BY <1>w, <2>1 DEF WrittenAt, BeforeWrite, Stays, Carries, Move
  <2>3. WrittenAt(b)'
      BY <2>2 DEF WrittenAt
  <2>4. \A g \in Trees : db[g].recs \subseteq db'[g].recs
      BY <2>1 DEF OnlyBuild
  <2>5. \A c \in Builders : WrittenAt(c)'
      BY <2>1, <2>3, <2>4, WrittenOthers
  <2>6. \A g \in Trees : CompleteAt(g)'
      BY <1>c, <2>1 DEF CompleteAt, HasBuild, OnlyBuild
  <2> QED BY <2>5, <2>6 DEF Published
<1>13. ASSUME NEW b \in Builders, WriteChunk(b) PROVE Published'
  <2> PICK f \in Trees : f = me[b].fp
      BY <1>13, WriteEffect
  <2> PICK i \in 1..6 : i = me[b].next
      BY <1>0 DEF Shapes, Memories
  <2> DEFINE new == {rec \in RecordsOf(me[b], WriteOrder[me[b].next]) :
                        Linked(rec, db[me[b].fp].recs)}
  <2>1. /\ Others(b) /\ pc[b] = "write"
        /\ me'[b].fp = f /\ me'[b].sinks = me[b].sinks
        /\ \A q \in StageNames : Got(me'[b], q) = Got(me[b], q)
        /\ \/ i < 6 /\ pc'[b] = "write" /\ me'[b].next = i + 1
           \/ i = 6 /\ pc'[b] = "finalize"
        /\ UNCHANGED <<lost, edited>>
      BY <1>13, WriteEffect
  <2>2. /\ OnlyBuild(f) /\ db'[f].status = db[f].status
        /\ db'[f].payload = db[f].payload /\ db'[f].recs = db[f].recs \cup new
        /\ IsFiniteSet(new)
      BY <1>13, WriteEffect
  <2>3. /\ \A k : RecordsOf(me'[b], k) = RecordsOf(me[b], k)
        /\ Graph(me'[b]) = Graph(me[b])
      BY <2>1, SameRecords
  <2>4. me[b] \in Memories /\ \A s \in StageNames : Got(me[b], s) \in Trees
      BY <1>0, <2>1 DEF Shapes, Placed, PlacedAt, Have, Marking
  <2>5. ASSUME f \notin lost
        PROVE  \A j \in 1..i : RecordsOf(me[b], WriteOrder[j]) \subseteq db'[f].recs
    <3>1. \A j \in 1..(i - 1) : RecordsOf(me[b], WriteOrder[j]) \subseteq db[f].recs
        BY <1>w, <2>1, <2>5 DEF WrittenAt
    <3>2. new = RecordsOf(me[b], WriteOrder[i])
        BY <2>4, <3>1, AllLinked
    <3> HIDE DEF new
    <3> QED BY <2>2, <3>1, <3>2
  <2>6. WrittenAt(b)'
    <3>1. ~BeforeWrite(b)'
        BY <2>1 DEF BeforeWrite, Marking
    <3>2. ASSUME f \notin lost, i < 6
          PROVE  \A j \in 1..(me'[b].next - 1) :
                    RecordsOf(me'[b], WriteOrder[j]) \subseteq db'[f].recs
        BY <2>1, <2>3, <2>5, <3>2
    <3>3. ASSUME f \notin lost, i = 6 PROVE Graph(me'[b]) \subseteq db'[f].recs
      <4>1. \A k \in Kinds : RecordsOf(me[b], k) \subseteq db'[f].recs
          BY <2>5, <3>3, Constants DEF Kinds
      <4> QED BY <2>3, <4>1 DEF Graph
    <3> HIDE DEF new
    <3> QED BY <2>1, <3>1, <3>2, <3>3 DEF WrittenAt
  <2> HIDE DEF new
  <2>7. \A g \in Trees : db[g].recs \subseteq db'[g].recs
      BY <2>2 DEF OnlyBuild
  <2>8. \A c \in Builders : WrittenAt(c)'
      BY <2>1, <2>6, <2>7, WrittenOthers
  <2>9. IsFiniteSet(db'[f].recs)
    <3>1. IsFiniteSet(db[f].recs)
        BY <1>c DEF CompleteAt
    <3>2. IsFiniteSet(db[f].recs \cup new)
        BY <2>2, <3>1, FS_Union
    <3> QED BY <2>2, <3>2
  <2>10. \A g \in Trees : CompleteAt(g)'
    <3>1. CompleteAt(f)'
        BY <1>c, <2>1, <2>2, <2>9 DEF CompleteAt, HasBuild
    <3>2. \A g \in Trees \ {f} : CompleteAt(g)'
        BY <1>c, <2>1, <2>2 DEF CompleteAt, HasBuild, OnlyBuild
    <3> QED BY <3>1, <3>2
  <2> QED BY <2>8, <2>10 DEF Published
<1>14. ASSUME NEW b \in Builders, Finalize(b) PROVE Published'
  <2> PICK f \in Trees : f = me[b].fp
      BY <1>14, FinalizeEffect
  <2>1. /\ Others(b) /\ pc[b] = "finalize" /\ pc'[b] = "schema"
        /\ me'[b].stage = "canonical_finalize"
        /\ UNCHANGED <<lost, edited>>
      BY <1>14, FinalizeEffect DEF Move
  <2>2. /\ OnlyBuild(f) /\ db'[f].recs = db[f].recs
        /\ IF db[f].status = "none" THEN db'[f] = db[f]
           ELSE db'[f].status = "ready" /\ db'[f].payload = Graph(me[b])
        /\ \A s \in StageNames : Got(me[b], s) \in Trees
      BY <1>14, FinalizeEffect
  <2>3. WrittenAt(b)'
      BY <2>1, NotWriting DEF BeforeWrite, Marking, StageNames
  <2>4. \A g \in Trees : db[g].recs \subseteq db'[g].recs
      BY <2>2 DEF OnlyBuild
  <2>5. \A c \in Builders : WrittenAt(c)'
      BY <2>1, <2>3, <2>4, WrittenOthers
  <2>6. CompleteAt(f)'
    <3>1. CASE db[f].status = "none"
        BY <1>c, <2>1, <2>2, <3>1 DEF CompleteAt, HasBuild
    <3>2. CASE db[f].status # "none"
      <4>1. Graph(me[b]) # {} /\ \A rec \in Graph(me[b]) : \E s \in StageNames : rec[2] = Got(me[b], s)
          BY <1>0, <2>2, GraphFacts DEF Shapes
      <4>2. f \notin lost => Graph(me[b]) \subseteq db'[f].recs
          BY <1>w, <2>1, <2>2 DEF WrittenAt
      <4>3. f \notin edited => \A s \in StageNames : Got(me[b], s) = f
          BY <1>0, <2>2 DEF Fresh, FreshAt
      <4>4. IsFiniteSet(db'[f].recs)
          BY <1>c, <2>2 DEF CompleteAt
      <4> QED BY <2>1, <2>2, <3>2, <4>1, <4>2, <4>3, <4>4 DEF CompleteAt
    <3> QED BY <3>1, <3>2
  <2>7. \A g \in Trees \ {f} : CompleteAt(g)'
      BY <1>c, <2>1, <2>2 DEF CompleteAt, HasBuild, OnlyBuild
  <2> QED BY <2>5, <2>6, <2>7 DEF Published
<1>15. ASSUME NEW b \in Builders, Crash(b) \/ CrashInClear(b) PROVE Published'
  <2>1. Others(b) /\ Leaves(b) /\ UNCHANGED <<db, lost, edited>>
      BY <1>15, CrashEffect, CrashInClearEffect
  <2> QED BY <2>1, LeavesWritten, PublishedKept
<1>16. ASSUME NEW b \in Builders, NEW force \in BOOLEAN, Start(b, force) PROVE Published'
  <2>1. /\ Others(b) /\ UNCHANGED <<db, lost, edited>>
        /\ me'[b].next = 1 /\ pc'[b] = "check"
      BY <1>16, StartEffect DEF Move
  <2> QED BY <2>1, NotWriting, PublishedKept
<1> QED BY <1>1, <1>2, <1>3, <1>4, <1>5, <1>6, <1>7, <1>8, <1>9, <1>10, <1>11,
           <1>12, <1>13, <1>14, <1>15, <1>16, StepCases

(***************************************************************************)
(* What build_graph returns.  At a fingerprint that one process works at,  *)
(* a manifest that says ready is of a build Neo4j has, unless no process   *)
(* has looked yet.                                                         *)
(***************************************************************************)
Writing(b) == pc[b] \in {"write", "finalize"}
Past(b) == pc[b] \in {"enrich", "return"} \/ (Marking(b) /\ me[b].stage \in Finals)

SingleAt(b) ==
    LET f == me[b].fp IN
    f \in Trees \ (shared \cup lost) =>
        /\ pc[b] # "check" /\ manifest[f].ready => HasBuild(f)
        /\ pc[b] \in {"begin", "write", "finalize"} => ~manifest[f].ready
        /\ Writing(b) => db[f].status # "none"
        /\ Past(b) => HasBuild(f)
ReadyAt(f) ==
    f \notin shared \cup lost /\ manifest[f].ready => HasBuild(f) \/ IsBuildReusable(f)
Single == (\A b \in Builders : SingleAt(b)) /\ (\A f \in Trees : ReadyAt(f))

LEMMA SingleInit == Init => Single
<1> SUFFICES ASSUME Init PROVE Single
    OBVIOUS
<1>1. \A b \in Builders : me[b].fp = NoTree
    BY DEF Init, Idle
<1>2. \A f \in Trees : ~manifest[f].ready
    BY DEF Init, NoManifest
<1> QED BY <1>1, <1>2, TreesAssumption DEF Single, SingleAt, ReadyAt

LEMMA SingleOf ==
    ASSUME Typed, Alone, Single, NEW b \in Builders, Others(b),
           shared \subseteq shared', UNCHANGED lost,
           NEW f \in Trees, me[b].fp = f,
           \A g \in Trees \ {f} : manifest'[g] = manifest[g] /\ db'[g] = db[g],
           SingleAt(b)', ReadyAt(f)'
    PROVE  Single'
<1>1. ASSUME NEW c \in Builders \ {b}, me'[c].fp \in Trees \ (shared' \cup lost')
      PROVE  SingleAt(c)'
  <2>1. pc'[c] = pc[c] /\ me'[c] = me[c] /\ me[c].fp \in Trees \ (shared \cup lost)
      BY <1>1 DEF Others
  <2>2. me[c].fp # f
      BY <2>1 DEF Alone
  <2>3. SingleAt(c)
      BY DEF Single
  <2>4. manifest'[me[c].fp] = manifest[me[c].fp] /\ db'[me[c].fp] = db[me[c].fp]
      BY <2>1, <2>2
  <2> QED BY <2>1, <2>3, <2>4 DEF SingleAt, Writing, Past, Marking, HasBuild
<1>2. ASSUME NEW g \in Trees \ {f} PROVE ReadyAt(g)'
  <2>1. ReadyAt(g) /\ manifest'[g] = manifest[g] /\ db'[g] = db[g]
      BY DEF Single
  <2> QED BY <2>1 DEF ReadyAt, HasBuild, IsBuildReusable
<1>3. \A c \in Builders : SingleAt(c)'
    BY <1>1 DEF SingleAt
<1> QED BY <1>2, <1>3 DEF Single

LEMMA SingleKept ==
    ASSUME Typed, Alone, Single, NEW b \in Builders, Others(b),
           pc[b] # "idle", UNCHANGED <<manifest, db, shared, lost>>, SingleAt(b)'
    PROVE  Single'
<1> PICK f \in Trees : f = me[b].fp
    BY AtWork
<1>1. ReadyAt(f)
    BY DEF Single
<1>2. ReadyAt(f)'
    BY <1>1 DEF ReadyAt, HasBuild, IsBuildReusable
<1> QED BY <1>2, SingleOf

LEMMA LeavesSingle ==
    ASSUME NEW b \in Builders, Leaves(b)
    PROVE  SingleAt(b)' /\ pc[b] # "idle"
<1>0. NoTree \notin Trees
    BY TreesAssumption
<1>1. me'[b].fp = NoTree /\ pc[b] # "idle"
    BY DEF Leaves, Idle
<1> QED BY <1>0, <1>1 DEF SingleAt

LEMMA SingleStep == ASSUME Typed, Cache, Single, [Next]_vars PROVE Single'
<1>0. Shapes /\ Placed /\ Alone /\ NoTree \notin Trees
    BY TreesAssumption DEF Typed, Cache
<1>s. \A b \in Builders : SingleAt(b)
    BY DEF Single
<1>r. \A f \in Trees : ReadyAt(f)
    BY DEF Single
<1>1. CASE Around \/ Upgrade
  <2>1. UNCHANGED <<manifest, db, pc, me, lost, shared>>
      BY <1>1, AroundEffect, UpgradeEffect
  <2> QED BY <1>s, <1>r, <2>1
          DEF Single, SingleAt, ReadyAt, Writing, Past, Marking, HasBuild, IsBuildReusable
<1>2. CASE ResetDatabase
  <2>1. /\ lost' = lost \cup {f \in Trees :
                     InUse(f) \/ (manifest[f].ready /\ ~IsBuildReusable(f))}
        /\ UNCHANGED <<manifest, pc, me, shared>>
      BY <1>2, ResetEffect
  <2>2. \A b \in Builders : SingleAt(b)'
      BY <2>1 DEF SingleAt, InUse
  <2>3. \A f \in Trees : ReadyAt(f)'
      BY <2>1 DEF ReadyAt, IsBuildReusable
  <2> QED BY <2>2, <2>3 DEF Single
<1>3. ASSUME NEW b \in Builders, Ends(b) PROVE Single'
  <2>1. Others(b) /\ Leaves(b) /\ UNCHANGED <<manifest, db, shared, lost>>
      BY <1>3, EndsEffect
  <2> QED BY <1>0, <2>1, LeavesSingle, SingleKept
<1>4. ASSUME NEW b \in Builders, Looks(b) PROVE Single'
  <2> DEFINE f == me[b].fp
  <2>1. /\ Others(b) /\ me'[b].fp = f /\ UNCHANGED <<manifest, db, shared, lost>>
        /\ \/ Move(b, "check", "return") /\ HasBuild(f)
           \/ Move(b, "check", "ping") /\ ~IsBuildReusable(f)
           \/ Move(b, "ping", "enrich") /\ manifest[f].ready
           \/ Move(b, "ping", "seed")
           \/ Move(b, "stage", "load")
           \/ Move(b, "stage", "run")
           \/ Move(b, "final", "enrich") /\ manifest[f].ready
           \/ Move(b, "final", "begin") /\ ~manifest[f].ready
           \/ Move(b, "enrich", "schema") /\ me'[b].stage = "graph_enrichment"
           \/ Move(b, "enrich", "return")
      BY <1>4, LooksEffect DEF Carries
  <2>2. SingleAt(b) /\ pc[b] # "idle"
      BY <1>s, <2>1 DEF Move
  <2>3. f \in Trees => ReadyAt(f)
      BY <1>r
  <2>4. SingleAt(b)'
      BY <2>1, <2>2, <2>3
         DEF SingleAt, ReadyAt, Writing, Past, Marking, HasBuild, Move
  <2> QED BY <1>0, <2>1, <2>2, <2>4, SingleKept
<1>5. ASSUME NEW b \in Builders, Load(b) PROVE Single'
  <2>1. /\ Others(b) /\ me'[b].fp = me[b].fp /\ UNCHANGED <<manifest, db, shared, lost>>
        /\ pc[b] = "load" /\ pc'[b] \in {"final", "stage"}
      BY <1>5, LoadEffect
  <2>2. SingleAt(b)'
      BY <1>s, <2>1 DEF SingleAt, Writing, Past, Marking, HasBuild
  <2> QED BY <1>0, <2>1, <2>2, SingleKept
<1>6. ASSUME NEW b \in Builders, ClearBuild(b) \/ SavePlaceholder(b) PROVE Single'
  <2> PICK f \in Trees : f = me[b].fp
      BY <1>6, ClearEffect, SeedEffect
  <2>1. /\ Others(b) /\ me'[b].fp = f /\ UNCHANGED <<db, shared, lost>>
        /\ pc'[b] \in {"ping", "stage"} /\ OnlyManifest(f)
        /\ ~manifest'[f].ready \/ (pc[b] = "seed" /\ manifest'[f] = manifest[f])
    <3>1. CASE ClearBuild(b)
        BY <3>1, ClearEffect DEF Stays, Carries, Move, NoManifest
    <3>2. CASE SavePlaceholder(b)
        BY <3>2, SeedEffect DEF Carries, Move
    <3> QED BY <1>6, <3>1, <3>2
  <2>2. SingleAt(b) /\ ReadyAt(f)
      BY <1>s, <1>r
  <2>3. SingleAt(b)'
      BY <2>1, <2>2 DEF SingleAt, Writing, Past, Marking, HasBuild
  <2>4. ReadyAt(f)'
      BY <2>1, <2>2 DEF ReadyAt, HasBuild, IsBuildReusable
  <2> QED BY <1>0, <2>1, <2>3, <2>4, SingleOf DEF OnlyManifest
<1>7. ASSUME NEW b \in Builders, StageOutdated(b) \/ LoadRaises(b) PROVE Single'
  <2> PICK f \in Trees : f = me[b].fp
      BY <1>7, DiscardEffect
  <2>1. /\ Others(b) /\ UNCHANGED <<db, shared, lost>>
        /\ Leaves(b) \/ (pc[b] = "stage" /\ pc'[b] = "run" /\ me'[b].fp = f)
        /\ OnlyManifest(f)
        /\ manifest'[f].ready = manifest[f].ready
        /\ manifest'[f].kind = manifest[f].kind
        /\ manifest'[f].enabled = manifest[f].enabled
        /\ manifest'[f].enriched = manifest[f].enriched
      BY <1>7, DiscardEffect DEF Stays, Carries, Move
  <2>2. SingleAt(b) /\ ReadyAt(f)
      BY <1>s, <1>r
  <2>3. ReadyAt(f)'
      BY <2>1, <2>2 DEF ReadyAt, HasBuild, IsBuildReusable
  <2>4. SingleAt(b)'
    <3>1. CASE Leaves(b)
        BY <3>1, LeavesSingle
    <3>2. CASE pc[b] = "stage" /\ pc'[b] = "run" /\ me'[b].fp = f
        BY <2>1, <2>2, <3>2 DEF SingleAt, Writing, Past, Marking, HasBuild
    <3> QED BY <2>1, <3>1, <3>2
  <2> QED BY <1>0, <2>1, <2>3, <2>4, SingleOf DEF OnlyManifest
<1>8. ASSUME NEW b \in Builders, Run(b) \/ MarkRead(b) PROVE Single'
  <2>1. /\ Others(b) /\ me'[b].fp = me[b].fp /\ me'[b].stage = me[b].stage
        /\ UNCHANGED <<manifest, db, shared, lost>>
        /\ \/ pc[b] = "run" /\ pc'[b] = "schema" /\ me[b].stage \in StageNames
           \/ pc[b] = "schema" /\ pc'[b] = "mark"
    <3>1. CASE Run(b)
        BY <3>1, RunEffect DEF Move
    <3>2. CASE MarkRead(b)
        BY <3>2, MarkReadEffect DEF Move
    <3> QED BY <1>8, <3>1, <3>2
  <2>2. SingleAt(b)'
      BY <1>s, <2>1 DEF SingleAt, Writing, Past, Marking, HasBuild, StageNames, Finals
  <2> QED BY <1>0, <2>1, <2>2, SingleKept
<1>9. ASSUME NEW b \in Builders, MarkWrite(b) PROVE Single'
  <2> PICK f \in Trees : f = me[b].fp
      BY <1>9, MarkWriteEffect
  <2>1. /\ Others(b) /\ me'[b].fp = f /\ UNCHANGED <<db, shared, lost>> /\ OnlyManifest(f)
        /\ pc[b] = "mark"
        /\ \/ me[b].stage \in StageNames /\ pc'[b] \in {"final", "stage"}
           \/ me[b].stage \in Finals /\ pc'[b] \in {"enrich", "return"}
        /\ manifest'[f].ready <=> (me[b].read.ready \/ me[b].stage = "canonical_finalize")
      BY <1>9, MarkWriteEffect DEF Finals
  <2>2. SingleAt(b) /\ InHandAt(b)
      BY <1>s DEF Cache, InHand
  <2>3. f \notin shared \cup lost =>
          /\ manifest'[f].ready => HasBuild(f)
          /\ me[b].stage \in Finals => HasBuild(f)
      BY <2>1, <2>2 DEF SingleAt, InHandAt, Past, Marking, Finals
  <2>4. ReadyAt(f)'
      BY <2>1, <2>3 DEF ReadyAt, HasBuild
  <2>5. SingleAt(b)'
      BY <2>1, <2>3 DEF SingleAt, Writing, Past, Marking, HasBuild
  <2> QED BY <1>0, <2>1, <2>4, <2>5, SingleOf DEF OnlyManifest
<1>10. ASSUME NEW b \in Builders, BeginBuild(b) PROVE Single'
  <2> PICK f \in Trees : f = me[b].fp
      BY <1>10, BeginEffect
  <2>1. /\ Others(b) /\ me'[b].fp = f /\ UNCHANGED <<manifest, shared, lost>>
        /\ pc[b] = "begin" /\ pc'[b] = "write" /\ OnlyBuild(f)
        /\ db'[f].status = "building"
      BY <1>10, BeginEffect DEF Stays, Carries, Move
  <2>2. f \notin shared \cup lost => ~manifest[f].ready
      BY <1>s, <2>1 DEF SingleAt
  <2>3. SingleAt(b)' /\ ReadyAt(f)'
      BY <2>1, <2>2 DEF SingleAt, ReadyAt, Past, Marking
  <2> QED BY <1>0, <2>1, <2>3, SingleOf DEF OnlyBuild
<1>11. ASSUME NEW b \in Builders, WriteChunk(b) PROVE Single'
  <2> PICK f \in Trees : f = me[b].fp
      BY <1>11, WriteEffect
  <2>1. /\ Others(b) /\ me'[b].fp = f /\ UNCHANGED <<manifest, shared, lost>>
        /\ pc[b] = "write" /\ pc'[b] \in {"write", "finalize"} /\ OnlyBuild(f)
        /\ db'[f].status = db[f].status
      BY <1>11, WriteEffect
  <2>2. SingleAt(b) /\ ReadyAt(f)
      BY <1>s, <1>r
  <2>3. SingleAt(b)' /\ ReadyAt(f)'
      BY <2>1, <2>2
         DEF SingleAt, ReadyAt, Writing, Past, Marking, HasBuild, IsBuildReusable
  <2> QED BY <1>0, <2>1, <2>3, SingleOf DEF OnlyBuild
<1>12. ASSUME NEW b \in Builders, Finalize(b) PROVE Single'
  <2> PICK f \in Trees : f = me[b].fp
      BY <1>12, FinalizeEffect
  <2>1. /\ Others(b) /\ me'[b].fp = f /\ UNCHANGED <<manifest, shared, lost>>
        /\ pc[b] = "finalize" /\ pc'[b] = "schema" /\ OnlyBuild(f)
        /\ db[f].status # "none" => db'[f].status = "ready"
        /\ db[f].status = "none" => db'[f] = db[f]
      BY <1>12, FinalizeEffect DEF Carries, Move
  <2>2. SingleAt(b) /\ ReadyAt(f)
      BY <1>s, <1>r
  <2>3. f \notin shared \cup lost => db'[f].status = "ready"
      BY <2>1, <2>2 DEF SingleAt, Writing
  <2>4. SingleAt(b)' /\ ReadyAt(f)'
      BY <2>1, <2>3 DEF SingleAt, ReadyAt, Writing, HasBuild
  <2> QED BY <1>0, <2>1, <2>4, SingleOf DEF OnlyBuild
<1>13. ASSUME NEW b \in Builders, Crash(b) \/ CrashInClear(b) PROVE Single'
  <2> PICK f \in Trees : f = me[b].fp
      BY <1>13, CrashEffect, CrashInClearEffect
  <2>1. /\ Others(b) /\ Leaves(b) /\ UNCHANGED <<db, lost>> /\ shared \subseteq shared'
        /\ \/ UNCHANGED manifest
           \/ OnlyManifest(f) /\ (f \in shared' \/ manifest'[f] = TornManifest)
    <3>1. CASE Crash(b)
        BY <3>1, CrashEffect
    <3>2. CASE CrashInClear(b)
        BY <3>2, CrashInClearEffect
    <3> QED BY <1>13, <3>1, <3>2
  <2>2. ReadyAt(f)
      BY <1>r
  <2>3. ReadyAt(f)'
    <3>1. CASE UNCHANGED manifest
        BY <2>1, <2>2, <3>1 DEF ReadyAt, HasBuild, IsBuildReusable
    <3>2. CASE f \in shared' \/ manifest'[f] = TornManifest
        BY <3>2 DEF ReadyAt, TornManifest, NoManifest
    <3> QED BY <2>1, <3>1, <3>2
  <2> QED BY <1>0, <2>1, <2>3, LeavesSingle, SingleOf DEF OnlyManifest
<1>14. ASSUME NEW b \in Builders, NEW force \in BOOLEAN, Start(b, force) PROVE Single'
  <2>1. /\ Others(b) /\ UNCHANGED <<manifest, db, lost>> /\ shared \subseteq shared'
        /\ pc'[b] = "check"
      BY <1>14, StartEffect DEF Move
  <2>2. \A c \in Builders : SingleAt(c)'
      BY <1>s, <2>1 DEF SingleAt, Writing, Past, Marking, HasBuild, Others
  <2>3. \A f \in Trees : ReadyAt(f)'
      BY <1>r, <2>1 DEF ReadyAt, HasBuild, IsBuildReusable
  <2> QED BY <2>2, <2>3 DEF Single
<1> QED BY <1>1, <1>2, <1>3, <1>4, <1>5, <1>6, <1>7, <1>8, <1>9, <1>10, <1>11,
           <1>12, <1>13, <1>14, StepCases

\* As long as nothing has failed, a build that was begun is in Neo4j, and some
\* process is at it until it is ready.
BegunAt(b) ==
    faults = 0 /\ me[b].fp \in Trees /\
    (Past(b) \/ Writing(b) \/ (pc[b] = "mark" /\ me[b].read.ready))
        => db[me[b].fp].status # "none"
AttendedAt(f) ==
    faults = 0 =>
        /\ db[f].status = "building" => \E c \in Builders : me[c].fp = f /\ Writing(c)
        /\ manifest[f].ready => db[f].status # "none"
Attended == (\A b \in Builders : BegunAt(b)) /\ (\A f \in Trees : AttendedAt(f))

LEMMA AttendedInit == Init => Attended
<1> SUFFICES ASSUME Init PROVE Attended
    OBVIOUS
<1>1. \A b \in Builders : me[b].fp = NoTree
    BY DEF Init, Idle
<1>2. \A f \in Trees : ~manifest[f].ready /\ db[f].status = "none"
    BY DEF Init, NoManifest, EmptyBuild
<1> QED BY <1>1, <1>2, TreesAssumption DEF Attended, BegunAt, AttendedAt

\* What a step of b at f leaves to show.
LEMMA AttendedOf ==
    ASSUME Typed, Attended, NEW b \in Builders, Others(b), UNCHANGED faults,
           NEW f \in Trees, me[b].fp = f,
           \A g \in Trees \ {f} : manifest'[g] = manifest[g] /\ db'[g] = db[g],
           db[f].status # "none" => db'[f].status # "none",
           BegunAt(b)', AttendedAt(f)'
    PROVE  Attended'
<1>1. ASSUME NEW c \in Builders \ {b} PROVE BegunAt(c)'
  <2>1. BegunAt(c) /\ pc'[c] = pc[c] /\ me'[c] = me[c]
      BY DEF Attended, Others
  <2>2. me[c].fp \in Trees /\ db[me[c].fp].status # "none" => db'[me[c].fp].status # "none"
      OBVIOUS
  <2> QED BY <2>1, <2>2 DEF BegunAt, Past, Writing, Marking
<1>2. ASSUME NEW g \in Trees \ {f} PROVE AttendedAt(g)'
  <2>1. AttendedAt(g) /\ manifest'[g] = manifest[g] /\ db'[g] = db[g]
      BY DEF Attended
  <2>2. ASSUME NEW c \in Builders, me[c].fp = g, Writing(c)
        PROVE  me'[c].fp = g /\ Writing(c)'
      BY <2>2 DEF Others, Writing
  <2> QED BY <2>1, <2>2 DEF AttendedAt
<1> QED BY <1>1, <1>2 DEF Attended

\* The same for a step that neither writes to Neo4j nor leaves the writing.
LEMMA AttendedKept ==
    ASSUME Typed, Attended, NEW b \in Builders, Others(b), UNCHANGED <<db, faults>>,
           ~Writing(b), NEW f \in Trees, me[b].fp = f,
           \A g \in Trees \ {f} : manifest'[g] = manifest[g],
           faults = 0 /\ manifest'[f].ready => db[f].status # "none",
           BegunAt(b)'
    PROVE  Attended'
<1>1. AttendedAt(f)
    BY DEF Attended
<1>2. ASSUME NEW c \in Builders, me[c].fp = f, Writing(c)
      PROVE  me'[c].fp = f /\ Writing(c)'
  <2>1. c # b
      BY <1>2
  <2> QED BY <1>2, <2>1 DEF Others, Writing
<1>3. AttendedAt(f)'
    BY <1>1, <1>2 DEF AttendedAt
<1> QED BY <1>3, AttendedOf

LEMMA LeavesBegun ==
    ASSUME NEW b \in Builders, Leaves(b) PROVE BegunAt(b)' /\ pc[b] # "idle"
<1>0. NoTree \notin Trees
    BY TreesAssumption
<1>1. me'[b].fp = NoTree /\ pc[b] # "idle"
    BY DEF Leaves, Idle
<1> QED BY <1>0, <1>1 DEF BegunAt

LEMMA AttendedStep == ASSUME Typed, Attended, [Next]_vars PROVE Attended'
<1>0. Shapes /\ Placed /\ faults \in Nat
    BY DEF Typed, Shapes
<1>s. \A b \in Builders : BegunAt(b)
    BY DEF Attended
<1>r. \A f \in Trees : AttendedAt(f)
    BY DEF Attended
<1>1. CASE Around
  <2>1. UNCHANGED <<manifest, db, pc, me>> /\ (faults' = 0 => faults = 0)
      BY <1>1, AroundEffect
  <2>2. \A b \in Builders : BegunAt(b)'
      BY <1>s, <2>1 DEF BegunAt, Past, Writing, Marking
  <2>3. \A f \in Trees : AttendedAt(f)'
      BY <1>r, <2>1 DEF AttendedAt, Writing
  <2> QED BY <2>2, <2>3 DEF Attended
<1>2. ASSUME faults' = faults + 1 PROVE Attended'
  <2>1. faults' # 0
      BY <1>0, <1>2
  <2> QED BY <2>1 DEF Attended, BegunAt, AttendedAt
<1>3. CASE Upgrade \/ ResetDatabase
    BY <1>2, <1>3, UpgradeEffect, ResetEffect
<1>4. ASSUME NEW b \in Builders, Crash(b) \/ CrashInClear(b) PROVE Attended'
    BY <1>2, <1>4, CrashEffect, CrashInClearEffect
<1>5. ASSUME NEW b \in Builders, Ends(b) PROVE Attended'
  <2>1. /\ Others(b) /\ Leaves(b) /\ UNCHANGED <<manifest, db, faults>> /\ ~Writing(b)
      BY <1>5, EndsEffect DEF Writing
  <2> PICK f \in Trees : f = me[b].fp
      BY <2>1, AtWork DEF Leaves
  <2>2. faults = 0 /\ manifest'[f].ready => db[f].status # "none"
      BY <1>r, <2>1 DEF AttendedAt
  <2> QED BY <2>1, <2>2, LeavesBegun, AttendedKept
<1>6. ASSUME NEW b \in Builders, Looks(b) PROVE Attended'
  <2>1. /\ Others(b) /\ me'[b].fp = me[b].fp /\ UNCHANGED <<manifest, db, faults>>
        /\ pc[b] # "idle" /\ ~Writing(b)
        /\ \/ pc'[b] = "return" /\ HasBuild(me[b].fp)
           \/ pc'[b] = "enrich" /\ manifest[me[b].fp].ready
           \/ pc'[b] \in {"ping", "seed", "load", "run", "begin"}
           \/ pc[b] = "enrich" /\ pc'[b] \in {"schema", "return"}
      BY <1>6, LooksEffect DEF Carries, Move, Writing
  <2> PICK f \in Trees : f = me[b].fp
      BY <2>1, AtWork
  <2>2. BegunAt(b) /\ AttendedAt(f)
      BY <1>s, <1>r
  <2>3. BegunAt(b)'
      BY <2>1, <2>2 DEF BegunAt, AttendedAt, Past, Writing, Marking, HasBuild
  <2>4. faults = 0 /\ manifest'[f].ready => db[f].status # "none"
      BY <2>1, <2>2 DEF AttendedAt
  <2> QED BY <2>1, <2>3, <2>4, AttendedKept
<1>7. ASSUME NEW b \in Builders, Load(b) \/ Run(b) \/ MarkRead(b) PROVE Attended'
  <2>1. /\ Others(b) /\ me'[b].fp = me[b].fp /\ UNCHANGED <<manifest, db, faults>>
        /\ pc[b] # "idle" /\ ~Writing(b)
        /\ \/ pc'[b] \in {"final", "stage"}
           \/ pc'[b] = "schema" /\ me'[b].stage \in StageNames
           \/ /\ pc[b] = "schema" /\ pc'[b] = "mark" /\ me'[b].stage = me[b].stage
              /\ me'[b].read = manifest[me[b].fp]
    <3>1. CASE Load(b)
        BY <3>1, LoadEffect DEF Writing
    <3>2. CASE Run(b)
        BY <3>2, RunEffect DEF Writing, Move
    <3>3. CASE MarkRead(b)
        BY <3>3, MarkReadEffect DEF Writing, Move
    <3> QED BY <1>7, <3>1, <3>2, <3>3
  <2> PICK f \in Trees : f = me[b].fp
      BY <2>1, AtWork
  <2>2. BegunAt(b) /\ AttendedAt(f)
      BY <1>s, <1>r
  <2>3. BegunAt(b)'
      BY <2>1, <2>2 DEF BegunAt, AttendedAt, Past, Writing, Marking, StageNames, Finals
  <2>4. faults = 0 /\ manifest'[f].ready => db[f].status # "none"
      BY <2>1, <2>2 DEF AttendedAt
  <2> QED BY <2>1, <2>3, <2>4, AttendedKept
<1>8. ASSUME NEW b \in Builders,
             ClearBuild(b) \/ SavePlaceholder(b) \/ StageOutdated(b) \/ LoadRaises(b)
      PROVE  Attended'
  <2> PICK f \in Trees : f = me[b].fp
      BY <1>8, ClearEffect, SeedEffect, DiscardEffect
  <2>1. /\ Others(b) /\ UNCHANGED <<db, faults>> /\ ~Writing(b)
        /\ Leaves(b) \/ (pc'[b] \in {"ping", "stage", "run"} /\ me'[b].fp = f)
        /\ OnlyManifest(f) /\ (manifest'[f].ready => manifest[f].ready)
    <3>1. CASE ClearBuild(b)
        BY <3>1, ClearEffect DEF Writing, Move, Stays, Carries, NoManifest
    <3>2. CASE SavePlaceholder(b)
        BY <3>2, SeedEffect DEF Writing, Move, Carries
    <3>3. CASE StageOutdated(b) \/ LoadRaises(b)
        BY <3>3, DiscardEffect DEF Writing, Move, Stays, Carries
    <3> QED BY <1>8, <3>1, <3>2, <3>3
  <2>2. BegunAt(b)'
    <3>1. CASE Leaves(b)
        BY <3>1, LeavesBegun
    <3>2. CASE pc'[b] \in {"ping", "stage", "run"}
        BY <3>2 DEF BegunAt, Past, Writing, Marking
    <3> QED BY <2>1, <3>1, <3>2
  <2>3. faults = 0 /\ manifest'[f].ready => db[f].status # "none"
      BY <1>r, <2>1 DEF AttendedAt
  <2> QED BY <2>1, <2>2, <2>3, AttendedKept DEF OnlyManifest
<1>9. ASSUME NEW b \in Builders, MarkWrite(b) PROVE Attended'
  <2> PICK f \in Trees : f = me[b].fp
      BY <1>9, MarkWriteEffect
  <2>1. /\ Others(b) /\ me'[b].fp = f /\ UNCHANGED <<db, faults>> /\ OnlyManifest(f)
        /\ pc[b] = "mark"
        /\ \/ pc'[b] \in {"final", "stage"}
           \/ me[b].stage \in Finals /\ pc'[b] \in {"enrich", "return"}
        /\ manifest'[f].ready <=> (me[b].read.ready \/ me[b].stage = "canonical_finalize")
      BY <1>9, MarkWriteEffect DEF Finals
  <2>2. BegunAt(b)
      BY <1>s
  <2>3. BegunAt(b)' /\ ~Writing(b)
      BY <2>1, <2>2 DEF BegunAt, Past, Writing, Marking
  <2>4. faults = 0 /\ manifest'[f].ready => db[f].status # "none"
      BY <2>1, <2>2 DEF BegunAt, Past, Marking, Finals
  <2> QED BY <2>1, <2>3, <2>4, AttendedKept DEF OnlyManifest
<1>10. ASSUME NEW b \in Builders, BeginBuild(b) \/ WriteChunk(b) PROVE Attended'
  <2> PICK f \in Trees : f = me[b].fp
      BY <1>10, BeginEffect, WriteEffect
  <2>1. /\ Others(b) /\ me'[b].fp = f /\ UNCHANGED <<manifest, faults>> /\ OnlyBuild(f)
        /\ pc'[b] \in {"write", "finalize"}
        /\ \/ db'[f].status = "building"
           \/ Writing(b) /\ db'[f].status = db[f].status
    <3>1. CASE BeginBuild(b)
        BY <3>1, BeginEffect DEF Move, Stays, Carries
    <3>2. CASE WriteChunk(b)
        BY <3>2, WriteEffect DEF Writing
    <3> QED BY <1>10, <3>1, <3>2
  <2>2. BegunAt(b) /\ AttendedAt(f)
      BY <1>s, <1>r
  <2>3. me'[b].fp = f /\ Writing(b)'
      BY <2>1 DEF Writing
  <2>4. BegunAt(b)'
      BY <2>1, <2>2 DEF BegunAt
  <2>5. AttendedAt(f)'
      BY <2>1, <2>2, <2>3 DEF AttendedAt
  <2> QED BY <2>1, <2>4, <2>5, AttendedOf DEF OnlyBuild
<1>11. ASSUME NEW b \in Builders, Finalize(b) PROVE Attended'
  <2> PICK f \in Trees : f = me[b].fp
      BY <1>11, FinalizeEffect
  <2>1. /\ Others(b) /\ me'[b].fp = f /\ UNCHANGED <<manifest, faults>> /\ OnlyBuild(f)
        /\ pc[b] = "finalize"
        /\ db[f].status # "none" => db'[f].status = "ready"
      BY <1>11, FinalizeEffect DEF Carries, Move
  <2>2. faults = 0 => db'[f].status = "ready"
      BY <1>s, <2>1 DEF BegunAt, Writing
  <2>3. BegunAt(b)'
      BY <2>1, <2>2 DEF BegunAt
  <2>4. AttendedAt(f)'
      BY <2>1, <2>2 DEF AttendedAt
  <2> QED BY <2>1, <2>3, <2>4, AttendedOf DEF OnlyBuild
<1>12. ASSUME NEW b \in Builders, NEW force \in BOOLEAN, Start(b, force) PROVE Attended'
  <2>1. /\ Others(b) /\ UNCHANGED <<manifest, db, faults>> /\ pc'[b] = "check"
        /\ pc[b] = "idle"
      BY <1>12, StartEffect DEF Move
  <2>2. \A c \in Builders : BegunAt(c)'
      BY <1>s, <2>1 DEF BegunAt, Past, Writing, Marking, Others
  <2>3. ASSUME NEW c \in Builders, Writing(c) PROVE me'[c] = me[c] /\ Writing(c)'
      BY <2>1, <2>3 DEF Writing, Others
  <2>4. \A f \in Trees : AttendedAt(f)'
      BY <1>r, <2>1, <2>3 DEF AttendedAt
  <2> QED BY <2>2, <2>4 DEF Attended
<1> QED BY <1>1, <1>3, <1>4, <1>5, <1>6, <1>7, <1>8, <1>9, <1>10, <1>11, <1>12,
           StepCases

(***************************************************************************)
(* An audit of a build that grows.  The path a page starts at is found by  *)
(* counting those before it, so a path that was there when the audit began *)
(* and that it has not read has at least as many before it as were read.   *)
(***************************************************************************)
Ahead(S, p) == {q \in S : Before(q, p)}
Readers == [state : {"off", "reading", "ended"}, fp : Trees0, offset : Nat,
            start : SUBSET Records, seen : SUBSET Records]

Paged ==
    /\ reader \in Readers
    /\ reader.state # "off" =>
         reader.fp \in Trees /\ reader.start \subseteq PathsIn(reader.fp)
    /\ reader.state = "reading" =>
         \A p \in reader.start \ reader.seen :
             Cardinality(Ahead(PathsIn(reader.fp), p)) >= reader.offset
    /\ AuditMissesNothing

\* The order of the pages is a strict total order of the paths.
LEMMA PathOrder ==
    ASSUME NEW p \in Records, NEW q \in Records, p[1] = "path", q[1] = "path"
    PROVE  /\ ~Before(p, p)
           /\ p # q => Before(p, q) \/ Before(q, p)
           /\ \A o \in Records : Before(o, p) /\ Before(p, q) => Before(o, q)
<1>0. Trees \subseteq Nat /\ \A v \in Variants : Rank[v] \in Nat
    BY TreesAssumption, RankAssumption
<1>1. ASSUME NEW o \in Records
      PROVE  /\ o = <<o[1], o[2], o[3]>>
             /\ o[2] \in Nat /\ o[3] \in Variants /\ Rank[o[3]] \in Nat
  <2>1. o = <<o[1], o[2], o[3]>> /\ o[2] \in Trees /\ o[3] \in Variants
      BY DEF Records
  <2> QED BY <1>0, <2>1
<1>2. p # q => p[2] # q[2] \/ p[3] # q[3]
    BY <1>1
<1>3. Rank[p[3]] = Rank[q[3]] => p[3] = q[3]
    BY <1>1, RankAssumption
<1> QED BY <1>1, <1>2, <1>3 DEF Before

\* A finite set of paths: more of them never bring a path forward, and no two
\* have the same number before them.
LEMMA AheadFacts ==
    ASSUME NEW S \in SUBSET Records, IsFiniteSet(S), \A p \in S : p[1] = "path",
           NEW p \in S
    PROVE  /\ Cardinality(Ahead(S, p)) \in Nat
           /\ Cardinality(Ahead(S, p)) < Cardinality(S)
           /\ \A R \in SUBSET S : Cardinality(Ahead(R, p)) <= Cardinality(Ahead(S, p))
           /\ \A q \in S : p # q =>
                Cardinality(Ahead(S, p)) # Cardinality(Ahead(S, q))
<1>1. ASSUME NEW T \in SUBSET S
      PROVE  IsFiniteSet(T) /\ Cardinality(T) \in Nat
  <2>1. IsFiniteSet(T)
      BY FS_Subset
  <2> QED BY <2>1, FS_CardinalityType
<1>2. ASSUME NEW q \in S PROVE Ahead(S, q) \in SUBSET S /\ q \notin Ahead(S, q)
    BY PathOrder DEF Ahead
<1>3. Cardinality(Ahead(S, p)) \in Nat /\ Cardinality(S) \in Nat
    BY <1>1, <1>2
<1>4. Cardinality(Ahead(S, p)) < Cardinality(S)
  <2>1. /\ Cardinality(Ahead(S, p)) <= Cardinality(S)
        /\ Cardinality(S) = Cardinality(Ahead(S, p)) => S = Ahead(S, p)
      BY <1>2, FS_Subset
  <2>2. S # Ahead(S, p)
      BY <1>2
  <2> QED BY <1>3, <2>1, <2>2
<1>5. ASSUME NEW R \in SUBSET S
      PROVE  Cardinality(Ahead(R, p)) <= Cardinality(Ahead(S, p))
  <2>1. Ahead(R, p) \in SUBSET Ahead(S, p)
      BY DEF Ahead
  <2>2. IsFiniteSet(Ahead(S, p))
      BY <1>1, <1>2
  <2> QED BY <2>1, <2>2, FS_Subset
<1>6. ASSUME NEW o \in S, NEW q \in S, Before(o, q)
      PROVE  Cardinality(Ahead(S, o)) # Cardinality(Ahead(S, q))
  <2>1. Ahead(S, o) \in SUBSET Ahead(S, q)
      BY <1>6, PathOrder DEF Ahead
  <2>2. o \in Ahead(S, q) /\ o \notin Ahead(S, o)
      BY <1>2, <1>6 DEF Ahead
  <2>3. IsFiniteSet(Ahead(S, q))
      BY <1>1, <1>2
  <2>4. Cardinality(Ahead(S, q)) = Cardinality(Ahead(S, o)) => Ahead(S, q) = Ahead(S, o)
      BY <2>1, <2>3, FS_Subset
  <2> QED BY <2>2, <2>4
<1>7. ASSUME NEW q \in S, p # q
      PROVE  Cardinality(Ahead(S, p)) # Cardinality(Ahead(S, q))
  <2>1. Before(p, q) \/ Before(q, p)
      BY <1>7, PathOrder
  <2> QED BY <1>6, <2>1
<1> QED BY <1>3, <1>4, <1>5, <1>7

LEMMA PathsFacts ==
    ASSUME Typed, Published, NEW f \in Trees
    PROVE  /\ PathsIn(f) \in SUBSET Records /\ IsFiniteSet(PathsIn(f))
           /\ \A p \in PathsIn(f) : p[1] = "path"
<1>1. db[f].recs \subseteq Records /\ IsFiniteSet(db[f].recs)
    BY DEF Typed, Shapes, Builds, Published, CompleteAt
<1>2. PathsIn(f) \in SUBSET db[f].recs /\ \A p \in PathsIn(f) : p[1] = "path"
    BY DEF PathsIn
<1>3. IsFiniteSet(PathsIn(f))
    BY <1>1, <1>2, FS_Subset
<1> QED BY <1>1, <1>2, <1>3

\* Only a reset takes records away, and only an audit moves its reader.
LEMMA RecordsGrow ==
    ASSUME Typed, [Next]_vars, ~ResetDatabase
    PROVE  /\ \A f \in Trees : db[f].recs \subseteq db'[f].recs
           /\ reader' = reader \/ Audit
<1>1. CASE Around
  <2>1. UNCHANGED db
      BY <1>1, AroundEffect
  <2>2. reader' = reader \/ Audit
      BY <1>1 DEF Around, EditTree, ChangeSinks, vars
  <2> QED BY <2>1, <2>2
<1>2. CASE Upgrade
    BY <1>2, UpgradeEffect
<1>3. ASSUME NEW b \in Builders,
             BeginBuild(b) \/ WriteChunk(b) \/ Finalize(b)
      PROVE  reader' = reader /\ \A f \in Trees : db[f].recs \subseteq db'[f].recs
  <2>1. /\ reader' = reader /\ OnlyBuild(me[b].fp)
        /\ db[me[b].fp].recs \subseteq db'[me[b].fp].recs
      BY <1>3, BeginEffect, WriteEffect, FinalizeEffect
  <2> QED BY <2>1 DEF OnlyBuild
<1>4. ASSUME NEW b \in Builders, Ends(b) \/ Looks(b) \/ Load(b) PROVE UNCHANGED <<db, reader>>
    BY <1>4 DEF Ends, Unreadable, Return, ReadTorn, Looks, Reuse, Resume, Ping,
                StageComplete, StageMissing, CheckFinal, Enrich, Load
<1>5. ASSUME NEW b \in Builders,
             ClearBuild(b) \/ SavePlaceholder(b) \/ StageOutdated(b) \/ LoadRaises(b)
      PROVE  UNCHANGED <<db, reader>>
    BY <1>5 DEF ClearBuild, SavePlaceholder, StageOutdated, LoadRaises
<1>6. ASSUME NEW b \in Builders,
             Run(b) \/ MarkRead(b) \/ MarkWrite(b) \/ Crash(b) \/ CrashInClear(b)
             \/ \E force \in BOOLEAN : Start(b, force)
      PROVE  UNCHANGED <<db, reader>>
    BY <1>6 DEF Run, MarkRead, MarkWrite, Crash, CrashInClear, Start
<1> QED BY <1>1, <1>2, <1>3, <1>4, <1>5, <1>6, StepCases

LEMMA PagedInit == Init => Paged
BY DEF Init, Paged, NoReader, Readers, Trees0, AuditMissesNothing

LEMMA PagedStep ==
    ASSUME Typed, Published, Published', Typed', Paged, [Next]_vars PROVE Paged'
<1>0. reader \in Readers /\ db \in [Trees -> Builds]
    BY DEF Paged, Typed, Shapes
<1>1. CASE ResetDatabase
  <2>1. reader' = [reader EXCEPT !.start = {}]
      BY <1>1, ResetEffect
  <2>2. reader' \in Readers /\ reader'.start = {} /\ reader'.state = reader.state
        /\ reader'.fp = reader.fp
      BY <1>0, <2>1 DEF Readers
  <2> QED BY <2>2 DEF Paged, AuditMissesNothing
<1>2. CASE ~ResetDatabase /\ reader' = reader
  <2>1. CASE reader.state = "off"
      BY <1>2, <2>1 DEF Paged, AuditMissesNothing
  <2>2. CASE reader.state # "off"
    <3>1. PICK f \in Trees : f = reader.fp
        BY <2>2 DEF Paged
    <3> DEFINE S == PathsIn(f)
               T == PathsIn(f)'
    <3>2. S \in SUBSET Records /\ IsFiniteSet(S) /\ \A q \in S : q[1] = "path"
        BY PathsFacts
    <3>3. T \in SUBSET Records /\ IsFiniteSet(T) /\ \A q \in T : q[1] = "path"
      <4>1. db'[f].recs \subseteq Records /\ IsFiniteSet(db'[f].recs)
          BY DEF Typed, Shapes, Builds, Published, CompleteAt
      <4>2. T \in SUBSET db'[f].recs /\ \A q \in T : q[1] = "path"
          BY DEF PathsIn
      <4>3. IsFiniteSet(T)
          BY <4>1, <4>2, FS_Subset
      <4> QED BY <4>1, <4>2, <4>3
    <3>4. S \subseteq T
        BY <1>2, RecordsGrow DEF PathsIn
    <3>5. /\ reader.start \subseteq S /\ reader.offset \in Nat
          /\ reader.state = "reading" =>
               \A p \in reader.start \ reader.seen :
                   Cardinality(Ahead(S, p)) >= reader.offset
        BY <1>0, <2>2, <3>1 DEF Paged, Readers
    <3> HIDE DEF S, T
    <3>6. ASSUME NEW p \in S
          PROVE  /\ Cardinality(Ahead(S, p)) \in Nat /\ Cardinality(Ahead(T, p)) \in Nat
                 /\ Cardinality(Ahead(S, p)) <= Cardinality(Ahead(T, p))
        BY <3>2, <3>3, <3>4, AheadFacts
    <3>7. reader.state = "reading" =>
            \A p \in reader.start \ reader.seen :
                Cardinality(Ahead(T, p)) >= reader.offset
        BY <3>5, <3>6
    <3>8. reader.start \subseteq T
        BY <3>4, <3>5
    <3>9. reader'.fp = f /\ T = PathsIn(reader.fp)'
        BY <1>2, <3>1 DEF T, PathsIn
    <3> QED BY <1>0, <1>2, <3>1, <3>7, <3>8, <3>9 DEF Paged, AuditMissesNothing
  <2> QED BY <2>1, <2>2
<1>3. CASE \E f \in Trees : AuditBegins(f)
  <2> PICK f \in Trees : AuditBegins(f)
      BY <1>3
  <2>1. PathsIn(f) \in SUBSET Records /\ IsFiniteSet(PathsIn(f))
        /\ \A q \in PathsIn(f) : q[1] = "path"
      BY PathsFacts
  <2>2. UNCHANGED db
      BY DEF AuditBegins
  <2> DEFINE start == {p \in PathsIn(f) : Whole(p, f)}
  <2>3. start \subseteq PathsIn(f)
      OBVIOUS
  <2>4. reader' = [state |-> "reading", fp |-> f, offset |-> 0, start |-> start,
                   seen |-> {}]
      BY DEF AuditBegins
  <2> HIDE DEF start
  <2>5. reader' \in Readers /\ reader'.state = "reading" /\ reader'.fp = f
        /\ reader'.offset = 0 /\ reader'.start = start
      BY <2>1, <2>3, <2>4 DEF Readers, Trees0
  <2>6. \A p \in start : Cardinality(Ahead(PathsIn(f), p)) >= 0
      BY <2>1, <2>3, AheadFacts
  <2>7. PathsIn(f)' = PathsIn(f)
      BY <2>2 DEF PathsIn
  <2> QED BY <2>3, <2>5, <2>6, <2>7 DEF Paged, AuditMissesNothing, PathsIn
<1>4. CASE AuditPage
  <2>1. reader.state = "reading" /\ reader.fp \in Trees
        /\ reader.start \subseteq PathsIn(reader.fp)
      BY <1>4 DEF AuditPage, Paged
  <2>2. PICK f \in Trees : f = reader.fp
      BY <2>1
  <2>3. PICK p \in PathsIn(f) :
           /\ Cardinality(Ahead(PathsIn(f), p)) = reader.offset
           /\ reader' = [reader EXCEPT !.offset = @ + 1, !.seen = @ \cup {p}]
      BY <1>4, <2>2 DEF AuditPage, Ahead
  <2>4. PathsIn(f) \in SUBSET Records /\ IsFiniteSet(PathsIn(f))
        /\ \A q \in PathsIn(f) : q[1] = "path"
      BY PathsFacts
  <2>5. PathsIn(f)' = PathsIn(f)
      BY <1>4 DEF AuditPage, PathsIn
  <2>6. reader' \in Readers /\ reader'.state = "reading" /\ reader'.fp = f
        /\ reader'.offset = reader.offset + 1 /\ reader'.start = reader.start
        /\ reader'.seen = reader.seen \cup {p}
    <3>1. reader.offset + 1 \in Nat /\ reader.seen \cup {p} \in SUBSET Records
        BY <1>0, <2>3, <2>4 DEF Readers
    <3> QED BY <1>0, <2>1, <2>2, <2>3, <3>1 DEF Readers
  <2>7. ASSUME NEW q \in reader.start \ (reader.seen \cup {p})
        PROVE  Cardinality(Ahead(PathsIn(f), q)) >= reader.offset + 1
    <3>1. q \in PathsIn(f) /\ q # p
          /\ Cardinality(Ahead(PathsIn(f), q)) >= reader.offset
        BY <2>1, <2>2, <2>7 DEF Paged
    <3>2. Cardinality(Ahead(PathsIn(f), q)) # Cardinality(Ahead(PathsIn(f), p))
          /\ Cardinality(Ahead(PathsIn(f), q)) \in Nat
        BY <2>4, <3>1, AheadFacts
    <3>3. reader.offset \in Nat
        BY <1>0 DEF Readers
    <3> QED BY <2>3, <3>1, <3>2, <3>3
  <2> QED BY <2>1, <2>2, <2>5, <2>6, <2>7 DEF Paged, AuditMissesNothing, PathsIn
<1>5. CASE AuditLastPage
  <2>1. reader.state = "reading" /\ reader.fp \in Trees
        /\ reader.start \subseteq PathsIn(reader.fp)
      BY <1>5 DEF AuditLastPage, Paged
  <2>2. PICK f \in Trees : f = reader.fp
      BY <2>1
  <2>3. /\ Cardinality(PathsIn(f)) <= reader.offset
        /\ reader' = [reader EXCEPT !.state = "ended"] /\ UNCHANGED db
      BY <1>5, <2>2 DEF AuditLastPage
  <2>4. PathsIn(f) \in SUBSET Records /\ IsFiniteSet(PathsIn(f))
        /\ \A q \in PathsIn(f) : q[1] = "path"
      BY PathsFacts
  <2>5. reader.start \subseteq reader.seen
    <3> SUFFICES ASSUME NEW p \in reader.start \ reader.seen PROVE FALSE
        OBVIOUS
    <3>1. p \in PathsIn(f) /\ Cardinality(Ahead(PathsIn(f), p)) >= reader.offset
        BY <2>1, <2>2 DEF Paged
    <3>2. /\ Cardinality(Ahead(PathsIn(f), p)) < Cardinality(PathsIn(f))
          /\ Cardinality(Ahead(PathsIn(f), p)) \in Nat
        BY <2>4, <3>1, AheadFacts
    <3>3. reader.offset \in Nat /\ Cardinality(PathsIn(f)) \in Nat
        BY <1>0, <2>4, FS_CardinalityType DEF Readers
    <3> QED BY <2>3, <3>1, <3>2, <3>3
  <2>6. reader' \in Readers /\ reader'.state = "ended" /\ reader'.fp = f
        /\ reader'.start = reader.start /\ reader'.seen = reader.seen
      BY <1>0, <2>2, <2>3 DEF Readers
  <2> QED BY <2>1, <2>2, <2>3, <2>5, <2>6 DEF Paged, AuditMissesNothing, PathsIn
<1>6. CASE AuditEnds
    BY <1>6 DEF AuditEnds, NoReader, Paged, Readers, Trees0, AuditMissesNothing
<1> QED BY <1>1, <1>2, <1>3, <1>4, <1>5, <1>6, RecordsGrow DEF Audit

(***************************************************************************)
(* The inductive invariant and what follows from it.                       *)
(***************************************************************************)
GraphInv ==
    Typed /\ Cache /\ Fresh /\ Published /\ Single /\ Attended /\ Paged

LEMMA GraphInvInvariant == Spec => []GraphInv
<1>1. Init => GraphInv
    BY TypeInit, CacheInit, FreshInit, PublishedInit, SingleInit, AttendedInit, PagedInit
    DEF GraphInv
<1>2. GraphInv /\ [Next]_vars => GraphInv'
  <2> SUFFICES ASSUME GraphInv, [Next]_vars PROVE GraphInv'
      OBVIOUS
  <2>0. Typed /\ Cache /\ Fresh /\ Published /\ Single /\ Attended /\ Paged
      BY DEF GraphInv
  <2>1. Typed'
      BY <2>0, TypeStep
  <2>2. Cache'
      BY <2>0, CacheStep
  <2>3. Fresh'
      BY <2>0, FreshStep
  <2>4. Published'
      BY <2>0, PublishedStep
  <2>5. Single'
      BY <2>0, SingleStep
  <2>6. Attended'
      BY <2>0, AttendedStep
  <2>7. Paged'
      BY <2>0, <2>1, <2>4, PagedStep
  <2> QED BY <2>1, <2>2, <2>3, <2>4, <2>5, <2>6, <2>7 DEF GraphInv
<1> QED BY <1>1, <1>2, PTL DEF Spec

\* The cache directory can be trusted: whatever processes, crashes, edits and
\* releases there are, every variable keeps its shape, and a checkpoint that
\* is_stage_complete accepts (cache.py) has its whole pickles, unless two
\* processes were at the fingerprint or its clear_build was cut short.
THEOREM GraphCacheSound == Spec => []CacheSound
<1>1. GraphInv => CacheSound
  <2> SUFFICES ASSUME GraphInv PROVE CacheSound
      OBVIOUS
  <2>1. Shapes /\ Placed /\ CheckpointIsWhole /\ reader \in Readers
      BY DEF GraphInv, Typed, Cache, Paged
  <2>2. \A f \in Trees : /\ db[f].status \in {"none", "building", "ready"}
                         /\ db[f].recs \subseteq Records /\ db[f].payload \subseteq Records
      BY <2>1 DEF Shapes, Builds
  <2>3. \A b \in Builders : pc[b] = "idle" <=> me[b].fp = NoTree
      BY <2>1 DEF Placed, PlacedAt
  <2>4. reader.seen \subseteq Records
      BY <2>1 DEF Readers
  <2>5. TypeOK
      BY <2>1, <2>2, <2>3, <2>4 DEF TypeOK, Shapes, Dirs, Places
  <2> QED BY <2>1, <2>5 DEF CacheSound
<1> QED BY <1>1, GraphInvInvariant, PTL

\* build_graph returns a fingerprint that an audit can use: Neo4j shows the
\* build as ready and, unless it was reset meanwhile, the build holds every
\* record of its coverage payload and is of the tree it is named after.  Any
\* number of processes may build it at once: the only excuses are another that
\* is publishing it again, and one that died at that.
THEOREM GraphReturnedIsComplete == Spec => []ReturnedIsComplete
<1>1. GraphInv => ReturnedIsComplete
  <2> SUFFICES ASSUME GraphInv PROVE ReturnedIsComplete
      OBVIOUS
  <2>0. Typed /\ Published /\ Single /\ Attended
      BY DEF GraphInv
  <2>1. ReadyIsComplete
      BY <2>0 DEF ReadyIsComplete, Published, CompleteAt
  <2>2. ASSUME NEW b \in Builders, pc[b] = "return", NEW f \in Trees, f = me[b].fp,
               ~HasBuild(f), f \notin lost, ~(f \in shared /\ faults > 0)
        PROVE  \E c \in Builders \ {b} : me[c].fp = f /\ pc[c] \in {"write", "finalize"}
    <3>1. Past(b)
        BY <2>2 DEF Past
    <3>2. f \in shared
        BY <2>0, <2>2, <3>1 DEF Single, SingleAt
    <3>3. faults = 0
        BY <2>0, <2>2, <3>2 DEF Typed, Shapes
    <3>4. db[f].status # "none" /\ db[f].status \in {"none", "building", "ready"}
        BY <2>0, <2>2, <3>1, <3>3 DEF Attended, BegunAt, Typed, Shapes, Builds
    <3>5. db[f].status = "building"
        BY <2>2, <3>4 DEF HasBuild
    <3>6. PICK c \in Builders : me[c].fp = f /\ Writing(c)
        BY <2>0, <3>3, <3>5 DEF Attended, AttendedAt
    <3> QED BY <2>2, <3>6 DEF Writing
  <2>3. ASSUME NEW b \in Builders, pc[b] = "return" PROVE me[b].fp \in Trees
      BY <2>0, <2>3, AtWork
  <2>4. ReturnedIsReady
      BY <2>2, <2>3 DEF ReturnedIsReady
  <2> QED BY <2>1, <2>4 DEF ReturnedIsComplete
<1> QED BY <1>1, GraphInvInvariant, PTL

\* iter_path_records (audit_source_neo4j.py) pages with SKIP and LIMIT over a
\* build that other processes may still add to: it returns every path that was
\* there, whole, when the audit began.
THEOREM GraphAuditMissesNothing == Spec => []AuditMissesNothing
<1>1. GraphInv => AuditMissesNothing
    BY DEF GraphInv, Paged
<1> QED BY <1>1, GraphInvInvariant, PTL

=============================================================================
