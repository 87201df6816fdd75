----------------------------- MODULE SetupProofs -----------------------------
(***************************************************************************)
(* Proofs about how an audit is set up: Deployment, for any workspaces,    *)
(* passwords and versions and any number of commands, faults and edits;    *)
(* and ConfigLoad, for any settings in any sources.                        *)
(***************************************************************************)
EXTENDS Deployment, ConfigLoad, SequenceTheorems, TLAPS

(***************************************************************************)
(* The calls a command has left.  What makes a command safe is the order   *)
(* of its calls; an order that holds of the whole program holds of what is *)
(* left of it, until the earlier call has been made.                       *)
(***************************************************************************)
Ops == {"network", "image", "rebuild", "volume", "container", "exists", "start",
        "ready", "stop", "rm", "volume_rm", "try_volume_rm", "image_rm",
        "try_migrate", "migrate", "check", "inspect", "mount", "health",
        "projects", "admit"}
Calls == Ops \X Services

Precedes(p, first, then) ==
    \A k \in 1..Len(p) : p[k] = then => \E j \in 1..(k - 1) : p[j] \in first
Occurs(p, some) == \E k \in 1..Len(p) : p[k] \in some
Only(p, some) == \A k \in 1..Len(p) : p[k] \in some
\* A removal is followed by another call; coder_reset ends with the volume it
\* may fail to remove, and an audit's preflight with the row it opens.
Removals == {"rm"} \X Services
Finals == {"try_volume_rm", "admit"} \X Services
Ends(p) == \A k \in 1..Len(p) : /\ p[k] \in Removals => k < Len(p)
                                /\ p[k] \in Finals => k = Len(p)

LEMMA TailFacts ==
    ASSUME NEW p \in Seq(Calls), p # << >>
    PROVE  /\ Tail(p) \in Seq(Calls) /\ Len(p) \in Nat \ {0} /\ Len(Tail(p)) = Len(p) - 1
           /\ Head(p) = p[1] /\ \A k \in 1..Len(Tail(p)) : Tail(p)[k] = p[k + 1]
OBVIOUS

LEMMA EmptyFacts ==
    /\ << >> \in Seq(Calls) /\ Len(<< >>) = 0 /\ Ends(<< >>)
    /\ \A some : Only(<< >>, some)
    /\ \A first, then : Precedes(<< >>, first, then)
BY DEF Ends, Only, Precedes

LEMMA TailPrecedes ==
    ASSUME NEW p \in Seq(Calls), p # << >>
    PROVE  \A first, then : Precedes(p, first, then) =>
               /\ Head(p) # then
               /\ Head(p) \notin first => Precedes(Tail(p), first, then)
<1> SUFFICES ASSUME NEW first, NEW then, Precedes(p, first, then)
             PROVE  /\ Head(p) # then
                    /\ Head(p) \notin first => Precedes(Tail(p), first, then)
    OBVIOUS
<1>1. Head(p) # then
    BY TailFacts DEF Precedes
<1>2. ASSUME Head(p) \notin first, NEW k \in 1..Len(Tail(p)), Tail(p)[k] = then
      PROVE  \E j \in 1..(k - 1) : Tail(p)[j] \in first
    <2>1. PICK j \in 1..k : p[j] \in first
        BY <1>2, TailFacts DEF Precedes
    <2>2. j # 1
        BY <2>1, <1>2, TailFacts
    <2>3. j - 1 \in 1..(k - 1) /\ Tail(p)[j - 1] = p[j]
        BY <2>2, <1>2, TailFacts
    <2> QED BY <2>1, <2>3
<1> QED BY <1>1, <1>2 DEF Precedes

LEMMA TailOnly ==
    ASSUME NEW p \in Seq(Calls), p # << >>
    PROVE  \A some : Only(p, some) => Head(p) \in some /\ Only(Tail(p), some)
BY TailFacts DEF Only

LEMMA TailOccurs ==
    ASSUME NEW p \in Seq(Calls), p # << >>
    PROVE  \A some : Occurs(p, some) =>
               /\ Head(p) \notin some => Occurs(Tail(p), some)
               /\ Len(p) = 1 => Head(p) \in some
<1> SUFFICES ASSUME NEW some, NEW k \in 1..Len(p), p[k] \in some
             PROVE  /\ Head(p) \notin some => Occurs(Tail(p), some)
                    /\ Len(p) = 1 => Head(p) \in some
    BY DEF Occurs
<1>1. CASE k = 1
    BY <1>1, TailFacts
<1>2. CASE k # 1
    <2>1. k - 1 \in 1..Len(Tail(p)) /\ Tail(p)[k - 1] = p[k]
        BY <1>2, TailFacts
    <2>2. Occurs(Tail(p), some)
        BY <2>1 DEF Occurs
    <2>3. Len(p) # 1
        BY <1>2
    <2> QED BY <2>2, <2>3
<1> QED BY <1>1, <1>2

LEMMA TailEnds ==
    ASSUME NEW p \in Seq(Calls), p # << >>, Ends(p)
    PROVE  /\ Ends(Tail(p))
           /\ Head(p) \in Removals => Len(p) # 1
           /\ Head(p) \in Finals => Tail(p) = << >>
<1>1. /\ Head(p) \in Removals => Len(p) # 1
      /\ Head(p) \in Finals => Len(p) = 1
    <2>1. Len(p) \in Nat \ {0} /\ 1 \in 1..Len(p) /\ Head(p) = p[1]
        BY TailFacts
    <2>2. /\ p[1] \in Removals => 1 < Len(p)
          /\ p[1] \in Finals => 1 = Len(p)
        BY <2>1 DEF Ends
    <2>3. 1 < Len(p) => Len(p) # 1
        <3>1. \A n \in Nat : 1 < n => n # 1
            OBVIOUS
        <3> QED BY <2>1, <3>1, Zenon
    <2> QED BY <2>1, <2>2, <2>3, Zenon
<1>2. Len(p) = 1 => Tail(p) = << >>
    <2>1. Tail(p) \in Seq(Calls) /\ (Len(p) = 1 => Len(Tail(p)) = 0)
        BY TailFacts
    <2>2. \A s \in Seq(Calls) : s # << >> => Len(s) \in Nat \ {0}
        BY EmptySeq
    <2> QED BY <2>1, <2>2
<1>3. ASSUME NEW k \in 1..Len(Tail(p))
      PROVE  /\ Tail(p)[k] \in Removals => k < Len(Tail(p))
             /\ Tail(p)[k] \in Finals => k = Len(Tail(p))
    <2>1. k + 1 \in 1..Len(p) /\ Tail(p)[k] = p[k + 1]
        BY TailFacts
    <2>2. /\ p[k + 1] \in Removals => k + 1 < Len(p)
          /\ p[k + 1] \in Finals => k + 1 = Len(p)
        BY <2>1 DEF Ends
    <2> QED BY <2>1, <2>2, TailFacts
<1> QED BY <1>1, <1>2, <1>3 DEF Ends

LEMMA JoinFacts ==
    ASSUME NEW p \in Seq(Calls), NEW q \in Seq(Calls)
    PROVE  /\ p \o q \in Seq(Calls) /\ Len(p) \in Nat /\ Len(q) \in Nat
           /\ Len(p \o q) = Len(p) + Len(q)
           /\ \A k \in 1..Len(p) : (p \o q)[k] = p[k]
           /\ \A k \in 1..Len(q) : (p \o q)[Len(p) + k] = q[k]
           /\ \A k \in 1..Len(p \o q) :
                  k \in 1..Len(p) \/ \E l \in 1..Len(q) : k = Len(p) + l
<1>1. /\ p \o q \in Seq(Calls) /\ Len(p) \in Nat /\ Len(q) \in Nat
      /\ Len(p \o q) = Len(p) + Len(q)
      /\ \A k \in 1..Len(p) : (p \o q)[k] = p[k]
      /\ \A k \in 1..Len(q) : (p \o q)[Len(p) + k] = q[k]
    OBVIOUS
<1>2. ASSUME NEW k \in 1..Len(p \o q), k \notin 1..Len(p)
      PROVE  \E l \in 1..Len(q) : k = Len(p) + l
    <2>1. k - Len(p) \in 1..Len(q) /\ k = Len(p) + (k - Len(p))
        BY <1>1, <1>2
    <2> QED BY <2>1
<1> QED BY <1>1, <1>2

LEMMA JoinPrecedes ==
    ASSUME NEW p \in Seq(Calls), NEW q \in Seq(Calls), NEW first, NEW then,
           Precedes(p, first, then), Precedes(q, first, then) \/ Occurs(p, first)
    PROVE  Precedes(p \o q, first, then)
<1> SUFFICES ASSUME NEW k \in 1..Len(p \o q), (p \o q)[k] = then
             PROVE  \E j \in 1..(k - 1) : (p \o q)[j] \in first
    BY DEF Precedes
<1>1. CASE k \in 1..Len(p)
    BY <1>1, JoinFacts DEF Precedes
<1>2. CASE \E l \in 1..Len(q) : k = Len(p) + l
    <2>1. PICK l \in 1..Len(q) : k = Len(p) + l
        BY <1>2
    <2>2. CASE Occurs(p, first)
        <3>1. PICK j \in 1..Len(p) : p[j] \in first
            BY <2>2 DEF Occurs
        <3> QED BY <3>1, <2>1, JoinFacts
    <2>3. CASE Precedes(q, first, then)
        <3>1. PICK j \in 1..(l - 1) : q[j] \in first
            BY <2>1, <2>3, JoinFacts DEF Precedes
        <3>2. Len(p) + j \in 1..(k - 1) /\ (p \o q)[Len(p) + j] = q[j]
            BY <2>1, <3>1, JoinFacts
        <3> QED BY <3>1, <3>2
    <2> QED BY <2>2, <2>3
<1> QED BY <1>1, <1>2, JoinFacts

LEMMA JoinOnly ==
    ASSUME NEW p \in Seq(Calls), NEW q \in Seq(Calls), NEW some,
           Only(p, some), Only(q, some)
    PROVE  Only(p \o q, some)
BY JoinFacts DEF Only

LEMMA JoinOccurs ==
    ASSUME NEW p \in Seq(Calls), NEW q \in Seq(Calls), NEW some,
           Occurs(p, some) \/ Occurs(q, some)
    PROVE  Occurs(p \o q, some)
<1>1. CASE Occurs(p, some)
    BY <1>1, JoinFacts DEF Occurs
<1>2. CASE Occurs(q, some)
    <2>1. PICK k \in 1..Len(q) : q[k] \in some
        BY <1>2 DEF Occurs
    <2>2. Len(p) + k \in 1..Len(p \o q) /\ (p \o q)[Len(p) + k] = q[k]
        BY <2>1, JoinFacts
    <2> QED BY <2>1, <2>2 DEF Occurs
<1> QED BY <1>1, <1>2

(***************************************************************************)
(* What each command calls, and in which order.                            *)
(***************************************************************************)
Build == {"network", "image", "container", "exists", "start", "ready", "stop"} \X Services
         \cup {<<"volume", "reportdb">>, <<"try_migrate", "reportdb">>,
               <<"migrate", "reportdb">>, <<"rebuild", "coder">>}
Preflight ==
    {"check", "admit"} \X {"reportdb"}
    \cup {"inspect", "mount", "health", "projects"} \X {"coder"}

CallsOf(c) ==
    CASE c = "audit" -> Preflight
      [] c = "reportdb_reset" -> {"stop", "rm", "volume_rm", "image_rm"} \X {"reportdb"}
      [] c = "portal_reset" -> {"stop", "rm", "image_rm"} \X {"backend", "frontend"}
      [] c = "coder_reset" -> {"stop", "rm", "image_rm", "try_volume_rm"} \X {"coder"}
      [] OTHER -> Build

\* A container is created from an image that is there, on a volume that is
\* there, and started once it is there.
ImageFirst(p, s) == Precedes(p, {<<"image", s>>}, <<"container", s>>)
VolumeFirst(p) == Precedes(p, {<<"volume", "reportdb">>}, <<"container", "reportdb">>)
ContainerFirst(p, s) == Precedes(p, {<<"container", s>>, <<"exists", s>>}, <<"start", s>>)
\* Its image and its volume go after it.
RmFirst(p, s) == /\ Precedes(p, {<<"rm", s>>}, <<"image_rm", s>>)
                 /\ Precedes(p, {<<"rm", s>>}, <<"volume_rm", s>>)
ProjectsFirst(p) == Precedes(p, {<<"projects", "coder">>}, <<"admit", "reportdb">>)
Clearing(p, s) ==
    /\ Occurs(p, {<<"rm", s>>}) /\ Occurs(p, {<<"image_rm", s>>})
    /\ s \in Volumes => Occurs(p, {<<"volume_rm", s>>, <<"try_volume_rm", s>>})

Sound(c, p) ==
    /\ p \in Seq(Calls) /\ Only(p, CallsOf(c)) /\ Ends(p)
    /\ \A s \in Services : ImageFirst(p, s) /\ ContainerFirst(p, s) /\ RmFirst(p, s)
    /\ VolumeFirst(p)
    /\ cfg.coder => ProjectsFirst(p)
    /\ c \in DOMAIN Resets => \A s \in Resets[c] : Clearing(p, s)

LEMMA PlainSound ==
    \A c \in {"reportdb_start", "reportdb_stop", "portal_start", "portal_stop",
              "coder_build", "coder_init", "coder_start", "coder_stop", "migrate"} :
        Sound(c, Program(c))
<1> USE DEF Sound, Calls, Ops, Services, Only, CallsOf, Build, Ends, Removals, Finals,
            ImageFirst, ContainerFirst, RmFirst, VolumeFirst, ProjectsFirst, Precedes,
            Program, Resets
<1>1. Sound("reportdb_start", Program("reportdb_start"))
    BY DEF StoreStart
<1>2. Sound("reportdb_stop", Program("reportdb_stop"))
    OBVIOUS
<1>3. Sound("portal_start", Program("portal_start"))
    BY DEF PortalStart
<1>4. Sound("portal_stop", Program("portal_stop"))
    BY DEF PortalStop
<1>5. Sound("coder_build", Program("coder_build"))
    BY DEF CoderBuild
<1>6. Sound("coder_init", Program("coder_init"))
    BY DEF CoderInit
<1>7. Sound("coder_start", Program("coder_start"))
    BY DEF CoderStart
<1>8. Sound("coder_stop", Program("coder_stop"))
    OBVIOUS
<1>9. Sound("migrate", Program("migrate"))
    OBVIOUS
<1> HIDE DEF Sound, Program
<1> QED BY <1>1, <1>2, <1>3, <1>4, <1>5, <1>6, <1>7, <1>8, <1>9

LEMMA ResetSound ==
    \A c \in {"reportdb_reset", "portal_reset", "coder_reset"} : Sound(c, Program(c))
<1> USE DEF Sound, Calls, Ops, Services, Only, CallsOf, Ends, Removals, Finals, Volumes,
            ImageFirst, ContainerFirst, RmFirst, VolumeFirst, ProjectsFirst, Precedes,
            Program, Resets, Clearing, Occurs
<1>1. Sound("reportdb_reset", Program("reportdb_reset"))
    BY DEF StoreReset
<1>2. Sound("portal_reset", Program("portal_reset"))
    BY DEF PortalReset
<1>3. Sound("coder_reset", Program("coder_reset"))
    BY DEF CoderReset
<1> HIDE DEF Sound, Program
<1> QED BY <1>1, <1>2, <1>3

LEMMA AuditSound == Sound("audit", Program("audit"))
<1> DEFINE first == << <<"check", "reportdb">> >>
           last == << <<"admit", "reportdb">> >>
           checking == Preflight \ {<<"admit", "reportdb">>}
<1>1. /\ first \in Seq(Calls) /\ Only(first, checking) /\ ProjectsFirst(first)
      /\ last \in Seq(Calls) /\ Only(last, Preflight) /\ Len(last) = 1
    BY DEF Calls, Ops, Services, Only, Preflight, ProjectsFirst, Precedes
<1>2. /\ CoderChecks \in Seq(Calls) /\ Only(CoderChecks, checking)
      /\ ProjectsFirst(CoderChecks)
      /\ cfg.coder => Occurs(CoderChecks, {<<"projects", "coder">>})
    <2> DEFINE checks == << <<"inspect", "coder">>, <<"mount", "coder">>,
                            <<"health", "coder">>, <<"projects", "coder">> >>
    <2>1. /\ checks \in Seq(Calls) /\ Only(checks, checking) /\ ProjectsFirst(checks)
          /\ Occurs(checks, {<<"projects", "coder">>})
        BY DEF Calls, Ops, Services, Only, Preflight, ProjectsFirst, Precedes, Occurs
    <2>2. CoderChecks = IF cfg.coder THEN checks ELSE << >>
        BY DEF CoderChecks
    <2> HIDE DEF checks
    <2> QED BY <2>1, <2>2, EmptyFacts DEF ProjectsFirst
<1> HIDE DEF first, last, checking
<1>3. /\ first \o CoderChecks \in Seq(Calls) /\ Only(first \o CoderChecks, checking)
      /\ ProjectsFirst(first \o CoderChecks)
      /\ cfg.coder => Occurs(first \o CoderChecks, {<<"projects", "coder">>})
    <2>1. first \o CoderChecks \in Seq(Calls)
        BY <1>1, <1>2, JoinFacts
    <2>2. Only(first \o CoderChecks, checking)
        BY <1>1, <1>2, JoinOnly
    <2>3. ProjectsFirst(first \o CoderChecks)
        BY <1>1, <1>2, JoinPrecedes DEF ProjectsFirst
    <2>4. cfg.coder => Occurs(first \o CoderChecks, {<<"projects", "coder">>})
        BY <1>1, <1>2, JoinOccurs
    <2> QED BY <2>1, <2>2, <2>3, <2>4
<1>4. /\ RunAudit \in Seq(Calls) /\ Only(RunAudit, Preflight)
      /\ cfg.coder => ProjectsFirst(RunAudit)
    <2>1. RunAudit = first \o CoderChecks \o last
        BY DEF RunAudit, first, last
    <2>2. Only(first \o CoderChecks, Preflight)
        BY <1>3 DEF Only, checking
    <2> QED BY <1>1, <1>3, <2>1, <2>2, JoinFacts, JoinOnly, JoinPrecedes DEF ProjectsFirst
<1>5. VolumeFirst(RunAudit)
    BY <1>4 DEF Only, Preflight, VolumeFirst, Precedes
<1>7. Ends(RunAudit)
    <2> DEFINE p == first \o CoderChecks
    <2>1. p \in Seq(Calls) /\ Only(p, checking) /\ RunAudit = p \o last
        BY <1>3 DEF RunAudit, first, last
    <2> HIDE DEF p
    <2> SUFFICES ASSUME NEW k \in 1..Len(RunAudit)
                 PROVE  RunAudit[k] \notin Removals /\ (RunAudit[k] \in Finals => k = Len(RunAudit))
        BY DEF Ends
    <2>2. RunAudit[k] \in Preflight
        BY <1>4 DEF Only
    <2>3. /\ Len(p) \in Nat /\ Len(RunAudit) = Len(p) + 1
          /\ \A l \in 1..Len(p) : RunAudit[l] = p[l]
        <3>1. /\ Len(p) \in Nat /\ Len(p \o last) = Len(p) + Len(last)
              /\ \A l \in 1..Len(p) : (p \o last)[l] = p[l]
            BY <2>1, <1>1, JoinFacts
        <3> QED BY <2>1, <1>1, <3>1
    <2>4. RunAudit[k] \in checking \/ k = Len(RunAudit)
        BY <2>1, <2>3 DEF Only
    <2> QED BY <2>2, <2>4 DEF Removals, Finals, Preflight, checking
<1>6. ASSUME NEW s \in Services
      PROVE  ImageFirst(RunAudit, s) /\ ContainerFirst(RunAudit, s) /\ RmFirst(RunAudit, s)
    BY <1>4 DEF Only, Preflight, ImageFirst, ContainerFirst, RmFirst, Precedes
<1> QED BY <1>4, <1>5, <1>6, <1>7 DEF Sound, CallsOf, Program, Resets

\* The inits, alone and one after the other.
Inits(p) ==
    /\ p \in Seq(Calls) /\ Only(p, Build)
    /\ \A s \in Services : ImageFirst(p, s) /\ ContainerFirst(p, s)
    /\ VolumeFirst(p)

LEMMA InitsSound ==
    ASSUME NEW p, Inits(p), NEW c \in {"init_all", "reportdb_init", "portal_init"}
    PROVE  Sound(c, p)
<1>1. CallsOf(c) = Build /\ c \notin DOMAIN Resets
    BY DEF CallsOf, Resets
<1>2. Ends(p)
    BY DEF Inits, Only, Build, Ends, Removals, Finals
<1>3. \A s \in Services : RmFirst(p, s)
    BY DEF Inits, Only, Build, RmFirst, Precedes
<1>4. ProjectsFirst(p)
    BY DEF Inits, Only, Build, ProjectsFirst, Precedes
<1> QED BY <1>1, <1>2, <1>3, <1>4 DEF Sound, Inits

LEMMA InitsJoin ==
    ASSUME NEW p, NEW q, Inits(p), Inits(q)
    PROVE  Inits(p \o q)
<1>1. p \o q \in Seq(Calls) /\ Only(p \o q, Build)
    BY JoinFacts, JoinOnly DEF Inits
<1>2. ASSUME NEW s \in Services
      PROVE  ImageFirst(p \o q, s) /\ ContainerFirst(p \o q, s)
    BY JoinPrecedes DEF Inits, ImageFirst, ContainerFirst
<1>3. VolumeFirst(p \o q)
    BY JoinPrecedes DEF Inits, VolumeFirst
<1> QED BY <1>1, <1>2, <1>3 DEF Inits

LEMMA PortalUpJoins ==
    ASSUME NEW p, Inits(p), NEW s \in {"backend", "frontend"}, Occurs(p, {<<"image", s>>})
    PROVE  Inits(p \o PortalUp(s))
<1> DEFINE q == PortalUp(s)
<1>1. /\ q \in Seq(Calls) /\ Only(q, Build) /\ VolumeFirst(q)
      /\ \A r \in Services : (r # s => ImageFirst(q, r)) /\ ContainerFirst(q, r)
    BY DEF PortalUp, Calls, Ops, Services, Only, Build, VolumeFirst, ImageFirst,
           ContainerFirst, Precedes
<1> HIDE DEF q
<1>2. p \o q \in Seq(Calls) /\ Only(p \o q, Build) /\ VolumeFirst(p \o q)
    BY <1>1, JoinFacts, JoinOnly, JoinPrecedes DEF Inits, VolumeFirst
<1>3. ASSUME NEW r \in Services
      PROVE  ImageFirst(p \o q, r) /\ ContainerFirst(p \o q, r)
    BY <1>1, JoinPrecedes DEF Inits, ImageFirst, ContainerFirst
<1>4. Inits(p \o q)
    BY <1>2, <1>3 DEF Inits
<1> QED BY <1>4 DEF q

LEMMA InitsHold ==
    Inits(ReportdbInit) /\ Inits(PortalInit) /\ Inits(CoderInit) /\ Inits(<< >>)
<1> DEFINE migration == << <<"try_migrate", "reportdb">> >>
           backend == << <<"network", "backend">>, <<"image", "backend">> >>
           frontend == << <<"image", "frontend">> >>
<1>1. /\ Inits(StoreInit) /\ Inits(migration) /\ Inits(CoderInit) /\ Inits(<< >>)
      /\ Inits(backend) /\ Inits(frontend)
    <2> USE DEF Inits, Calls, Ops, Services, Only, Build, ImageFirst, ContainerFirst,
                VolumeFirst, Precedes
    <2>1. Inits(StoreInit)
        BY DEF StoreInit
    <2>2. Inits(CoderInit)
        BY DEF CoderInit
    <2>3. Inits(migration)
        OBVIOUS
    <2>4. Inits(<< >>)
        OBVIOUS
    <2>5. Inits(backend)
        OBVIOUS
    <2>6. Inits(frontend)
        OBVIOUS
    <2> HIDE DEF Inits
    <2> QED BY <2>1, <2>2, <2>3, <2>4, <2>5, <2>6
<1>2. /\ Occurs(backend, {<<"image", "backend">>})
      /\ Occurs(frontend, {<<"image", "frontend">>})
    BY DEF Occurs
<1>3. ReportdbInit = StoreInit \o migration
    BY DEF ReportdbInit
<1>4. PortalInit = backend \o PortalUp("backend") \o frontend \o PortalUp("frontend")
    BY DEF PortalInit
<1> HIDE DEF migration, backend, frontend
<1>5. Inits(backend \o PortalUp("backend"))
    BY <1>1, <1>2, PortalUpJoins
<1>6. /\ Inits(backend \o PortalUp("backend") \o frontend)
      /\ Occurs(backend \o PortalUp("backend") \o frontend, {<<"image", "frontend">>})
    BY <1>1, <1>2, <1>5, InitsJoin, JoinOccurs DEF Inits
<1>7. Inits(PortalInit)
    BY <1>4, <1>6, PortalUpJoins
<1> QED BY <1>1, <1>3, <1>7, InitsJoin

LEMMA ProgramSound == \A c \in Commands : Sound(c, Program(c))
<1>1. Sound("reportdb_init", Program("reportdb_init"))
    BY InitsHold, InitsSound DEF Program
<1>2. Sound("portal_init", Program("portal_init"))
    BY InitsHold, InitsSound DEF Program
<1>3. Sound("init_all", Program("init_all"))
    <2>1. Inits(ReportdbInit \o PortalInit)
        BY InitsHold, InitsJoin
    <2>2. Inits(IF cfg.coder THEN CoderInit ELSE << >>)
        BY InitsHold
    <2>3. Inits(InitAll)
        BY <2>1, <2>2, InitsJoin DEF InitAll
    <2> QED BY <2>3, InitsSound DEF Program
<1> QED BY <1>1, <1>2, <1>3, PlainSound, ResetSound, AuditSound DEF Commands

(***************************************************************************)
(* The inductive invariant.  Typed holds what the properties say of the    *)
(* state at rest; Ordered, what has been done or is still ahead of a call  *)
(* that relies on it; Auditing, that what preflight saw is still so.       *)
(***************************************************************************)
Budgets == [{"commands", "faults", "edits", "events"} -> Nat]
Audits == [state : {"none", "admitted"}, inspected : BOOLEAN,
           mount : Workspaces \cup {NoWorkspace}, workspace : Workspaces \cup {NoWorkspace}]

Typed ==
    /\ TypeOK /\ ServedSchema
    /\ cli \in [cmd : Commands \cup {"idle"}, steps : Seq(Calls)]
    /\ budget \in Budgets /\ audit \in Audits
    /\ \A s \in Services : img[s] <= pkg
    /\ ctr.reportdb # "absent" => "reportdb" \in vol

Building ==
    /\ \A s \in Services : /\ img[s] # 0 \/ ImageFirst(cli.steps, s)
                           /\ ctr[s] # "absent" \/ ContainerFirst(cli.steps, s)
    /\ "reportdb" \in vol \/ VolumeFirst(cli.steps)

VolumeCalls(s) == {<<"volume_rm", s>>, <<"try_volume_rm", s>>}
Resetting(s) ==
    /\ ctr[s] = "absent" \/ RmFirst(cli.steps, s)
    /\ Busy => /\ ctr[s] = "absent" \/ Occurs(cli.steps, {<<"rm", s>>})
               /\ img[s] = 0 \/ Occurs(cli.steps, {<<"image_rm", s>>})
               /\ s \notin vol \/ Occurs(cli.steps, VolumeCalls(s))

Ordered ==
    /\ Only(cli.steps, CallsOf(cli.cmd)) /\ Ends(cli.steps)
    /\ cli.cmd \notin DOMAIN Resets => Building
    /\ cli.cmd \in DOMAIN Resets => \A s \in Resets[cli.cmd] : Resetting(s)
    /\ cfg.coder => cfg.workspace \in {NoWorkspace, Home} \/ ProjectsFirst(cli.steps)

Auditing ==
    cli.cmd = "audit" /\ Busy => audit.state = "none" /\ (audit.inspected => MountMatches)

DInv == Typed /\ Ordered /\ Auditing /\ AdmittedTree

LEMMA DInit == Init => DInv
<1> SUFFICES ASSUME Init PROVE DInv
    OBVIOUS
<1>1. cli = [cmd |-> "idle", steps |-> << >>] /\ ~Busy
    BY DEF Init, Busy
<1>2. Ordered /\ Auditing /\ AdmittedTree
    <2>1. Building
        BY <1>1, EmptyFacts DEF Building, ImageFirst, ContainerFirst, VolumeFirst
    <2>2. cli.cmd \notin DOMAIN Resets
        BY <1>1 DEF Resets
    <2>3. Only(cli.steps, CallsOf(cli.cmd)) /\ Ends(cli.steps) /\ ProjectsFirst(cli.steps)
        BY <1>1, EmptyFacts DEF ProjectsFirst
    <2> QED BY <1>1, <2>1, <2>2, <2>3 DEF Ordered, Auditing, AdmittedTree, Init, NoAudit
<1>3. 1 \in Versions /\ Len(Heads) \in Nat
    BY HeadsAssumption DEF Versions
<1>4. TypeOK
    <2>1. /\ cfg \in Settings /\ pkg \in Versions /\ cfg.password \in Passwords
          /\ cli.cmd \in Commands \cup {"idle"} /\ audit.state \in {"none", "admitted"}
        BY <1>1, <1>3 DEF Init, Settings, NoAudit
    <2>2. /\ img \in [Services -> 0..Len(Heads)]
          /\ ctr \in [Services -> {"absent", "stopped", "running"}]
        BY <1>3 DEF Init, Versions
    <2>5. \A s \in Services : ctr[s] # "absent" => img[s] # 0
        BY DEF Init
    <2>3. vol \subseteq Volumes /\ schema \in Nat /\ (schema > 0 => "reportdb" \in vol)
        BY DEF Init, Volumes
    <2>4. baked \in [mount : Workspaces \cup {NoWorkspace}, container : Backable,
                    volume : Backable, backend : Backable, attached : BOOLEAN]
        <3>1. PICK c \in Backable, v \in Backable :
                  baked = [mount |-> NoWorkspace, container |-> c, volume |-> v,
                           backend |-> NoPassword, attached |-> FALSE]
            BY <2>1 DEF Init, NotBaked, Backable
        <3> QED BY <3>1 DEF Backable
    <2> QED BY <2>1, <2>2, <2>3, <2>4, <2>5 DEF TypeOK
<1>5. cli \in [cmd : Commands \cup {"idle"}, steps : Seq(Calls)]
    BY <1>1, EmptyFacts
<1>6. budget \in Budgets /\ audit \in Audits
    BY BudgetsAssumption DEF Init, Budgets, Audits, NoAudit
<1>7. ServedSchema /\ (\A s \in Services : img[s] <= pkg)
    BY DEF Init, ServedSchema, Services
<1>8. ctr.reportdb # "absent" => "reportdb" \in vol
    BY DEF Init, Services
<1> QED BY <1>2, <1>4, <1>5, <1>6, <1>7, <1>8 DEF DInv, Typed

LEMMA HeadClass ==
    ASSUME Typed, Ordered, NEW op, NEW s, At(op, s)
    PROVE  /\ op \in {"rm", "volume_rm", "try_volume_rm", "image_rm"}
               => cli.cmd \in DOMAIN Resets /\ s \in Resets[cli.cmd]
           /\ op \in {"network", "image", "container", "exists", "start", "ready", "volume",
                     "try_migrate", "migrate", "rebuild"}
               => cli.cmd \notin DOMAIN Resets /\ cli.cmd # "audit"
           /\ op \in {"check", "inspect", "mount", "health", "projects", "admit"}
               => cli.cmd = "audit" /\ cli.cmd \notin DOMAIN Resets
           /\ op = "stop" => cli.cmd # "audit"
           /\ op = "rebuild" => s = "coder"
           /\ op = "volume" => s = "reportdb"
           /\ op = "volume_rm" => s = "reportdb" /\ cli.cmd = "reportdb_reset"
           /\ op = "try_volume_rm" => s = "coder"
<1>1. <<op, s>> \in CallsOf(cli.cmd)
    BY TailOnly DEF At, Busy, Typed, Ordered
<1>2. cli.cmd \in Commands \cup {"idle"}
    BY DEF Typed
<1>3. CASE cli.cmd = "audit"
    BY <1>1, <1>3 DEF CallsOf, Preflight, Resets
<1>4. CASE cli.cmd = "reportdb_reset"
    BY <1>1, <1>4 DEF CallsOf, Resets
<1>5. CASE cli.cmd = "portal_reset"
    BY <1>1, <1>5 DEF CallsOf, Resets
<1>6. CASE cli.cmd = "coder_reset"
    BY <1>1, <1>6 DEF CallsOf, Resets
<1>7. CASE cli.cmd \notin {"audit", "reportdb_reset", "portal_reset", "coder_reset"}
    BY <1>1, <1>7 DEF CallsOf, Resets, Build
<1> QED BY <1>3, <1>4, <1>5, <1>6, <1>7

(***************************************************************************)
(* A command that goes on, and one that ends.                              *)
(***************************************************************************)
\* What a call that returns does for the calls after it.
Advances ==
    /\ cli.cmd \notin DOMAIN Resets =>
         /\ \A s \in Services :
              /\ img[s] # 0 \/ Head(cli.steps) = <<"image", s>> => img'[s] # 0
              /\ ctr[s] # "absent" \/ Head(cli.steps) \in {<<"container", s>>, <<"exists", s>>}
                   => ctr'[s] # "absent"
         /\ "reportdb" \in vol \/ Head(cli.steps) = <<"volume", "reportdb">>
              => "reportdb" \in vol'
    /\ cli.cmd \in DOMAIN Resets =>
         \A s \in Resets[cli.cmd] :
           /\ ctr[s] = "absent" \/ Head(cli.steps) = <<"rm", s>> => ctr'[s] = "absent"
           /\ img[s] = 0 \/ Head(cli.steps) = <<"image_rm", s>> => img'[s] = 0
           /\ s \notin vol \/ Head(cli.steps) \in VolumeCalls(s)
                => s \notin vol' \/ Tail(cli.steps) = << >>
    /\ Head(cli.steps) = <<"projects", "coder">> => cfg.workspace \in {NoWorkspace, Home}

LEMMA ReturnKeeps ==
    ASSUME Typed, Ordered, Busy, Return, Advances, cfg' = cfg
    PROVE  /\ cli' \in [cmd : Commands \cup {"idle"}, steps : Seq(Calls)]
           /\ cli'.cmd = cli.cmd /\ cli'.steps = Tail(cli.steps) /\ Ordered'
<1>1. cli \in [cmd : Commands \cup {"idle"}, steps : Seq(Calls)] /\ cli.steps # << >>
    BY DEF Typed, Busy
<1>2. /\ cli' \in [cmd : Commands \cup {"idle"}, steps : Seq(Calls)]
      /\ cli'.cmd = cli.cmd /\ cli'.steps = Tail(cli.steps)
    BY <1>1, TailFacts DEF Return
<1>3. Only(cli'.steps, CallsOf(cli'.cmd)) /\ Ends(cli'.steps)
    BY <1>1, <1>2, TailOnly, TailEnds DEF Ordered
<1>4. ASSUME cli.cmd \notin DOMAIN Resets
      PROVE  Building'
    <2>1. ASSUME NEW s \in Services
          PROVE  /\ img'[s] # 0 \/ ImageFirst(cli'.steps, s)
                 /\ ctr'[s] # "absent" \/ ContainerFirst(cli'.steps, s)
        <3>1. /\ img[s] # 0 \/ ImageFirst(cli.steps, s)
              /\ ctr[s] # "absent" \/ ContainerFirst(cli.steps, s)
            BY <1>4 DEF Ordered, Building
        <3>2. /\ img[s] # 0 \/ Head(cli.steps) = <<"image", s>> => img'[s] # 0
              /\ ctr[s] # "absent" \/ Head(cli.steps) \in {<<"container", s>>, <<"exists", s>>}
                   => ctr'[s] # "absent"
            BY <1>4 DEF Advances
        <3>3. img'[s] # 0 \/ ImageFirst(cli'.steps, s)
            BY <1>1, <1>2, <3>1, <3>2, TailPrecedes DEF ImageFirst
        <3>4. ctr'[s] # "absent" \/ ContainerFirst(cli'.steps, s)
            BY <1>1, <1>2, <3>1, <3>2, TailPrecedes DEF ContainerFirst
        <3> QED BY <3>3, <3>4
    <2>2. "reportdb" \in vol' \/ VolumeFirst(cli'.steps)
        BY <1>1, <1>2, <1>4, TailPrecedes DEF Ordered, Building, Advances, VolumeFirst
    <2> QED BY <2>1, <2>2 DEF Building
<1>5. ASSUME cli.cmd \in DOMAIN Resets, NEW s \in Resets[cli.cmd]
      PROVE  Resetting(s)'
    <2>1. Resetting(s)
        BY <1>5 DEF Ordered
    <2>2. ctr'[s] = "absent" \/ RmFirst(cli'.steps, s)
        BY <1>1, <1>2, <1>5, <2>1, TailPrecedes DEF Resetting, Advances, RmFirst
    <2>3. /\ ctr'[s] = "absent" \/ Occurs(cli'.steps, {<<"rm", s>>})
          /\ img'[s] = 0 \/ Occurs(cli'.steps, {<<"image_rm", s>>})
        BY <1>1, <1>2, <1>5, <2>1, TailOccurs DEF Resetting, Advances, Busy
    <2>4. s \notin vol' \/ Occurs(cli'.steps, VolumeCalls(s)) \/ ~Busy'
        BY <1>1, <1>2, <1>5, <2>1, TailOccurs DEF Resetting, Advances, Busy
    <2> QED BY <2>2, <2>3, <2>4 DEF Resetting
<1>6. cfg.coder => cfg.workspace \in {NoWorkspace, Home} \/ ProjectsFirst(cli'.steps)
    BY <1>1, <1>2, TailPrecedes DEF Ordered, Advances, ProjectsFirst
<1> QED BY <1>2, <1>3, <1>4, <1>5, <1>6 DEF Ordered

LEMMA EndKeeps ==
    ASSUME cli'.steps = << >>
    PROVE  Ordered' /\ Auditing'
<1>1. ~Busy'
    BY DEF Busy
<1>2. Only(cli'.steps, CallsOf(cli'.cmd)) /\ Ends(cli'.steps)
    BY EmptyFacts
<1>3. Building'
    BY EmptyFacts DEF Building, ImageFirst, ContainerFirst, VolumeFirst
<1>4. ASSUME NEW s PROVE Resetting(s)'
    BY <1>1, EmptyFacts DEF Resetting, RmFirst
<1>5. ProjectsFirst(cli'.steps)
    BY EmptyFacts DEF ProjectsFirst
<1>6. Ordered'
    BY <1>2, <1>3, <1>4, <1>5 DEF Ordered
<1> QED BY <1>1, <1>6 DEF Auditing

LEMMA RaiseKeeps ==
    ASSUME Typed, NEW remedy, Raise(remedy)
    PROVE  /\ cli' \in [cmd : Commands \cup {"idle"}, steps : Seq(Calls)]
           /\ cli'.cmd = cli.cmd /\ cli'.steps = << >> /\ Ordered' /\ Auditing'
<1>1. /\ cli' \in [cmd : Commands \cup {"idle"}, steps : Seq(Calls)]
      /\ cli'.cmd = cli.cmd /\ cli'.steps = << >>
    BY EmptyFacts DEF Typed, Raise
<1> QED BY <1>1, EndKeeps

LEMMA LaunchKeeps ==
    ASSUME Typed, NEW c \in Commands, Launch(c), AdmittedTree
    PROVE  /\ cli' \in [cmd : Commands \cup {"idle"}, steps : Seq(Calls)]
           /\ audit' \in Audits /\ Ordered' /\ Auditing' /\ AdmittedTree'
<1>1. cli' = [cmd |-> c, steps |-> IF Applicable(c) THEN Program(c) ELSE << >>]
    BY DEF Launch
<1>2. Sound(c, Program(c))
    BY ProgramSound
<1>3. cli' \in [cmd : Commands \cup {"idle"}, steps : Seq(Calls)] /\ cli'.cmd = c
    BY <1>1, <1>2, EmptyFacts DEF Sound
<1>4. audit' \in Audits /\ AdmittedTree'
    BY DEF Launch, Typed, Audits, NoAudit, AdmittedTree
<1>5. CASE cli'.steps = << >>
    BY <1>3, <1>4, <1>5, EndKeeps
<1>6. CASE cli'.steps = Program(c)
    <2>1. Only(cli'.steps, CallsOf(cli'.cmd)) /\ Ends(cli'.steps)
        BY <1>2, <1>3, <1>6 DEF Sound
    <2>2. Building' /\ \A s \in Services : RmFirst(cli'.steps, s)
        BY <1>2, <1>6 DEF Sound, Building
    <2>3. ASSUME c \in DOMAIN Resets, NEW s \in Resets[c] PROVE Resetting(s)'
        <3>1. s \in Services
            BY <2>3 DEF Resets, Services
        <3>2. Clearing(cli'.steps, s)
            BY <1>2, <1>6, <2>3 DEF Sound
        <3>3. s \notin vol' \/ s \in Volumes
            BY DEF Launch, docker, Typed, TypeOK
        <3> QED BY <2>2, <3>1, <3>2, <3>3 DEF Resetting, Clearing, VolumeCalls
    <2>4. cfg' = cfg
        BY DEF Launch
    <2>5. cfg.coder => ProjectsFirst(cli'.steps)
        BY <1>2, <1>6 DEF Sound
    <2>6. Ordered'
        BY <1>3, <2>1, <2>2, <2>3, <2>4, <2>5 DEF Ordered
    <2>7. Auditing'
        BY <1>3 DEF Auditing, Launch, NoAudit
    <2> QED BY <1>3, <1>4, <2>6, <2>7
<1> QED BY <1>1, <1>5, <1>6

(***************************************************************************)
(* The docker calls.                                                       *)
(***************************************************************************)
LEMMA HeadsFacts ==
    /\ Len(Heads) \in Nat /\ Versions = 1..Len(Heads)
    /\ \A v \in Versions : Heads[v] \in Nat
    /\ \A v, w \in Versions : v <= w => Heads[v] <= Heads[w]
BY HeadsAssumption DEF Versions

LEMMA StepKeeps ==
    ASSUME DInv, Busy, Return, Advances, Typed', UNCHANGED <<cfg, audit>>,
           cli.cmd # "audit"
    PROVE  DInv'
<1>1. Ordered' /\ cli'.cmd = cli.cmd
    BY ReturnKeeps DEF DInv
<1> QED BY <1>1 DEF DInv, Auditing, AdmittedTree

LEMMA RaisedKeeps ==
    ASSUME DInv, NEW remedy, Raise(remedy), UNCHANGED <<cfg, pkg, docker, budget, audit>>
    PROVE  DInv'
<1>1. /\ cli' \in [cmd : Commands \cup {"idle"}, steps : Seq(Calls)]
      /\ Ordered' /\ Auditing'
    BY RaiseKeeps DEF DInv
<1>2. Typed'
    BY <1>1 DEF DInv, Typed, TypeOK, ServedSchema, docker
<1> QED BY <1>1, <1>2 DEF DInv, AdmittedTree

LEMMA ReturnTyped ==
    ASSUME Typed, Busy, Return
    PROVE  cli' \in [cmd : Commands \cup {"idle"}, steps : Seq(Calls)] /\ cli'.cmd = cli.cmd
<1>1. cli \in [cmd : Commands \cup {"idle"}, steps : Seq(Calls)] /\ cli.steps # << >>
    BY DEF Typed, Busy
<1> QED BY <1>1, TailFacts DEF Return

\* A call that leaves docker as it is.
LEMMA IdleKeeps ==
    ASSUME DInv, NEW op, NEW s, At(op, s), Return, UNCHANGED <<cfg, pkg, docker, budget, audit>>,
           op \in {"network", "ready", "exists"}, op = "exists" => ctr[s] # "absent"
    PROVE  DInv'
<1>1. Typed /\ Ordered /\ Busy /\ Head(cli.steps) = <<op, s>>
    BY DEF DInv, At
<1>2. cli.cmd \notin DOMAIN Resets /\ cli.cmd # "audit"
    BY <1>1, HeadClass
<1>3. Typed'
    BY <1>1, ReturnTyped DEF Typed, TypeOK, ServedSchema, docker
<1>4. Advances
    BY <1>1, <1>2 DEF Advances, docker
<1> QED BY <1>1, <1>2, <1>3, <1>4, StepKeeps

LEMMA ImageKeeps ==
    ASSUME DInv, NEW s \in Services, Image(s) \/ Rebuild(s), UNCHANGED <<cfg, pkg, budget, audit>>
    PROVE  DInv'
<1>1. PICK op \in {"image", "rebuild"} : At(op, s)
    BY DEF Image, Rebuild
<1>2. Typed /\ Ordered /\ Busy /\ Head(cli.steps) = <<op, s>> /\ Return
    BY <1>1 DEF DInv, At, Image, Rebuild
<1>3. cli.cmd \notin DOMAIN Resets /\ cli.cmd # "audit"
    BY <1>1, <1>2, HeadClass
<1>4. /\ img' \in [Services -> 0..Len(Heads)] /\ img'[s] # 0
      /\ \A r \in Services : img'[r] = img[r] \/ (img'[r] = pkg /\ (img[r] = 0 \/ r = "coder"))
      /\ UNCHANGED <<ctr, vol, baked, schema>>
    <2>1. /\ img \in [Services -> 0..Len(Heads)] /\ pkg \in 1..Len(Heads) /\ Len(Heads) \in Nat
        BY <1>2, HeadsFacts DEF Typed, TypeOK
    <2>2. CASE Image(s)
        BY <2>1, <2>2 DEF Image
    <2>3. CASE Rebuild(s)
        <3>1. s = "coder"
            BY <1>2, <2>3, HeadClass DEF Rebuild
        <3> QED BY <2>1, <2>3, <3>1 DEF Rebuild
    <2> QED BY <2>2, <2>3
<1>5. \A r \in Services : /\ img'[r] <= pkg /\ (img[r] # 0 => img'[r] # 0)
                          /\ ctr[r] # "absent" /\ r # "coder" => img'[r] = img[r]
    BY <1>2, <1>4, HeadsFacts DEF Typed, TypeOK
<1>6. ServedSchema'
    BY <1>2, <1>4, <1>5 DEF Typed, TypeOK, ServedSchema, Services
<1>7. Typed'
    BY <1>2, <1>4, <1>5, <1>6, ReturnTyped DEF Typed, TypeOK
<1>8. Advances
    BY <1>2, <1>3, <1>4, <1>5 DEF Advances
<1> QED BY <1>2, <1>3, <1>7, <1>8, StepKeeps

LEMMA VolumeKeeps ==
    ASSUME DInv, NEW s \in Services, Volume(s), UNCHANGED <<cfg, pkg, budget, audit>>
    PROVE  DInv'
<1>1. Typed /\ Ordered /\ Busy /\ At("volume", s) /\ Head(cli.steps) = <<"volume", s>> /\ Return
    BY DEF DInv, At, Volume
<1>2. cli.cmd \notin DOMAIN Resets /\ cli.cmd # "audit" /\ s = "reportdb"
    BY <1>1, HeadClass
<1>3. Typed'
    BY <1>1, <1>2, ReturnTyped DEF Typed, TypeOK, ServedSchema, Services, Volumes, Volume
<1>4. Advances
    BY <1>1, <1>2 DEF Advances, Volume
<1> QED BY <1>1, <1>2, <1>3, <1>4, StepKeeps

LEMMA CreateKeeps ==
    ASSUME DInv, NEW s \in Services, Create(s), UNCHANGED <<cfg, pkg, budget, audit>>
    PROVE  DInv'
<1>1. /\ Typed /\ Ordered /\ Busy /\ At("container", s) /\ Return
      /\ Head(cli.steps) = <<"container", s>>
    BY DEF DInv, At, Create
<1>2. cli.cmd \notin DOMAIN Resets /\ cli.cmd # "audit"
    BY <1>1, HeadClass
<1>3. img[s] # 0 /\ (s = "reportdb" => "reportdb" \in vol)
    BY <1>1, <1>2, TailPrecedes DEF Ordered, Building, Typed, Busy, ImageFirst, VolumeFirst
<1>4. baked' \in [mount : Workspaces \cup {NoWorkspace}, container : Backable,
                  volume : Backable, backend : Backable, attached : BOOLEAN]
    BY <1>1 DEF Create, Created, Typed, TypeOK, Settings, Backable
<1>5. Typed'
    BY <1>1, <1>3, <1>4, ReturnTyped DEF Typed, TypeOK, ServedSchema, Services, Volumes, Create
<1>6. Advances
    BY <1>1, <1>2 DEF Advances, Create, Typed, TypeOK
<1> QED BY <1>1, <1>2, <1>5, <1>6, StepKeeps

LEMMA ReuseKeeps ==
    ASSUME DInv, NEW s \in Services, Reuse(s), UNCHANGED <<cfg, pkg, budget, audit>>
    PROVE  DInv'
<1>1. /\ Typed /\ Ordered /\ Busy /\ At("container", s)
      /\ Head(cli.steps) = <<"container", s>>
    BY DEF DInv, At, Reuse
<1>2. cli.cmd \notin DOMAIN Resets /\ cli.cmd # "audit"
    BY <1>1, HeadClass
<1>3. CASE s = "coder" /\ ~MountMatches
    BY <1>3, RaisedKeeps DEF Reuse, docker
<1>4. CASE ~(s = "coder" /\ ~MountMatches)
    <2>1. /\ Return /\ UNCHANGED <<img, ctr, vol, schema>> /\ ctr[s] # "absent"
          /\ baked' \in [mount : Workspaces \cup {NoWorkspace}, container : Backable,
                         volume : Backable, backend : Backable, attached : BOOLEAN]
        BY <1>1, <1>4 DEF Reuse, Typed, TypeOK
    <2>2. Typed'
        BY <1>1, <2>1, ReturnTyped DEF Typed, TypeOK, ServedSchema
    <2>3. Advances
        BY <1>1, <1>2, <2>1 DEF Advances
    <2> QED BY <1>1, <1>2, <2>1, <2>2, <2>3, StepKeeps
<1> QED BY <1>3, <1>4

LEMMA ExistsKeeps ==
    ASSUME DInv, NEW s \in Services, Exists(s) \/ Ready(s) \/ Network(s),
           UNCHANGED <<cfg, pkg, budget, audit>>
    PROVE  DInv'
<1>1. CASE Exists(s)
    BY <1>1, IdleKeeps, RaisedKeeps DEF Exists
<1>2. CASE Ready(s)
    BY <1>2, IdleKeeps, RaisedKeeps DEF Ready
<1>3. CASE Network(s)
    BY <1>3, IdleKeeps DEF Network
<1> QED BY <1>1, <1>2, <1>3

\* A start finds the container that it starts.
LEMMA StartFinds ==
    ASSUME DInv, NEW s \in Services, At("start", s)
    PROVE  /\ Typed /\ Ordered /\ Busy /\ Head(cli.steps) = <<"start", s>>
           /\ ctr[s] # "absent" /\ cli.cmd \notin DOMAIN Resets /\ cli.cmd # "audit"
<1>1. Typed /\ Ordered /\ Busy /\ Head(cli.steps) = <<"start", s>>
    BY DEF DInv, At
<1>2. cli.cmd \notin DOMAIN Resets /\ cli.cmd # "audit"
    BY <1>1, HeadClass
<1>3. ctr[s] # "absent" \/ ContainerFirst(cli.steps, s)
    BY <1>1, <1>2 DEF Ordered, Building
<1>4. ctr[s] # "absent"
    BY <1>1, <1>3, TailPrecedes DEF Typed, Busy, ContainerFirst
<1> QED BY <1>1, <1>2, <1>4

LEMMA StartKeeps ==
    ASSUME DInv, NEW s \in Services, Start(s), UNCHANGED <<cfg, pkg, budget, audit>>
    PROVE  DInv'
<1>1. /\ Typed /\ Ordered /\ Busy /\ Head(cli.steps) = <<"start", s>> /\ Return
      /\ ctr[s] # "absent" /\ cli.cmd \notin DOMAIN Resets /\ cli.cmd # "audit"
    BY StartFinds DEF Start
<1>2. Typed'
    BY <1>1, ReturnTyped DEF Typed, TypeOK, ServedSchema, Services, Start
<1>3. Advances
    BY <1>1 DEF Advances, Start, Typed, TypeOK
<1> QED BY <1>1, <1>2, <1>3, StepKeeps

LEMMA StartStoreKeeps ==
    ASSUME DInv, StartStore, UNCHANGED <<cfg, pkg, budget, audit>>
    PROVE  DInv'
<1>1. /\ Typed /\ Ordered /\ Busy /\ Head(cli.steps) = <<"start", "reportdb">> /\ Return
      /\ ctr.reportdb # "absent" /\ cli.cmd \notin DOMAIN Resets /\ cli.cmd # "audit"
    BY StartFinds DEF StartStore, Services
<1>2. baked' \in [mount : Workspaces \cup {NoWorkspace}, container : Backable,
                  volume : Backable, backend : Backable, attached : BOOLEAN]
    BY <1>1 DEF StartStore, Typed, TypeOK
<1>3. Typed'
    BY <1>1, <1>2, ReturnTyped DEF Typed, TypeOK, ServedSchema, Services, StartStore
<1>4. Advances
    BY <1>1 DEF Advances, StartStore, Typed, TypeOK, Services
<1> QED BY <1>1, <1>3, <1>4, StepKeeps

LEMMA StartBackendKeeps ==
    ASSUME DInv, StartBackend, UNCHANGED <<cfg, pkg, budget, audit>>
    PROVE  DInv'
<1>1. /\ Typed /\ Ordered /\ Busy /\ Head(cli.steps) = <<"start", "backend">> /\ Return
      /\ ctr.backend # "absent" /\ cli.cmd \notin DOMAIN Resets /\ cli.cmd # "audit"
    BY StartFinds DEF StartBackend, Services
<1>2. CASE ctr.backend = "running" \/ ~BackendServes
    <2>1. UNCHANGED docker
        BY <1>2 DEF StartBackend, docker
    <2>2. Typed'
        BY <1>1, <2>1, ReturnTyped DEF Typed, TypeOK, ServedSchema, docker
    <2>3. Advances
        BY <1>1, <2>1 DEF Advances, docker
    <2> QED BY <1>1, <2>2, <2>3, StepKeeps
<1>3. CASE ~(ctr.backend = "running" \/ ~BackendServes)
    <2>1. /\ ctr' = [ctr EXCEPT !.backend = "running"] /\ schema' = Heads[img.backend]
          /\ UNCHANGED <<img, vol, baked>> /\ ctr.reportdb = "running"
        BY <1>3 DEF StartBackend, BackendServes, Reachable
    <2>2. img.backend \in Versions
        BY <1>1, HeadsFacts DEF Typed, TypeOK, Services
    <2>3. schema' \in Nat /\ "reportdb" \in vol /\ schema' >= Heads[img.backend]
        BY <1>1, <2>1, <2>2, HeadsFacts DEF Typed
    <2>4. Typed'
        BY <1>1, <2>1, <2>3, ReturnTyped DEF Typed, TypeOK, ServedSchema, Services
    <2>5. Advances
        BY <1>1, <2>1 DEF Advances, Typed, TypeOK, Services
    <2> QED BY <1>1, <2>4, <2>5, StepKeeps
<1> QED BY <1>2, <1>3

LEMMA StopKeeps ==
    ASSUME DInv, NEW s \in Services, Stop(s), UNCHANGED <<cfg, pkg, budget, audit>>
    PROVE  DInv'
<1>1. Typed /\ Ordered /\ Busy /\ At("stop", s) /\ Head(cli.steps) = <<"stop", s>> /\ Return
    BY DEF DInv, At, Stop
<1>2. cli.cmd # "audit"
    BY <1>1, HeadClass
<1>3. /\ ctr' \in [Services -> {"absent", "stopped", "running"}]
      /\ \A r \in Services : /\ ctr'[r] = "absent" <=> ctr[r] = "absent"
                             /\ ctr'[r] = "running" => ctr[r] = "running"
    BY <1>1 DEF Stop, Typed, TypeOK
<1>4. Typed'
    BY <1>1, <1>3, ReturnTyped DEF Typed, TypeOK, ServedSchema, Services, Stop
<1>5. \A c \in DOMAIN Resets : Resets[c] \subseteq Services
    BY DEF Resets, Services
<1>6. Advances
    BY <1>1, <1>3, <1>5 DEF Advances, Stop, VolumeCalls
<1> QED BY <1>1, <1>2, <1>4, <1>6, StepKeeps

LEMMA RmKeeps ==
    ASSUME DInv, NEW s \in Services, Rm(s), UNCHANGED <<cfg, pkg, budget, audit>>
    PROVE  DInv'
<1>1. Typed /\ Ordered /\ Busy /\ At("rm", s) /\ Head(cli.steps) = <<"rm", s>>
    BY DEF DInv, At, Rm
<1>2. cli.cmd \in DOMAIN Resets /\ s \in Resets[cli.cmd]
    BY <1>1, HeadClass
<1>3. cli.cmd # "audit" /\ Resets[cli.cmd] \subseteq Services
    BY <1>2 DEF Resets, Services
<1>4. CASE ctr[s] = "running"
    BY <1>4, RaisedKeeps DEF Rm, docker
<1>5. CASE ctr[s] # "running"
    <2>1. ctr' = [ctr EXCEPT ![s] = "absent"] /\ Return /\ UNCHANGED <<img, vol, baked, schema>>
        BY <1>5 DEF Rm
    <2>2. Typed'
        BY <1>1, <2>1, ReturnTyped DEF Typed, TypeOK, ServedSchema, Services
    <2>3. Advances
        BY <1>1, <1>2, <1>3, <2>1 DEF Advances, VolumeCalls, Typed, TypeOK
    <2> QED BY <1>1, <1>3, <2>1, <2>2, <2>3, StepKeeps
<1> QED BY <1>4, <1>5

\* By the time a volume or an image is removed, its container is gone.
LEMMA RmDone ==
    ASSUME DInv, NEW s \in Services, NEW op \in {"volume_rm", "image_rm"}, At(op, s)
    PROVE  ctr[s] = "absent"
<1>1. Typed /\ Ordered /\ Busy /\ Head(cli.steps) = <<op, s>>
    BY DEF DInv, At
<1>2. cli.cmd \in DOMAIN Resets /\ s \in Resets[cli.cmd]
    BY <1>1, HeadClass
<1>3. ctr[s] = "absent" \/ RmFirst(cli.steps, s)
    BY <1>1, <1>2 DEF Ordered, Resetting
<1> QED BY <1>1, <1>3, TailPrecedes DEF Typed, Busy, RmFirst

LEMMA VolumeRmKeeps ==
    ASSUME DInv, NEW s \in Services, VolumeRm(s), UNCHANGED <<cfg, pkg, budget, audit>>
    PROVE  DInv'
<1>1. PICK op \in {"volume_rm", "try_volume_rm"} : At(op, s)
    BY DEF VolumeRm
<1>2. Typed /\ Ordered /\ Busy /\ Head(cli.steps) = <<op, s>> /\ Return
    BY <1>1 DEF DInv, At, VolumeRm
<1>3. cli.cmd \in DOMAIN Resets /\ s \in Resets[cli.cmd]
    BY <1>1, <1>2, HeadClass
<1>4. cli.cmd # "audit" /\ Resets[cli.cmd] \subseteq Services
    BY <1>3 DEF Resets, Services
<1>5. s = "reportdb" => ctr[s] = "absent"
    BY <1>1, <1>2, HeadClass, RmDone
<1>6. /\ baked' \in [mount : Workspaces \cup {NoWorkspace}, container : Backable,
                     volume : Backable, backend : Backable, attached : BOOLEAN]
      /\ schema' \in Nat /\ (schema' > 0 => "reportdb" \in vol') /\ schema' \in {schema, 0}
    <2>1. CASE s = "reportdb"
        BY <1>2, <2>1 DEF VolumeRm, Typed, TypeOK, Backable
    <2>2. CASE s # "reportdb"
        BY <1>2, <2>2 DEF VolumeRm, Typed, TypeOK
    <2> QED BY <2>1, <2>2
<1>7. Typed'
    BY <1>2, <1>5, <1>6, ReturnTyped DEF Typed, TypeOK, ServedSchema, VolumeRm
<1>8. Advances
    BY <1>2, <1>3, <1>4 DEF Advances, VolumeCalls, VolumeRm
<1> QED BY <1>2, <1>4, <1>7, <1>8, StepKeeps

LEMMA ImageRmKeeps ==
    ASSUME DInv, NEW s \in Services, ImageRm(s), UNCHANGED <<cfg, pkg, budget, audit>>
    PROVE  DInv'
<1>1. /\ Typed /\ Ordered /\ Busy /\ At("image_rm", s) /\ Return
      /\ Head(cli.steps) = <<"image_rm", s>>
    BY DEF DInv, At, ImageRm
<1>2. cli.cmd \in DOMAIN Resets /\ s \in Resets[cli.cmd] /\ ctr[s] = "absent"
    BY <1>1, HeadClass, RmDone
<1>3. cli.cmd # "audit" /\ Resets[cli.cmd] \subseteq Services
    BY <1>2 DEF Resets, Services
<1>4. Typed'
    BY <1>1, <1>2, ReturnTyped, HeadsFacts DEF Typed, TypeOK, ServedSchema, Services, ImageRm
<1>5. Advances
    BY <1>1, <1>2, <1>3 DEF Advances, VolumeCalls, ImageRm, Typed, TypeOK
<1> QED BY <1>1, <1>3, <1>4, <1>5, StepKeeps

LEMMA MigrateKeeps ==
    ASSUME DInv, Migrate, UNCHANGED <<cfg, pkg, budget, audit>>
    PROVE  DInv'
<1>1. PICK op \in {"try_migrate", "migrate"} : At(op, "reportdb")
    BY DEF Migrate
<1>2. Typed /\ Ordered /\ Busy /\ Head(cli.steps) = <<op, "reportdb">>
    BY <1>1 DEF DInv, At
<1>3. cli.cmd \notin DOMAIN Resets /\ cli.cmd # "audit"
    BY <1>1, <1>2, HeadClass
<1>4. CASE Reachable(cfg.password) /\ Migratable(pkg)
    <2>1. /\ schema' = Heads[pkg] /\ Return /\ UNCHANGED <<img, ctr, vol, baked>>
          /\ ctr.reportdb = "running"
        BY <1>4 DEF Migrate, Reachable
    <2>2. schema' \in Nat /\ "reportdb" \in vol
        BY <1>2, <2>1, HeadsFacts DEF Typed, TypeOK
    <2>3. ctr.backend = "running" => schema' >= Heads[img.backend]
        <3>1. ctr.backend = "running" => img.backend \in Versions /\ img.backend <= pkg
            BY <1>2, HeadsFacts DEF Typed, TypeOK, Services
        <3> QED BY <1>2, <2>1, <3>1, HeadsFacts DEF Typed, TypeOK
    <2>4. Typed'
        BY <1>2, <2>1, <2>2, <2>3, ReturnTyped DEF Typed, TypeOK, ServedSchema
    <2>5. Advances
        BY <1>2, <1>3, <2>1 DEF Advances
    <2> QED BY <1>2, <1>3, <2>1, <2>4, <2>5, StepKeeps
<1>5. CASE ~(Reachable(cfg.password) /\ Migratable(pkg))
    <2>1. UNCHANGED docker /\ (Raise(<< >>) \/ Return)
        BY <1>5 DEF Migrate, docker
    <2>2. CASE Raise(<< >>)
        BY <2>1, <2>2, RaisedKeeps
    <2>3. CASE Return
        <3>1. Typed'
            BY <1>2, <2>1, <2>3, ReturnTyped DEF Typed, TypeOK, ServedSchema, docker
        <3>2. Advances
            BY <1>2, <1>3, <2>1 DEF Advances, docker
        <3> QED BY <1>2, <1>3, <2>3, <3>1, <3>2, StepKeeps
    <2> QED BY <2>1, <2>2, <2>3
<1> QED BY <1>4, <1>5

(***************************************************************************)
(* Preflight, faults and the operator.                                     *)
(***************************************************************************)
\* A check that passes.
LEMMA PassKeeps ==
    ASSUME DInv, NEW op \in {"check", "inspect", "mount", "health", "projects"}, NEW s,
           At(op, s), Return, UNCHANGED <<cfg, pkg, img, vol, baked, schema, budget>>,
           ctr' = ctr \/ (ctr.coder # "absent" /\ ctr' = [ctr EXCEPT !.coder = "running"]),
           audit' = audit \/ (MountMatches /\ audit' = [audit EXCEPT !.inspected = TRUE]),
           op = "projects" => cfg.workspace \in {NoWorkspace, Home}
    PROVE  DInv'
<1>1. Typed /\ Ordered /\ Busy /\ Head(cli.steps) = <<op, s>>
    BY DEF DInv, At
<1>2. cli.cmd = "audit" /\ cli.cmd \notin DOMAIN Resets
    BY <1>1, HeadClass
<1>3. /\ ctr' \in [Services -> {"absent", "stopped", "running"}]
      /\ \A r \in Services : (ctr'[r] = "absent") = (ctr[r] = "absent")
      /\ ctr'.backend = ctr.backend
    BY <1>1 DEF Typed, TypeOK, Services
<1>4. /\ audit' \in Audits /\ audit'.state = "none"
      /\ audit'.inspected => MountMatches
    BY <1>1, <1>2 DEF Typed, DInv, Auditing, Audits
<1>5. Typed'
    BY <1>1, <1>3, <1>4, ReturnTyped DEF Typed, TypeOK, ServedSchema, Services
<1>6. Advances
    BY <1>1, <1>2, <1>3 DEF Advances
<1>7. Ordered'
    BY <1>1, <1>6, ReturnKeeps
<1>8. Auditing' /\ AdmittedTree'
    BY <1>4 DEF Auditing, AdmittedTree, MountMatches
<1> QED BY <1>5, <1>7, <1>8 DEF DInv

LEMMA PreflightKeeps ==
    ASSUME DInv, Check \/ Inspect \/ Mount \/ Health \/ Projects, UNCHANGED <<cfg, pkg, budget>>
    PROVE  DInv'
<1>1. CASE Check
    BY <1>1, PassKeeps, RaisedKeeps DEF Check, docker
<1>2. CASE Inspect
    BY <1>2, PassKeeps, RaisedKeeps DEF Inspect, docker
<1>3. CASE Mount
    BY <1>3, PassKeeps, RaisedKeeps DEF Mount, docker
<1>4. CASE Health
    BY <1>4, PassKeeps, RaisedKeeps DEF Health, docker
<1>5. CASE Projects
    BY <1>5, PassKeeps, RaisedKeeps DEF Projects, docker
<1> QED BY <1>1, <1>2, <1>3, <1>4, <1>5

LEMMA AdmitKeeps ==
    ASSUME DInv, Admit, UNCHANGED <<cfg, pkg, budget>>
    PROVE  DInv'
<1>1. /\ Typed /\ Ordered /\ Busy /\ At("admit", "reportdb") /\ Return
      /\ Head(cli.steps) = <<"admit", "reportdb">>
    BY DEF DInv, At, Admit
<1>2. cli.cmd = "audit"
    BY <1>1, HeadClass
<1>3. cfg.coder => cfg.workspace \in {NoWorkspace, Home}
    BY <1>1, TailPrecedes DEF Ordered, Typed, Busy, ProjectsFirst
<1>4. audit.inspected => MountMatches
    BY <1>1, <1>2 DEF DInv, Auditing
<1>5. audit' \in Audits /\ AdmittedTree'
    BY <1>1, <1>3, <1>4 DEF Admit, Typed, TypeOK, Audits, Settings, AdmittedTree, MountMatches
<1>6. cli'.steps = << >> /\ cli' \in [cmd : Commands \cup {"idle"}, steps : Seq(Calls)]
    <2>1. <<"admit", "reportdb">> \in Finals
        BY DEF Finals, Services
    <2>2. Tail(cli.steps) = << >>
        BY <1>1, <2>1, TailEnds DEF Ordered, Typed, Busy
    <2> QED BY <1>1, <2>2, ReturnTyped DEF Return, Typed
<1>7. Typed'
    BY <1>1, <1>5, <1>6 DEF Admit, docker, Typed, TypeOK, ServedSchema
<1> QED BY <1>5, <1>6, <1>7, EndKeeps DEF DInv

LEMMA SpendTyped ==
    ASSUME budget \in Budgets, NEW kind \in {"commands", "faults", "edits"},
           Left(kind), Spend(kind)
    PROVE  budget' \in Budgets /\ budget' # budget
<1> DEFINE b == [budget EXCEPT ![kind] = budget[kind] - 1]
<1>1. b \in Budgets /\ b.events = budget.events /\ budget.events \in Nat /\ budget.events > 0
    BY DEF Budgets, Left
<1>2. budget' = [b EXCEPT !.events = budget.events - 1]
    BY Zenon DEF Spend
<1> HIDE DEF b
<1>3. budget' \in Budgets
    BY <1>1, <1>2 DEF Budgets
<1>4. budget'.events # budget.events
    BY <1>1, <1>2 DEF Budgets
<1> QED BY <1>3, <1>4

LEMMA FaultKeeps == DInv /\ Fault => DInv'
<1> SUFFICES ASSUME DInv, Fault PROVE DInv'
    OBVIOUS
<1>1. Typed /\ Ordered /\ Busy
    BY DEF DInv, Fault
<1>2. budget' \in Budgets
    BY <1>1, SpendTyped DEF Fault, Typed
<1>3. CASE \E remedy : Raise(remedy)
    <2>1. /\ cli' \in [cmd : Commands \cup {"idle"}, steps : Seq(Calls)]
          /\ Ordered' /\ Auditing'
        BY <1>1, <1>3, RaiseKeeps
    <2>2. Typed'
        BY <1>1, <1>2, <2>1 DEF Fault, Typed, TypeOK, ServedSchema, docker
    <2> QED BY <2>1, <2>2 DEF DInv, AdmittedTree, Fault
<1>4. CASE Return /\ (Head(cli.steps)[1] \in Tolerated \/ InspectFails)
    <2>1. PICK op \in Ops, s \in Services : Head(cli.steps) = <<op, s>>
        BY <1>1, TailFacts DEF Typed, Busy, Calls
    <2>2. op \in Tolerated \/ (op = "container" /\ ctr[s] # "absent")
        BY <1>4, <2>1 DEF InspectFails, At
    <2>3. Advances
        <3>1. CASE op = "try_volume_rm"
            <4>1. cli.cmd \in DOMAIN Resets
                BY <1>1, <2>1, <3>1, HeadClass DEF At
            <4>2. Tail(cli.steps) = << >>
                BY <1>1, <2>1, <3>1, TailEnds DEF Ordered, Typed, Busy, Finals
            <4> QED BY <2>1, <3>1, <4>1, <4>2 DEF Advances, Fault, docker
        <3>2. CASE op # "try_volume_rm"
            <4>1. cli.cmd \notin DOMAIN Resets
                BY <1>1, <2>1, <2>2, <3>2, HeadClass DEF At, Tolerated
            <4> QED BY <2>1, <2>2, <3>2, <4>1 DEF Advances, Fault, docker, Tolerated
        <3> QED BY <3>1, <3>2
    <2>4. /\ Ordered' /\ cli'.cmd = cli.cmd
          /\ cli' \in [cmd : Commands \cup {"idle"}, steps : Seq(Calls)]
        BY <1>1, <1>4, <2>3, ReturnKeeps DEF Fault
    <2>5. Typed'
        BY <1>1, <1>2, <2>4 DEF Fault, Typed, TypeOK, ServedSchema, docker
    <2>6. Auditing' /\ AdmittedTree'
        BY <1>1, <2>4 DEF DInv, Auditing, AdmittedTree, Fault, docker, MountMatches
    <2> QED BY <2>4, <2>5, <2>6 DEF DInv
<1> QED BY <1>3, <1>4 DEF Fault

LEMMA DieKeeps == ASSUME DInv, NEW s \in Services, Die(s) PROVE DInv'
<1>1. Typed /\ Ordered /\ UNCHANGED <<cfg, cli, img, vol, baked, audit>>
    BY DEF DInv, Die
<1>2. /\ ctr' \in [Services -> {"absent", "stopped", "running"}]
      /\ \A r \in Services : /\ ctr'[r] = "absent" <=> ctr[r] = "absent"
                             /\ ctr'[r] = "running" => ctr[r] = "running"
    BY <1>1 DEF Die, Typed, TypeOK
<1>3. budget' \in Budgets
    BY <1>1, SpendTyped DEF Die, Typed
<1>4. Typed'
    BY <1>1, <1>2, <1>3 DEF Die, Typed, TypeOK, ServedSchema, Services
<1>5. cli.cmd \notin DOMAIN Resets => Building'
    BY <1>1, <1>2 DEF Ordered, Building
<1>6. ASSUME cli.cmd \in DOMAIN Resets, NEW r \in Resets[cli.cmd] PROVE Resetting(r)'
    <2>1. r \in Services /\ Resetting(r)
        BY <1>1, <1>6 DEF Resets, Services, Ordered
    <2> QED BY <1>1, <1>2, <2>1 DEF Resetting, Busy
<1>7. Ordered'
    BY <1>1, <1>5, <1>6 DEF Ordered
<1>8. Auditing' /\ AdmittedTree'
    BY <1>1 DEF DInv, Auditing, AdmittedTree, MountMatches, Busy
<1> QED BY <1>4, <1>7, <1>8 DEF DInv

\* Between two commands the configuration and the package may change.
LEMMA RestKeeps ==
    ASSUME DInv, ~Busy, cfg' \in Settings, pkg' \in Versions, pkg <= pkg', budget' \in Budgets,
           UNCHANGED <<docker, cli, audit>>
    PROVE  DInv'
<1>1. cli'.steps = << >>
    BY DEF Busy
<1>2. Typed'
    <2>1. \A s \in Services : img[s] <= pkg'
        BY HeadsFacts DEF DInv, Typed, TypeOK
    <2> QED BY <2>1 DEF DInv, Typed, TypeOK, ServedSchema, docker
<1> QED BY <1>1, <1>2, EndKeeps DEF DInv, AdmittedTree

LEMMA LaunchedKeeps ==
    ASSUME DInv, NEW c \in Commands, Launch(c), budget' \in Budgets
    PROVE  DInv'
<1>1. /\ cli' \in [cmd : Commands \cup {"idle"}, steps : Seq(Calls)]
      /\ audit' \in Audits /\ Ordered' /\ Auditing' /\ AdmittedTree'
    BY LaunchKeeps DEF DInv
<1>2. audit'.state \in {"none", "admitted"}
    BY <1>1 DEF Audits
<1>3. Typed'
    BY <1>1, <1>2 DEF DInv, Typed, TypeOK, ServedSchema, Launch, docker
<1> QED BY <1>1, <1>3 DEF DInv

LEMMA OperatorKeeps ==
    DInv /\ (FollowAdvice \/ Upgrade \/ (\E c \in Commands : Operate(c))
             \/ (\E c \in Settings : Edit(c))) => DInv'
<1> SUFFICES ASSUME DInv PROVE (FollowAdvice \/ Upgrade \/ (\E c \in Commands : Operate(c))
                                \/ (\E c \in Settings : Edit(c))) => DInv'
    OBVIOUS
<1>1. /\ cfg \in Settings /\ pkg \in Versions /\ pkg \in Nat /\ budget \in Budgets
    BY HeadsFacts DEF DInv, Typed, TypeOK
<1>2. ASSUME NEW c \in Commands, Operate(c) PROVE DInv'
    BY <1>1, <1>2, LaunchedKeeps, SpendTyped DEF Operate
<1>3. ASSUME NEW c \in Settings, Edit(c) PROVE DInv'
    BY <1>1, <1>3, RestKeeps, SpendTyped DEF Edit
<1>4. ASSUME Upgrade PROVE DInv'
    BY <1>1, <1>4, RestKeeps, SpendTyped DEF Upgrade
<1>5. ASSUME FollowAdvice PROVE DInv'
    <2>1. budget' = budget /\ ~Busy
        BY <1>5 DEF FollowAdvice
    <2>2. CASE \E c \in Commands : Launch(c)
        BY <1>1, <2>1, <2>2, LaunchedKeeps
    <2>3. CASE /\ cfg' \in Settings /\ UNCHANGED <<pkg, docker, cli, audit>>
        BY <1>1, <2>1, <2>3, RestKeeps
    <2>4. [cfg EXCEPT !.workspace = Home] \in Settings
        BY <1>1, WorkspacesAssumption DEF Settings
    <2>5. [cfg EXCEPT !.password = IF baked.volume \in Passwords
                                   THEN baked.volume ELSE @] \in Settings
        BY <1>1 DEF Settings
    <2> QED BY <1>5, <2>2, <2>3, <2>4, <2>5 DEF FollowAdvice
<1> QED BY <1>2, <1>3, <1>4, <1>5

LEMMA DStep == DInv /\ [Next]_vars => DInv'
<1> SUFFICES ASSUME DInv, [Next]_vars PROVE DInv'
    OBVIOUS
<1>1. CASE CliStep
    <2>1. UNCHANGED <<cfg, pkg, budget>>
        BY <1>1 DEF CliStep
    <2>2. ASSUME NEW s \in Services, DockerStep(s), UNCHANGED audit PROVE DInv'
        BY <2>1, <2>2, ImageKeeps, VolumeKeeps, CreateKeeps, ReuseKeeps, ExistsKeeps,
           StartKeeps, StopKeeps, RmKeeps, VolumeRmKeeps, ImageRmKeeps DEF DockerStep
    <2>3. ASSUME StartStore \/ StartBackend \/ Migrate, UNCHANGED audit PROVE DInv'
        BY <2>1, <2>3, StartStoreKeeps, StartBackendKeeps, MigrateKeeps
    <2>4. ASSUME Check \/ Inspect \/ Mount \/ Health \/ Projects \/ Admit PROVE DInv'
        BY <2>1, <2>4, PreflightKeeps, AdmitKeeps
    <2> QED BY <1>1, <2>2, <2>3, <2>4 DEF CliStep
<1>2. CASE Fault
    BY <1>2, FaultKeeps
<1>3. CASE FollowAdvice \/ Upgrade \/ (\E c \in Commands : Operate(c))
           \/ (\E c \in Settings : Edit(c))
    BY <1>3, OperatorKeeps
<1>4. CASE \E s \in Services : Die(s)
    BY <1>4, DieKeeps
<1>5. CASE UNCHANGED vars
    <2>1. Typed'
        BY <1>5 DEF DInv, Typed, TypeOK, ServedSchema, vars
    <2>2. Ordered'
        BY <1>5 DEF DInv, Ordered, Building, Resetting, Busy, vars
    <2> QED BY <1>5, <2>1, <2>2 DEF DInv, Auditing, AdmittedTree, MountMatches, Busy, vars
<1> QED BY <1>1, <1>2, <1>3, <1>4, <1>5 DEF Next, Done

LEMMA DeploymentInvariant == Spec => []DInv
BY DInit, DStep, PTL DEF Spec

\* Whatever was edited, upgraded, half created or half removed before, an
\* audit is admitted only on the tree the configuration names, and a backend
\* that serves has the schema its version needs or an emptied one
\* (_verify_workspace_mount_or_raise, backend.Dockerfile).
THEOREM DeploymentNothingStale == Spec => []NothingStaleInUse
<1>1. DInv => NothingStaleInUse
    BY DEF DInv, Typed, NothingStaleInUse
<1> QED BY <1>1, DeploymentInvariant, PTL

(***************************************************************************)
(* What a command removes.                                                 *)
(***************************************************************************)
LEMMA ResetStep ==
    DInv /\ [Next]_vars =>
        (cli.cmd \in DOMAIN Resets /\ Returned =>
           \A s \in Resets[cli.cmd] : ctr'[s] = "absent" /\ img'[s] = 0 /\ s \notin vol')
<1> SUFFICES ASSUME DInv, [Next]_vars, cli.cmd \in DOMAIN Resets, Returned,
                    NEW s \in Resets[cli.cmd]
             PROVE  ctr'[s] = "absent" /\ img'[s] = 0 /\ s \notin vol'
    OBVIOUS
<1>1. /\ Typed /\ Ordered /\ cli.steps \in Seq(Calls) /\ s \in Services
      /\ Len(cli.steps) = 1 /\ cli'.steps = << >> /\ budget' = budget
    BY DEF DInv, Typed, Returned, Resets, Services
<1>2. cli.steps # << >> /\ Busy
    <2>1. ASSUME cli.steps = << >> PROVE FALSE
        BY <1>1, <2>1
    <2> QED BY <2>1 DEF Busy
<1>3. /\ ctr[s] = "absent"
      /\ img[s] = 0 \/ Head(cli.steps) = <<"image_rm", s>>
      /\ s \notin vol \/ Head(cli.steps) \in VolumeCalls(s)
    <2>1. Resetting(s)
        BY <1>1 DEF Ordered
    <2>2. Head(cli.steps) # <<"rm", s>>
        BY <1>1, <1>2, TailEnds DEF Ordered, Removals
    <2> QED BY <1>1, <1>2, <2>1, <2>2, TailOccurs DEF Resetting
<1>4. CliStep
    <2>1. ASSUME NEW kind \in {"commands", "faults", "edits"}, Left(kind), Spend(kind)
          PROVE  FALSE
        BY <1>1, <2>1, SpendTyped DEF Typed
    <2>2. ~Fault /\ ~\E r \in Services : Die(r)
        BY <2>1 DEF Fault, Die
    <2>3. ~UNCHANGED vars
        BY <1>1, <1>2 DEF vars
    <2> QED BY <1>2, <2>2, <2>3 DEF Next, FollowAdvice, Upgrade, Done, Operate, Edit
<1>5. PICK r \in Services : Stop(r) \/ Rm(r) \/ VolumeRm(r) \/ ImageRm(r)
    <2>1. ASSUME NEW op \in {"network", "image", "container", "exists", "start", "ready",
                             "volume", "try_migrate", "migrate", "rebuild", "check",
                             "inspect", "mount", "health", "projects", "admit"},
                 NEW r, At(op, r)
          PROVE  FALSE
        BY <1>1, <2>1, HeadClass
    <2>2. \A r \in Services : ~(Network(r) \/ Image(r) \/ Rebuild(r) \/ Volume(r) \/ Create(r)
                                \/ Reuse(r) \/ Exists(r) \/ Start(r) \/ Ready(r))
        BY <2>1 DEF Network, Image, Rebuild, Volume, Create, Reuse, Exists, Start, Ready
    <2>3. ~(StartStore \/ StartBackend \/ Migrate \/ Check \/ Inspect \/ Mount \/ Health
            \/ Projects \/ Admit)
        BY <2>1 DEF StartStore, StartBackend, Migrate, Check, Inspect, Mount, Health,
                    Projects, Admit
    <2> QED BY <1>4, <2>2, <2>3 DEF CliStep, DockerStep
<1>6. CASE Stop(r)
    BY <1>1, <1>3, <1>6 DEF Stop, At, VolumeCalls, Typed, TypeOK
<1>7. CASE Rm(r)
    <2>1. Head(cli.steps) = <<"rm", r>>
        BY <1>7 DEF Rm, At
    <2>2. <<"rm", r>> \in Removals
        BY DEF Removals
    <2> QED BY <1>1, <1>2, <2>1, <2>2, TailEnds DEF Ordered
<1>8. CASE VolumeRm(r)
    BY <1>1, <1>3, <1>8 DEF VolumeRm, At, VolumeCalls
<1>9. CASE ImageRm(r)
    BY <1>1, <1>3, <1>9 DEF ImageRm, At, VolumeCalls, Typed, TypeOK
<1> QED BY <1>5, <1>6, <1>7, <1>8, <1>9

LEMMA DataStep ==
    DInv /\ [Next]_vars =>
        (cli.cmd # "reportdb_reset" =>
           schema' >= schema /\ baked'.volume \in {baked.volume} \cup
               (IF baked.volume = NoPassword THEN Passwords ELSE {}))
<1> SUFFICES ASSUME DInv, [Next]_vars, cli.cmd # "reportdb_reset"
             PROVE  schema' >= schema /\ baked'.volume \in {baked.volume} \cup
                        (IF baked.volume = NoPassword THEN Passwords ELSE {})
    OBVIOUS
<1>1. /\ Typed /\ Ordered /\ schema \in Nat /\ schema >= schema
      /\ baked \in [mount : Workspaces \cup {NoWorkspace}, container : Backable,
                    volume : Backable, backend : Backable, attached : BOOLEAN]
    BY DEF DInv, Typed, TypeOK
<1>2. CASE UNCHANGED <<schema, baked>>
    BY <1>1, <1>2
<1>3. CASE \E s \in Services : Create(s) \/ Reuse(s)
    <2>1. PICK s \in Services : Create(s) \/ Reuse(s)
        BY <1>3
    <2>2. schema' = schema /\ baked'.volume = baked.volume
        BY <1>1, <2>1 DEF Create, Created, Reuse
    <2> QED BY <1>1, <2>2
<1>4. CASE \E s \in Services : VolumeRm(s)
    <2>1. PICK s \in Services : VolumeRm(s)
        BY <1>4
    <2>2. s # "reportdb"
        BY <1>1, <2>1, HeadClass DEF VolumeRm
    <2> QED BY <1>2, <2>1, <2>2 DEF VolumeRm
<1>5. CASE StartStore
    BY <1>1, <1>5 DEF StartStore, Backable
<1>6. CASE StartBackend
    <2>1. baked' = baked /\ (schema' = schema \/ (schema <= Heads[img.backend] /\ schema' = Heads[img.backend]))
        BY <1>6 DEF StartBackend, BackendServes, Migratable
    <2>2. ctr.backend # "absent"
        BY <1>6, StartFinds DEF StartBackend, Services
    <2>3. Heads[img.backend] \in Nat
        BY <1>1, <2>2, HeadsFacts DEF Typed, TypeOK, Services
    <2> QED BY <1>1, <2>1, <2>3
<1>7. CASE Migrate
    <2>1. baked' = baked /\ (schema' = schema \/ (schema <= Heads[pkg] /\ schema' = Heads[pkg]))
        BY <1>7 DEF Migrate, Migratable
    <2>2. Heads[pkg] \in Nat
        BY <1>1, HeadsFacts DEF Typed, TypeOK
    <2> QED BY <1>1, <2>1, <2>2
<1>8. CASE CliStep
    <2>1. ASSUME NEW s \in Services,
                 Network(s) \/ Image(s) \/ Rebuild(s) \/ Volume(s) \/ Exists(s) \/ Start(s)
                 \/ Ready(s) \/ Stop(s) \/ Rm(s) \/ ImageRm(s)
          PROVE  UNCHANGED <<schema, baked>>
        BY <2>1 DEF Network, Image, Rebuild, Volume, Exists, Start, Ready, Stop, Rm, ImageRm,
                    docker
    <2>2. ASSUME Check \/ Inspect \/ Mount \/ Health \/ Projects \/ Admit
          PROVE  UNCHANGED <<schema, baked>>
        BY <2>2 DEF Check, Inspect, Mount, Health, Projects, Admit, docker
    <2> QED BY <1>2, <1>3, <1>4, <1>5, <1>6, <1>7, <1>8, <2>1, <2>2 DEF CliStep, DockerStep
<1>9. CASE Fault \/ FollowAdvice \/ Upgrade \/ (\E c \in Commands : Operate(c))
           \/ (\E s \in Services : Die(s)) \/ (\E c \in Settings : Edit(c))
    <2>1. UNCHANGED <<schema, baked>>
        BY <1>9 DEF Fault, FollowAdvice, Upgrade, Operate, Die, Edit, Launch, docker
    <2> QED BY <1>2, <2>1
<1>10. CASE UNCHANGED vars
    BY <1>2, <1>10 DEF vars
<1> QED BY <1>8, <1>9, <1>10 DEF Next, Done

\* A reset that returns has removed its containers, images and volumes, and
\* only a reset of the report database loses its schema or its password.
THEOREM DeploymentRemovedByReset == Spec => RemovedByResetOnly
<1>1. DInv /\ [Next]_vars =>
        [cli.cmd \in DOMAIN Resets /\ Returned =>
           \A s \in Resets[cli.cmd] : ctr'[s] = "absent" /\ img'[s] = 0 /\ s \notin vol']_vars
    BY ResetStep
<1>2. DInv /\ [Next]_vars =>
        [cli.cmd # "reportdb_reset" => schema' >= schema /\ baked'.volume \in {baked.volume} \cup
           (IF baked.volume = NoPassword THEN Passwords ELSE {})]_vars
    BY DataStep
<1>3. Spec => ResetRemovesAll
    BY <1>1, DeploymentInvariant, PTL DEF Spec, ResetRemovesAll
<1>4. Spec => DataKept
    BY <1>2, DeploymentInvariant, PTL DEF Spec, DataKept
<1> QED BY <1>3, <1>4 DEF RemovedByResetOnly

-----------------------------------------------------------------------------
(***************************************************************************)
(* ConfigLoad, for any home files and any settings written into any of the *)
(* sources.  The paths first.                                              *)
(***************************************************************************)

LEMMA SeqIsPath ==
    ASSUME NEW S, NEW p \in Seq(S), p # << >>
    PROVE  IsPath(p)
BY DEF IsPath, ToSet

LEMMA PathTypes ==
    /\ IsPath(Mode) /\ IsPath(LegacyEnabled) /\ IsPath(AgentProvider)
    /\ IsPath(MaxRounds) /\ IsPath(DebateEnabled)
    /\ \A s : IsPath(Replication(s)) /\ IsPath(ProviderList(s))
    /\ \A s, key : IsPath(Legacy(s, key))
<1>1. IsPath(Mode)
    <2>1. Mode \in Seq({"audit", "mode"}) /\ Mode # << >>
        BY DEF Mode
    <2> QED BY <2>1, SeqIsPath
<1>2. IsPath(LegacyEnabled)
    <2>1. LegacyEnabled \in Seq({"teaming", "enabled"}) /\ LegacyEnabled # << >>
        BY DEF LegacyEnabled
    <2> QED BY <2>1, SeqIsPath
<1>3. IsPath(AgentProvider)
    <2>1. AgentProvider \in Seq({"agents", "auditor", "llm", "provider"}) /\ AgentProvider # << >>
        BY DEF AgentProvider
    <2> QED BY <2>1, SeqIsPath
<1>4. IsPath(MaxRounds) /\ IsPath(DebateEnabled)
    <2> DEFINE S == {"audit", "validator", "debate", "max_rounds", "enabled"}
    <2>1. MaxRounds \in Seq(S) /\ MaxRounds # << >>
        BY DEF MaxRounds
    <2>2. DebateEnabled \in Seq(S) /\ DebateEnabled # << >>
        BY DEF DebateEnabled
    <2> HIDE DEF S
    <2> QED BY <2>1, <2>2, SeqIsPath
<1>5. ASSUME NEW s PROVE IsPath(Replication(s)) /\ IsPath(ProviderList(s))
    <2> DEFINE S == {"audit", "replication", s, "provider_list"}
    <2>1. Replication(s) \in Seq(S) /\ Replication(s) # << >>
        BY DEF Replication
    <2>2. ProviderList(s) \in Seq(S) /\ ProviderList(s) # << >>
        BY DEF ProviderList
    <2> HIDE DEF S
    <2> QED BY <2>1, <2>2, SeqIsPath
<1>6. ASSUME NEW s, NEW key PROVE IsPath(Legacy(s, key))
    <2> DEFINE S == {"teaming", s, key}
    <2>1. Legacy(s, key) \in Seq(S) /\ Legacy(s, key) # << >>
        BY DEF Legacy
    <2> HIDE DEF S
    <2> QED BY <2>1, SeqIsPath
<1> QED BY <1>1, <1>2, <1>3, <1>4, <1>5, <1>6

LEMMA FillableTypes ==
    /\ ModeSettings \subseteq Fillable /\ Mode \in Fillable
    /\ \A p \in Fillable : IsPath(p) /\ IsPath(Old(p))
    /\ Old(Mode) = LegacyEnabled
    /\ \A p \in ModeSettings : p # Mode /\ p # DebateEnabled
<1>1. \A s \in Stages : Replication(s) # Mode /\ Replication(s) # DebateEnabled
    BY DEF Replication, Mode, DebateEnabled
<1>2. MaxRounds # Mode /\ MaxRounds # DebateEnabled
    BY DEF MaxRounds, Mode, DebateEnabled
<1>3. \A p : IsPath(Old(p))
    BY PathTypes DEF Old
<1>4. \A p \in Fillable : IsPath(p)
    BY PathTypes DEF Fillable, ModeSettings
<1>5. Old(Mode) = LegacyEnabled
    BY DEF Old
<1> QED BY <1>1, <1>2, <1>3, <1>4, <1>5 DEF Fillable, ModeSettings

LEMMA TouchSelf == ASSUME NEW p, IsPath(p) PROVE Touch(p, p)
BY DEF Touch, IsPrefix, IsPath

\* A prefix agrees with what it is a prefix of.
LEMMA PrefixAgrees ==
    ASSUME NEW q, NEW t, IsPath(q), IsPath(t), IsPrefix(q, t)
    PROVE  /\ Len(q) \in 1 .. Len(t) /\ \A i \in 1 .. Len(q) : q[i] = t[i]
<1>1. q \in Seq(ToSet(q)) /\ t \in Seq(ToSet(t)) /\ Len(q) \in Nat \ {0} /\ Len(t) \in Nat
    BY EmptySeq DEF IsPath
<1>2. Len(q) <= Len(t) /\ SubSeq(q, 1, Len(q)) = SubSeq(t, 1, Len(q))
    BY DEF IsPrefix
<1>3. \A i \in 1 .. Len(q) : SubSeq(q, 1, Len(q))[i] = q[i] /\ SubSeq(t, 1, Len(q))[i] = t[i]
    BY <1>1, <1>2, SubSeqProperties
<1> QED BY <1>1, <1>2, <1>3

\* What lies above the mode and the settings a mode presets are sections of
\* audit, and nothing that is filled.
LEMMA AboveIsSection ==
    ASSUME NEW p \in {Mode} \cup ModeSettings, NEW q, IsPath(q), q # p, IsPrefix(q, p)
    PROVE  /\ q \in Sections /\ q[1] = "audit" /\ q \notin Fillable
           /\ p = Mode => q = <<"audit">>
<1>1. IsPath(p) /\ p \in Seq(ToSet(p)) /\ q \in Seq(ToSet(q))
    BY FillableTypes DEF IsPath
<1>2. Len(q) \in 1 .. Len(p) /\ \A i \in 1 .. Len(q) : q[i] = p[i]
    BY <1>1, PrefixAgrees
<1>3. Len(q) # Len(p)
    BY <1>1, <1>2, SeqEqual
<1>4. ASSUME Len(q) = 1, p[1] = "audit" PROVE q = <<"audit">>
    BY <1>1, <1>2, <1>4
<1>5. ASSUME NEW s, Len(q) = 2, p[1] = "audit", p[2] = s PROVE q = <<"audit", s>>
    BY <1>1, <1>2, <1>5
<1>6. ASSUME NEW s, NEW u, Len(q) = 3, p[1] = "audit", p[2] = s, p[3] = u PROVE q = <<"audit", s, u>>
    BY <1>1, <1>2, <1>6
<1>7. /\ <<"audit">> \in Sections /\ <<"audit", "replication">> \in Sections
      /\ <<"audit", "validator">> \in Sections /\ <<"audit", "validator", "debate">> \in Sections
    BY DEF Sections, Stages
<1>8. \A r \in Fillable : /\ r # <<"audit">> /\ r # <<"audit", "replication">>
                          /\ r # <<"audit", "validator">> /\ r # <<"audit", "validator", "debate">>
    BY DEF Fillable, ModeSettings, Mode, DebateEnabled, MaxRounds, Replication, ProviderList, Stages
<1>9. CASE p = Mode
    <2>1. Len(p) = 2 /\ p[1] = "audit"
        BY <1>9 DEF Mode
    <2>2. Len(q) = 1
        BY <1>2, <1>3, <2>1
    <2>3. q = <<"audit">>
        BY <1>4, <2>1, <2>2
    <2> QED BY <1>7, <1>8, <2>3
<1>10. CASE p = MaxRounds
    <2>1. Len(p) = 4 /\ p[1] = "audit" /\ p[2] = "validator" /\ p[3] = "debate"
        BY <1>10 DEF MaxRounds
    <2>2. Len(q) \in {1, 2, 3}
        BY <1>2, <1>3, <2>1
    <2>3. q \in {<<"audit">>, <<"audit", "validator">>, <<"audit", "validator", "debate">>}
        BY <1>4, <1>5, <1>6, <2>1, <2>2
    <2>4. p # Mode
        BY <1>10 DEF Mode, MaxRounds
    <2> QED BY <1>7, <1>8, <2>3, <2>4
<1>11. ASSUME NEW s \in Stages, p = Replication(s)
       PROVE  /\ q \in Sections /\ q[1] = "audit" /\ q \notin Fillable
              /\ p = Mode => q = <<"audit">>
    <2>1. Len(p) = 3 /\ p[1] = "audit" /\ p[2] = "replication"
        BY <1>11 DEF Replication
    <2>2. Len(q) \in {1, 2}
        BY <1>2, <1>3, <2>1
    <2>3. q \in {<<"audit">>, <<"audit", "replication">>}
        BY <1>4, <1>5, <2>1, <2>2
    <2>4. p # Mode
        BY <1>11 DEF Mode, Replication
    <2> QED BY <1>7, <1>8, <2>3, <2>4
<1> QED BY <1>9, <1>10, <1>11 DEF ModeSettings

-----------------------------------------------------------------------------
(* Merging.                                                                *)

\* What a tree says of a path, and whether it says anything around it.
Says(t, p, default) == IF p \in DOMAIN t THEN t[p] ELSE default
Speaks(t, p) == \E q \in DOMAIN t : Touch(q, p)
AllPaths(t) == \A p \in DOMAIN t : IsPath(p)

LEMMA OverFacts ==
    ASSUME NEW f, NEW g
    PROVE  /\ DOMAIN Over(f, g) = DOMAIN f \cup DOMAIN g
           /\ \A p \in DOMAIN f : Over(f, g)[p] = f[p]
           /\ \A p \in DOMAIN g \ DOMAIN f : Over(f, g)[p] = g[p]
BY DEF Over

\* The incoming tree decides wherever it speaks.
LEMMA MergedAt ==
    ASSUME NEW t, NEW i, AllPaths(t), AllPaths(i)
    PROVE  /\ AllPaths(Merge(t, i))
           /\ \A p, default : IsPath(p) =>
                Says(Merge(t, i), p, default) = IF Speaks(i, p) THEN Says(i, p, default) ELSE Says(t, p, default)
<1> DEFINE Kept == {q \in DOMAIN t : \A r \in DOMAIN i : ~Touch(r, q)}
           k == [p \in Kept |-> t[p]]
<1>1. Merge(t, i) = Over(i, k) /\ DOMAIN k = Kept /\ \A p \in Kept : k[p] = t[p]
    BY DEF Merge
<1> HIDE DEF k, Kept
<1>2. /\ DOMAIN Over(i, k) = DOMAIN i \cup Kept
      /\ \A p \in DOMAIN i : Over(i, k)[p] = i[p]
      /\ \A p \in Kept \ DOMAIN i : Over(i, k)[p] = t[p]
    <2>1. /\ DOMAIN Over(i, k) = DOMAIN i \cup DOMAIN k
          /\ \A p \in DOMAIN i : Over(i, k)[p] = i[p]
          /\ \A p \in DOMAIN k \ DOMAIN i : Over(i, k)[p] = k[p]
        BY OverFacts
    <2> QED BY <1>1, <2>1
<1>3. AllPaths(Merge(t, i))
    BY <1>1, <1>2 DEF AllPaths, Kept
<1>4. ASSUME NEW p, NEW default, IsPath(p)
      PROVE  Says(Merge(t, i), p, default) = IF Speaks(i, p) THEN Says(i, p, default) ELSE Says(t, p, default)
    <2>1. p \in DOMAIN i => Speaks(i, p)
        BY <1>4, TouchSelf DEF Speaks
    <2>2. p \in Kept <=> p \in DOMAIN t /\ ~Speaks(i, p)
        BY DEF Speaks, Kept
    <2>3. CASE p \in DOMAIN i
        BY <1>1, <1>2, <2>1, <2>3 DEF Says
    <2>4. CASE p \notin DOMAIN i /\ p \in Kept
        BY <1>1, <1>2, <2>2, <2>4 DEF Says
    <2>5. CASE p \notin DOMAIN i /\ p \notin Kept
        BY <1>1, <1>2, <2>2, <2>5 DEF Says
    <2> QED BY <2>3, <2>4, <2>5
<1> QED BY <1>3, <1>4

-----------------------------------------------------------------------------
(* What the sources say together: the tree the four layers are merged to   *)
(* says of every path what the highest source that speaks says of it.      *)

FilesRead == Merge(Merge(Defaults, source.home), source.project)
EnvRead == Merge(FilesRead, EnvSays)
Tree == Merge(EnvRead, source.cli)

Sourced == /\ DOMAIN source = {"home", "project", "env", "cli"}
           /\ \A l \in DOMAIN source : AllPaths(source[l])

LEMMA LayerSet == ToSet(Layers) = {"home", "project", "env", "cli"}
<1>1. Len(Layers) = 4 /\ DOMAIN Layers = 1 .. 4
    BY DEF Layers
<1>2. /\ Layers[1] = "home" /\ Layers[2] = "project" /\ Layers[3] = "env" /\ Layers[4] = "cli"
    BY DEF Layers
<1>3. \A i : i \in 1 .. 4 <=> i \in {1, 2, 3, 4}
    OBVIOUS
<1> QED BY <1>1, <1>2, <1>3 DEF ToSet

LEMMA DefaultsPaths == AllPaths(Defaults)
<1> DEFINE a == <<"runtime", "root_dir">>
           b == <<"logging", "level">>
<1>1. a \in Seq({"runtime", "root_dir"}) /\ a # << >>
    OBVIOUS
<1>2. b \in Seq({"logging", "level"}) /\ b # << >>
    OBVIOUS
<1> HIDE DEF a, b
<1>3. IsPath(a) /\ IsPath(b)
    BY <1>1, <1>2, SeqIsPath
<1>4. DOMAIN Setting(a, "dir") = {a} /\ DOMAIN Setting(b, "info") = {b}
    BY DEF Setting
<1>5. Defaults = Over(Setting(a, "dir"), Setting(b, "info"))
    BY DEF Defaults, a, b
<1>6. DOMAIN Defaults = {a, b}
    <2>1. DOMAIN Over(Setting(a, "dir"), Setting(b, "info"))
            = DOMAIN Setting(a, "dir") \cup DOMAIN Setting(b, "info")
        BY OverFacts
    <2> QED BY <1>4, <1>5, <2>1
<1> QED BY <1>3, <1>6 DEF AllPaths

LEMMA TreePaths ==
    ASSUME Sourced
    PROVE  /\ AllPaths(Defaults) /\ AllPaths(Merge(Defaults, source.home)) /\ AllPaths(FilesRead)
           /\ AllPaths(EnvRead) /\ AllPaths(Tree)
           /\ AllPaths(source.home) /\ AllPaths(source.project) /\ AllPaths(EnvSays) /\ AllPaths(source.cli)
<1>1. /\ AllPaths(source.home) /\ AllPaths(source.project) /\ AllPaths(source.cli) /\ AllPaths(source.env)
    BY DEF Sourced
<1>2. AllPaths(EnvSays)
    BY <1>1 DEF EnvSays, EnvPaths, AllPaths
<1>3. AllPaths(Merge(Defaults, source.home))
    BY <1>1, DefaultsPaths, MergedAt
<1>4. AllPaths(FilesRead)
    BY <1>1, <1>3, MergedAt DEF FilesRead
<1>5. AllPaths(EnvRead)
    BY <1>2, <1>4, MergedAt DEF EnvRead
<1>6. AllPaths(Tree)
    BY <1>1, <1>5, MergedAt DEF Tree
<1> QED BY <1>1, <1>2, <1>3, <1>4, <1>5, <1>6, DefaultsPaths

LEMMA TreeIsEffective ==
    ASSUME Sourced, NEW p, NEW default, IsPath(p)
    PROVE  Says(Tree, p, default) = Effective(p, default)
<1> DEFINE d == default
           S == Sources
<1>1. /\ S[1] = Defaults /\ S[2] = source.home /\ S[3] = source.project /\ S[4] = EnvSays /\ S[5] = source.cli
      /\ Len(S) = 5
    BY DEF Sources
<1>2. Says(Tree, p, d) = IF Speaks(S[5], p) THEN Says(S[5], p, d) ELSE Says(EnvRead, p, d)
    BY <1>1, TreePaths, MergedAt DEF Tree
<1>3. Says(EnvRead, p, d) = IF Speaks(S[4], p) THEN Says(S[4], p, d) ELSE Says(FilesRead, p, d)
    BY <1>1, TreePaths, MergedAt DEF EnvRead
<1>4. Says(FilesRead, p, d) = IF Speaks(S[3], p) THEN Says(S[3], p, d) ELSE Says(Merge(Defaults, source.home), p, d)
    BY <1>1, TreePaths, MergedAt DEF FilesRead
<1>5. Says(Merge(Defaults, source.home), p, d) = IF Speaks(S[2], p) THEN Says(S[2], p, d) ELSE Says(S[1], p, d)
    BY <1>1, TreePaths, MergedAt
<1>6. ~Speaks(S[1], p) => Says(S[1], p, d) = d
    <2>1. p \in DOMAIN S[1] => Speaks(S[1], p)
        BY TouchSelf DEF Speaks
    <2> QED BY <2>1 DEF Says
<1>7. Speakers(p) = {i \in 1 .. 5 : Speaks(S[i], p)}
    BY <1>1 DEF Speakers, Speaks
<1>8. ASSUME NEW k \in 1 .. 5, Speaks(S[k], p), \A j \in k + 1 .. 5 : ~Speaks(S[j], p)
      PROVE  Effective(p, d) = Says(S[k], p, d)
    <2>1. k \in Speakers(p) /\ \A j \in Speakers(p) : j <= k
        BY <1>7, <1>8
    <2>2. \A i \in Speakers(p) : (\A j \in Speakers(p) : j <= i) => i = k
        BY <1>7, <2>1
    <2>3. (CHOOSE i \in Speakers(p) : \A j \in Speakers(p) : j <= i) = k
        BY <2>1, <2>2
    <2>4. Speakers(p) # {}
        BY <2>1
    <2>5. Effective(p, d) =
            LET top == Sources[CHOOSE i \in Speakers(p) : \A j \in Speakers(p) : j <= i]
            IN IF p \in DOMAIN top THEN top[p] ELSE d
        BY <2>4 DEF Effective
    <2>6. Effective(p, d) = IF p \in DOMAIN Sources[k] THEN Sources[k][p] ELSE d
        BY <2>3, <2>5
    <2> QED BY <2>6 DEF Says
<1>9. Speakers(p) = {} => Effective(p, d) = d
    BY DEF Effective
<1> HIDE DEF S
<1>10. CASE Speaks(S[5], p)
    BY <1>2, <1>8, <1>10
<1>11. CASE ~Speaks(S[5], p) /\ Speaks(S[4], p)
    <2>1. \A j \in 5 .. 5 : ~Speaks(S[j], p)
        BY <1>11
    <2> QED BY <1>2, <1>3, <1>8, <1>11, <2>1
<1>12. CASE ~Speaks(S[5], p) /\ ~Speaks(S[4], p) /\ Speaks(S[3], p)
    <2>1. \A j \in 4 .. 5 : ~Speaks(S[j], p)
        BY <1>12
    <2> QED BY <1>2, <1>3, <1>4, <1>8, <1>12, <2>1
<1>13. CASE ~Speaks(S[5], p) /\ ~Speaks(S[4], p) /\ ~Speaks(S[3], p) /\ Speaks(S[2], p)
    <2>1. \A j \in 3 .. 5 : ~Speaks(S[j], p)
        BY <1>13
    <2> QED BY <1>2, <1>3, <1>4, <1>5, <1>8, <1>13, <2>1
<1>14. CASE /\ ~Speaks(S[5], p) /\ ~Speaks(S[4], p) /\ ~Speaks(S[3], p) /\ ~Speaks(S[2], p)
            /\ Speaks(S[1], p)
    <2>1. \A j \in 2 .. 5 : ~Speaks(S[j], p)
        BY <1>14
    <2> QED BY <1>2, <1>3, <1>4, <1>5, <1>8, <1>14, <2>1
<1>15. CASE \A k \in 1 .. 5 : ~Speaks(S[k], p)
    BY <1>2, <1>3, <1>4, <1>5, <1>6, <1>7, <1>9, <1>15
<1>16. (\A k \in 1 .. 5 : ~Speaks(S[k], p)) \/ \E k \in {1, 2, 3, 4, 5} : Speaks(S[k], p)
    OBVIOUS
<1> QED BY <1>10, <1>11, <1>12, <1>13, <1>14, <1>15, <1>16

-----------------------------------------------------------------------------
(* The inductive invariant: what data is at each step of load_config, told *)
(* by the sources, and what has been built from it.                        *)

Steps == {"write", "env", "cli", "llm", "migrate", "graph", "teaming", "mode", "stores",
          "coder", "audit", "loaded", "error", "crash"}
Built == {"stores", "coder", "audit", "loaded"}
Filling == {"graph", "teaming", "mode"} \cup Built

Above(t, p) == \E q \in DOMAIN t : q # p /\ IsPrefix(q, p)

\* data is the merged tree with what the legacy settings fill.
Fills(p) == /\ p \in Fillable \ DOMAIN Tree /\ Old(p) \in DOMAIN Tree
            /\ ~Above(Tree, p) /\ ~Above(Tree, Mode)
Filler(p) == IF p = Mode THEN IF Tree[LegacyEnabled] = "true" THEN "deep" ELSE "fast"
             ELSE IF p = DebateEnabled THEN "true" ELSE Tree[Old(p)]
IsFilled ==
    /\ \A p : p \in DOMAIN data <=> p \in DOMAIN Tree \/ Fills(p)
    /\ \A p \in DOMAIN Tree : data[p] = Tree[p]
    /\ \A p \in DOMAIN data \ DOMAIN Tree : data[p] = Filler(p)

Shapes ==
    /\ pc \in Steps /\ Sourced
    /\ DOMAIN config = {"mode", "ints", "lists", "debate", "workspace", "project"}
    /\ config.mode \in {"fast", "deep"}

Read ==
    /\ pc = "write" => data = Defaults
    /\ pc = "env" => data = FilesRead
    /\ pc = "cli" => data = EnvRead
    /\ pc \in {"llm", "migrate"} => data = Tree
    /\ pc \in Filling => IsFilled

\* The integers built at each step.
Numbered ==
    /\ pc \in {"write", "env", "cli", "llm", "migrate", "graph"} => DOMAIN config.ints = {}
    /\ pc \in {"teaming", "mode"} => DOMAIN config.ints = IntsOf("graph")
    /\ pc = "stores" => DOMAIN config.ints = IntsOf("graph") \cup ModeSettings
    /\ pc = "coder" => DOMAIN config.ints = IntsOf("graph") \cup ModeSettings \cup IntsOf("reportdb")
    /\ pc = "audit" => DOMAIN config.ints = IntSettings \ {WorkerCount}
    /\ pc = "loaded" => DOMAIN config.ints = IntSettings /\ config.ints[WorkerCount] \in 1 .. 16

\* The mode's part of the configuration is still what was validated.
Moded ==
    pc \in Built =>
        /\ ModeValid /\ config.mode = Get(Mode, "fast")
        /\ \A p \in ModeSettings :
              config.ints[p] = IF Has(p) THEN Numbers[data[p]] ELSE Presets[config.mode][p]
        /\ config.lists = [s \in Stages |-> Lists[Get(ProviderList(s), "empty")]]

ConfigInv == Shapes /\ Read /\ Numbered /\ Moded

LEMMA ConfigInvInit == ConfigInit => ConfigInv
<1> SUFFICES ASSUME ConfigInit PROVE ConfigInv
    OBVIOUS
<1>1. pc = "write" /\ data = Defaults /\ config = NoConfig
    BY DEF ConfigInit
<1>2. Sourced
    <2>1. PICK base \in Bases :
            source = [layer \in ToSet(Layers) |-> IF layer = "home" THEN base ELSE << >>]
        BY DEF ConfigInit
    <2>2. AllPaths(base) /\ AllPaths(<< >>)
        BY BasesAssumption DEF AllPaths
    <2>3. DOMAIN source = {"home", "project", "env", "cli"}
        BY <2>1, LayerSet
    <2>4. \A l \in DOMAIN source : source[l] = base \/ source[l] = << >>
        BY <2>1, LayerSet
    <2> QED BY <2>2, <2>3, <2>4 DEF Sourced
<1>3. Shapes
    BY <1>1, <1>2 DEF Shapes, Steps, NoConfig
<1>4. DOMAIN config.ints = {}
    <2>1. config.ints = << >>
        BY <1>1 DEF NoConfig
    <2> QED BY <2>1
<1> QED BY <1>1, <1>3, <1>4 DEF ConfigInv, Read, Numbered, Moded, Filling, Built

\* A step that leaves the sources alone leaves what they say together.
LEMMA SourcesFrozen ==
    ASSUME source' = source
    PROVE  /\ FilesRead' = FilesRead /\ EnvRead' = EnvRead /\ Tree' = Tree
           /\ Sourced' = Sourced
<1>1. EnvSays' = EnvSays
    BY DEF EnvSays, EnvPaths
<1>2. FilesRead' = FilesRead
    BY DEF FilesRead
<1>3. EnvRead' = EnvRead
    BY <1>1, <1>2 DEF EnvRead
<1>4. Tree' = Tree
    BY <1>3 DEF Tree
<1> QED BY <1>2, <1>3, <1>4 DEF Sourced

\* A refused configuration is not looked at again.
LEMMA RefusedKeeps ==
    ASSUME ConfigInv, ConfigError \/ OtherError
    PROVE  ConfigInv'
<1>1. /\ pc' \in {"error", "crash"} /\ source' = source /\ config' = config
    BY DEF ConfigError, OtherError, Goto
<1>2. Shapes'
    BY <1>1, SourcesFrozen DEF ConfigInv, Shapes, Steps
<1> QED BY <1>1, <1>2 DEF ConfigInv, Read, Numbered, Moded, Filling, Built

LEMMA WriteKeeps ==
    ASSUME ConfigInv, NEW layer \in Writable, NEW c \in Changes, Write(layer, c[1], c[2])
    PROVE  ConfigInv'
<1>1. /\ pc = "write" /\ pc' = "write" /\ data' = data /\ config' = config /\ layer \in {"project", "env", "cli"}
      /\ source' = [source EXCEPT ![layer] = Merge(source[layer], Setting(c[1], c[2]))]
    BY DEF Write, Writable
<1>2. Sourced /\ data = Defaults
    BY <1>1 DEF ConfigInv, Shapes, Read
<1>3. AllPaths(Setting(c[1], c[2]))
    BY ChangesAssumption DEF Setting, AllPaths
<1>4. AllPaths(Merge(source[layer], Setting(c[1], c[2])))
    BY <1>1, <1>2, <1>3, MergedAt DEF Sourced
<1>5. Sourced'
    BY <1>1, <1>2, <1>4 DEF Sourced, AllPaths
<1>6. Shapes'
    BY <1>1, <1>5 DEF ConfigInv, Shapes
<1> QED BY <1>1, <1>2, <1>6 DEF ConfigInv, Read, Numbered, Moded, Filling, Built

LEMMA ReadKeeps ==
    ASSUME ConfigInv, ReadFiles \/ ReadEnv \/ ApplyOverrides
    PROVE  ConfigInv'
<1>1. CASE ConfigError \/ OtherError
    BY <1>1, RefusedKeeps
<1>2. CASE ~(ConfigError \/ OtherError)
    <2>1. /\ source' = source /\ config' = config
          /\ \/ pc = "write" /\ pc' = "env" /\ data' = Merge(Merge(data, source.home), source.project)
             \/ pc = "env" /\ pc' = "cli" /\ data' = Merge(data, EnvSays)
             \/ pc = "cli" /\ pc' = "llm" /\ data' = Merge(data, source.cli)
        BY <1>2 DEF ReadFiles, ReadEnv, ApplyOverrides, Goto
    <2>2. Shapes'
        BY <2>1, SourcesFrozen DEF ConfigInv, Shapes, Steps
    <2>3. Read'
        <3>1. /\ pc = "write" => data = Defaults
              /\ pc = "env" => data = FilesRead
              /\ pc = "cli" => data = EnvRead
            BY DEF ConfigInv, Read
        <3>2. /\ pc' = "env" => data' = FilesRead
              /\ pc' = "cli" => data' = EnvRead
              /\ pc' = "llm" => data' = Tree
            BY <2>1, <3>1 DEF FilesRead, EnvRead, Tree
        <3> QED BY <2>1, <3>2, SourcesFrozen DEF Read, Filling, Built
    <2> QED BY <2>1, <2>2, <2>3 DEF ConfigInv, Numbered, Moded, Filling, Built
<1> QED BY <1>1, <1>2

LEMMA LLMKeeps ==
    ASSUME ConfigInv, BuildLLM
    PROVE  ConfigInv'
<1>1. CASE ConfigError \/ OtherError
    BY <1>1, RefusedKeeps
<1>2. CASE ~(ConfigError \/ OtherError)
    <2>1. /\ pc = "llm" /\ pc' = "migrate" /\ LLMValid
          /\ source' = source /\ data' = data /\ config' = config /\ require_llm' = require_llm
          /\ providers' = [default |-> DefaultName, names |-> Configured]
        BY <1>2 DEF BuildLLM, Goto
    <2>2. data = Tree
        BY <2>1 DEF ConfigInv, Read
    <2>4. Shapes' /\ Read'
        BY <2>1, <2>2, SourcesFrozen DEF ConfigInv, Shapes, Read, Steps, Filling, Built
    <2> QED BY <2>1, <2>4 DEF ConfigInv, Numbered, Moded, Built
<1> QED BY <1>1, <1>2

LEMMA MigrateTeamingKeeps ==
    ASSUME ConfigInv, MigrateLegacyTeaming
    PROVE  ConfigInv'
<1>1. /\ pc = "migrate" /\ pc' = "graph" /\ source' = source /\ require_llm' = require_llm
      /\ providers' = providers /\ config' = config
      /\ data' = IF Blocked(Mode) THEN data ELSE Migrated(LegacySettings)
    BY DEF MigrateLegacyTeaming, Goto
<1>2. data = Tree /\ \A p : Blocked(p) <=> Above(Tree, p)
    BY <1>1 DEF ConfigInv, Read, Blocked, Above
<1>3. Tree' = Tree
    BY <1>1, SourcesFrozen
<1>4. IsFilled'
    <2>1. /\ \A p : p \in DOMAIN data' <=> p \in DOMAIN Tree \/ Fills(p)
          /\ \A p \in DOMAIN Tree : data'[p] = Tree[p]
          /\ \A p \in DOMAIN data' \ DOMAIN Tree : data'[p] = Filler(p)
        <3>1. CASE Blocked(Mode)
            BY <1>1, <1>2, <3>1 DEF Fills
        <3>2. CASE ~Blocked(Mode)
            <4> DEFINE L == LegacySettings
                       F == {q \in DOMAIN L : ~Blocked(q)}
                       g == [p \in F |-> L[p]]
            <4>1. data' = Over(data, g) /\ DOMAIN g = F /\ \A p \in F : g[p] = L[p]
                BY <1>1, <3>2 DEF Migrated
            <4>2. /\ \A p : p \in DOMAIN L <=> p \in Fillable /\ Old(p) \in DOMAIN Tree
                  /\ \A p \in DOMAIN L : L[p] = Filler(p)
                BY <1>2 DEF LegacySettings, Filler, Has
            <4> HIDE DEF L
            <4>3. \A p : p \in F \ DOMAIN Tree <=> Fills(p)
                BY <1>2, <3>2, <4>2 DEF Fills
            <4> HIDE DEF F, g
            <4>4. /\ DOMAIN data' = DOMAIN Tree \cup F
                  /\ \A p \in DOMAIN Tree : data'[p] = Tree[p]
                  /\ \A p \in F \ DOMAIN Tree : data'[p] = L[p]
                <5>1. /\ DOMAIN Over(data, g) = DOMAIN data \cup DOMAIN g
                      /\ \A p \in DOMAIN data : Over(data, g)[p] = data[p]
                      /\ \A p \in DOMAIN g \ DOMAIN data : Over(data, g)[p] = g[p]
                    BY OverFacts
                <5> QED BY <1>2, <4>1, <5>1
            <4>5. F \subseteq DOMAIN L
                BY DEF F
            <4> QED BY <4>2, <4>3, <4>4, <4>5
        <3> QED BY <3>1, <3>2
    <2>2. \A p : Fills(p)' <=> Fills(p)
        BY <1>3 DEF Fills, Above, Fillable, Old, Mode, DebateEnabled, MaxRounds, ModeSettings, LegacyEnabled,
                    Replication, ProviderList, Legacy, Stages
    <2>3. \A p : Filler(p)' = Filler(p)
        BY <1>3 DEF Filler, Old, Mode, DebateEnabled, MaxRounds, LegacyEnabled, Legacy
    <2> QED BY <1>3, <2>1, <2>2, <2>3 DEF IsFilled
<1>5. Shapes' /\ Read'
    BY <1>1, <1>4, SourcesFrozen DEF ConfigInv, Shapes, Read, Steps, Filling, Built
<1> QED BY <1>1, <1>5 DEF ConfigInv, Numbered, Moded, Built

\* The later steps build from data and the sources, and leave them alone.
LEMMA LaterKeeps ==
    ASSUME ConfigInv, Goto(pc'), UNCHANGED <<data, providers>>, pc \in Filling, pc' \in Filling
    PROVE  Sourced' /\ Read'
<1>1. source' = source /\ require_llm' = require_llm /\ data' = data /\ providers' = providers
    BY DEF Goto
<1>2. Tree' = Tree /\ Sourced'
    BY <1>1, SourcesFrozen DEF ConfigInv, Shapes
<1>3. IsFilled'
    <2>1. IsFilled
        BY DEF ConfigInv, Read
    <2>2. \A p : Fills(p)' <=> Fills(p)
        BY <1>2 DEF Fills, Above, Fillable, Old, Mode, DebateEnabled, MaxRounds, ModeSettings, LegacyEnabled,
                    Replication, ProviderList, Legacy, Stages
    <2>3. \A p : Filler(p)' = Filler(p)
        BY <1>2 DEF Filler, Old, Mode, DebateEnabled, MaxRounds, LegacyEnabled, Legacy
    <2> QED BY <1>1, <1>2, <2>1, <2>2, <2>3 DEF IsFilled
<1>4. Read'
    BY <1>3 DEF Read, Filling, Built
<1> QED BY <1>2, <1>4

LEMMA IntSets ==
    /\ IntsOf("graph") = {PathsMaxDepth, PathsMaxCount}
    /\ IntsOf("reportdb") = {<<"reportdb", "port">>} /\ IntsOf("coder") = {<<"coder", "concurrency">>}
    /\ \A p \in ModeSettings : p[1] = "audit" /\ p # WorkerCount
    /\ WorkerCount[1] = "audit" /\ WorkerCount \in IntSettings
    /\ IntsOf("graph") \cup ModeSettings \cup IntsOf("reportdb") \cup IntsOf("coder") = IntSettings \ {WorkerCount}
    /\ ModeSettings \cap (IntsOf("graph") \cup IntsOf("reportdb") \cup IntsOf("coder") \cup {WorkerCount}) = {}
<1> DEFINE port == <<"reportdb", "port">>
           conc == <<"coder", "concurrency">>
<1>1. \A p \in ModeSettings : p[1] = "audit" /\ p # WorkerCount
    BY DEF ModeSettings, MaxRounds, Replication, WorkerCount
<1>2. /\ PathsMaxDepth[1] = "graph" /\ PathsMaxCount[1] = "graph" /\ port[1] = "reportdb" /\ conc[1] = "coder"
      /\ WorkerCount[1] = "audit"
    BY DEF PathsMaxDepth, PathsMaxCount, WorkerCount
<1>3. IntSettings = ModeSettings \cup {WorkerCount, PathsMaxDepth, PathsMaxCount, port, conc}
    BY DEF IntSettings
<1> HIDE DEF port, conc
<1>4. /\ IntsOf("graph") = {PathsMaxDepth, PathsMaxCount}
      /\ IntsOf("reportdb") = {port} /\ IntsOf("coder") = {conc}
    BY <1>1, <1>2, <1>3 DEF IntsOf
<1>5. /\ IntsOf("graph") \cup ModeSettings \cup IntsOf("reportdb") \cup IntsOf("coder") = IntSettings \ {WorkerCount}
      /\ ModeSettings \cap (IntsOf("graph") \cup IntsOf("reportdb") \cup IntsOf("coder") \cup {WorkerCount}) = {}
    BY <1>1, <1>2, <1>3, <1>4
<1> QED BY <1>1, <1>2, <1>3, <1>4, <1>5 DEF port, conc

\* Taking integers adds them to those already there.
LEMMA TakeFacts ==
    ASSUME Shapes, NEW paths, NEW default, config'.ints = Over(Ints(paths, default), config.ints)
    PROVE  /\ DOMAIN config'.ints = paths \cup DOMAIN config.ints
           /\ \A p \in paths : config'.ints[p] = IF Has(p) THEN Numbers[data[p]] ELSE default[p]
           /\ \A p \in DOMAIN config.ints \ paths : config'.ints[p] = config.ints[p]
<1> DEFINE n == Ints(paths, default)
<1>1. DOMAIN n = paths /\ \A p \in paths : n[p] = IF Has(p) THEN Numbers[data[p]] ELSE default[p]
    BY DEF Ints
<1> HIDE DEF n
<1>2. /\ DOMAIN Over(n, config.ints) = DOMAIN n \cup DOMAIN config.ints
      /\ \A p \in DOMAIN n : Over(n, config.ints)[p] = n[p]
      /\ \A p \in DOMAIN config.ints \ DOMAIN n : Over(n, config.ints)[p] = config.ints[p]
    BY OverFacts
<1>3. config'.ints = Over(n, config.ints)
    BY DEF n
<1> QED BY <1>1, <1>2, <1>3

LEMMA ModedStays ==
    ASSUME ConfigInv, pc \in Built, data' = data, providers' = providers,
           config'.mode = config.mode, config'.lists = config.lists,
           \A p \in ModeSettings : config'.ints[p] = config.ints[p]
    PROVE  Moded'
<1>1. \A p : Has(p)' = Has(p)
    BY DEF Has
<1>2. \A p, d : Get(p, d)' = Get(p, d)
    BY DEF Get, Has
<1>3. ModeValid' = ModeValid
    BY DEF ModeValid, Misplaced, Get, Has, InRange, IsNumber
<1>4. /\ ModeValid /\ config.mode = Get(Mode, "fast")
      /\ \A p \in ModeSettings :
            config.ints[p] = IF Has(p) THEN Numbers[data[p]] ELSE Presets[config.mode][p]
      /\ config.lists = [s \in Stages |-> Lists[Get(ProviderList(s), "empty")]]
    BY DEF ConfigInv, Moded
<1>5. Get(Mode, "fast")' = Get(Mode, "fast")
    BY DEF Get, Has, Mode
<1>6. [s \in Stages |-> Lists[Get(ProviderList(s), "empty")]]' = [s \in Stages |-> Lists[Get(ProviderList(s), "empty")]]
    BY DEF Get, Has, ProviderList, Lists, Stages
<1>7. \A p \in ModeSettings :
        config'.ints[p] = IF Has(p)' THEN Numbers[data'[p]] ELSE Presets[config'.mode][p]
    BY <1>1, <1>4
<1> QED BY <1>3, <1>4, <1>5, <1>6, <1>7 DEF Moded

LEMMA ConfigShape ==
    ASSUME Shapes, NEW x, config' = [config EXCEPT !.ints = x]
    PROVE  /\ DOMAIN config' = DOMAIN config /\ config'.ints = x
           /\ config'.mode = config.mode /\ config'.lists = config.lists
BY DEF Shapes

LEMMA GraphKeeps ==
    ASSUME ConfigInv, BuildGraph
    PROVE  ConfigInv'
<1>1. CASE ConfigError
    BY <1>1, RefusedKeeps
<1>2. CASE ~ConfigError
    <2>1. /\ pc = "graph" /\ pc' = "teaming" /\ Goto(pc') /\ UNCHANGED <<data, providers>>
          /\ config' = [config EXCEPT !.ints = Over(Ints(IntsOf("graph"), OwnDefaults), config.ints)]
        BY <1>2 DEF BuildGraph, Take, Goto
    <2>2. Sourced' /\ Read'
        BY <2>1, LaterKeeps DEF Filling
    <2>3. Shapes /\ DOMAIN config.ints = {}
        BY <2>1 DEF ConfigInv, Numbered
    <2>4. /\ DOMAIN config' = DOMAIN config /\ config'.mode = config.mode
          /\ config'.ints = Over(Ints(IntsOf("graph"), OwnDefaults), config.ints)
        BY <2>1, <2>3, ConfigShape
    <2>5. DOMAIN config'.ints = IntsOf("graph")
        BY <2>3, <2>4, TakeFacts
    <2>6. Shapes'
        BY <2>1, <2>2, <2>3, <2>4 DEF Shapes, Steps
    <2> QED BY <2>1, <2>2, <2>5, <2>6 DEF ConfigInv, Numbered, Moded, Built, IntsOf, IntSettings
<1> QED BY <1>1, <1>2

LEMMA TeamingKeeps ==
    ASSUME ConfigInv, BuildTeaming
    PROVE  ConfigInv'
<1>1. CASE ConfigError
    BY <1>1, RefusedKeeps
<1>2. CASE ~ConfigError
    <2>1. /\ pc = "teaming" /\ pc' = "mode" /\ Goto(pc') /\ UNCHANGED <<data, providers>> /\ config' = config
        BY <1>2 DEF BuildTeaming, Goto
    <2>2. Sourced' /\ Read'
        BY <2>1, LaterKeeps DEF Filling
    <2>3. Shapes'
        BY <2>1, <2>2 DEF ConfigInv, Shapes, Steps
    <2> QED BY <2>1, <2>2, <2>3 DEF ConfigInv, Numbered, Moded, Built
<1> QED BY <1>1, <1>2

LEMMA ModeKeeps ==
    ASSUME ConfigInv, BuildMode
    PROVE  ConfigInv'
<1>1. CASE ConfigError
    BY <1>1, RefusedKeeps
<1>2. CASE ~ConfigError
    <2> DEFINE mode == Get(Mode, "fast")
               lists == [s \in Stages |-> Lists[Get(ProviderList(s), "empty")]]
               debate == Booleans[Get(DebateEnabled, IF mode = "deep" THEN "true" ELSE "false")]
               ints == Over(Ints(ModeSettings, Presets[mode]), config.ints)
    <2>1. /\ pc = "mode" /\ pc' = "stores" /\ Goto(pc') /\ UNCHANGED <<data, providers>> /\ ModeValid
          /\ config' = [config EXCEPT !.mode = mode, !.ints = ints, !.lists = lists, !.debate = debate]
        BY <1>2 DEF BuildMode, Goto
    <2>2. Sourced' /\ Read'
        BY <2>1, LaterKeeps DEF Filling, Built
    <2>3. Shapes /\ DOMAIN config.ints = IntsOf("graph")
        BY <2>1 DEF ConfigInv, Numbered
    <2>4. mode \in {"fast", "deep"}
        BY <2>1 DEF ModeValid, Presets
    <2> HIDE DEF mode, lists, debate, ints
    <2>5. /\ DOMAIN config' = DOMAIN config /\ config'.mode = mode
          /\ config'.ints = ints /\ config'.lists = lists
        BY <2>1, <2>3 DEF Shapes
    <2>6. /\ DOMAIN config'.ints = ModeSettings \cup IntsOf("graph")
          /\ \A p \in ModeSettings :
                config'.ints[p] = IF Has(p) THEN Numbers[data[p]] ELSE Presets[mode][p]
        <3> DEFINE preset == Presets[mode]
        <3>1. config'.ints = Over(Ints(ModeSettings, preset), config.ints)
            BY <2>5 DEF ints
        <3> HIDE DEF preset
        <3>2. /\ DOMAIN config'.ints = ModeSettings \cup DOMAIN config.ints
              /\ \A p \in ModeSettings : config'.ints[p] = IF Has(p) THEN Numbers[data[p]] ELSE preset[p]
              /\ \A p \in DOMAIN config.ints \ ModeSettings : config'.ints[p] = config.ints[p]
            BY <2>3, <3>1, TakeFacts, Zenon
        <3> QED BY <2>3, <3>2 DEF preset
    <2>7. Shapes'
        BY <2>1, <2>2, <2>3, <2>4, <2>5 DEF Shapes, Steps
    <2>8. Numbered'
        BY <2>1, <2>6 DEF Numbered
    <2>9. Moded'
        <3>1. \A p : Has(p)' = Has(p)
            BY <2>1 DEF Has
        <3>2. ModeValid'
            BY <2>1 DEF ModeValid, Misplaced, Get, Has, InRange, IsNumber
        <3>3. config'.mode = Get(Mode, "fast")'
            BY <2>1, <2>5 DEF mode, Get, Has, Mode
        <3>4. config'.lists = [s \in Stages |-> Lists[Get(ProviderList(s), "empty")]]'
            BY <2>1, <2>5 DEF lists, Get, Has, ProviderList, Lists, Stages
        <3>5. \A p \in ModeSettings :
                config'.ints[p] = IF Has(p)' THEN Numbers[data'[p]] ELSE Presets[config'.mode][p]
            BY <2>1, <2>5, <2>6, <3>1
        <3> QED BY <3>2, <3>3, <3>4, <3>5 DEF Moded
    <2> QED BY <2>2, <2>7, <2>8, <2>9 DEF ConfigInv
<1> QED BY <1>1, <1>2

LEMMA StoresKeeps ==
    ASSUME ConfigInv, BuildStores
    PROVE  ConfigInv'
<1>1. CASE ConfigError
    BY <1>1, RefusedKeeps
<1>2. CASE ~ConfigError
    <2>1. /\ pc = "stores" /\ pc' = "coder" /\ Goto(pc') /\ UNCHANGED <<data, providers>>
          /\ config' = [config EXCEPT !.ints = Over(Ints(IntsOf("reportdb"), OwnDefaults), config.ints)]
        BY <1>2 DEF BuildStores, Take, Goto
    <2>2. Sourced' /\ Read'
        BY <2>1, LaterKeeps DEF Filling, Built
    <2>3. Shapes /\ DOMAIN config.ints = IntsOf("graph") \cup ModeSettings
        BY <2>1 DEF ConfigInv, Numbered
    <2>4. /\ DOMAIN config' = DOMAIN config /\ config'.mode = config.mode /\ config'.lists = config.lists
          /\ config'.ints = Over(Ints(IntsOf("reportdb"), OwnDefaults), config.ints)
        BY <2>1, <2>3, ConfigShape
    <2>5. /\ DOMAIN config'.ints = IntsOf("reportdb") \cup DOMAIN config.ints
          /\ \A p \in DOMAIN config.ints \ IntsOf("reportdb") : config'.ints[p] = config.ints[p]
        BY <2>3, <2>4, TakeFacts
    <2>6. \A p \in ModeSettings : config'.ints[p] = config.ints[p]
        BY <2>3, <2>5, IntSets
    <2>7. Moded'
        BY <2>1, <2>4, <2>6, ModedStays DEF Built
    <2>8. Shapes'
        BY <2>1, <2>2, <2>3, <2>4 DEF Shapes, Steps
    <2>9. Numbered'
        BY <2>1, <2>3, <2>5 DEF Numbered
    <2> QED BY <2>2, <2>7, <2>8, <2>9 DEF ConfigInv
<1> QED BY <1>1, <1>2

LEMMA CoderKeeps ==
    ASSUME ConfigInv, BuildCoder
    PROVE  ConfigInv'
<1>1. CASE ConfigError
    BY <1>1, RefusedKeeps
<1>2. CASE ~ConfigError
    <2> DEFINE ints == Over(Ints(IntsOf("coder"), OwnDefaults), config.ints)
               w == Workspace
    <2>1. /\ pc = "coder" /\ pc' = "audit" /\ Goto(pc') /\ UNCHANGED <<data, providers>>
          /\ config' = [config EXCEPT !.ints = ints, !.workspace = w[1], !.project = w[2]]
        BY <1>2 DEF BuildCoder, Goto
    <2>2. Sourced' /\ Read'
        BY <2>1, LaterKeeps DEF Filling, Built
    <2>3. Shapes /\ DOMAIN config.ints = IntsOf("graph") \cup ModeSettings \cup IntsOf("reportdb")
        BY <2>1 DEF ConfigInv, Numbered
    <2> HIDE DEF ints, w
    <2>4. /\ DOMAIN config' = DOMAIN config /\ config'.mode = config.mode /\ config'.lists = config.lists
          /\ config'.ints = ints
        BY <2>1, <2>3 DEF Shapes
    <2>5. /\ DOMAIN config'.ints = IntsOf("coder") \cup DOMAIN config.ints
          /\ \A p \in DOMAIN config.ints \ IntsOf("coder") : config'.ints[p] = config.ints[p]
        BY <2>3, <2>4, TakeFacts DEF ints
    <2>6. \A p \in ModeSettings : config'.ints[p] = config.ints[p]
        BY <2>3, <2>5, IntSets
    <2>7. Moded'
        BY <2>1, <2>4, <2>6, ModedStays DEF Built
    <2>8. Shapes'
        BY <2>1, <2>2, <2>3, <2>4 DEF Shapes, Steps
    <2>9. Numbered'
        <3>1. DOMAIN config'.ints = IntSettings \ {WorkerCount}
            BY <2>3, <2>5, IntSets
        <3> QED BY <2>1, <3>1 DEF Numbered
    <2> QED BY <2>2, <2>7, <2>8, <2>9 DEF ConfigInv
<1> QED BY <1>1, <1>2

LEMMA AuditKeeps ==
    ASSUME ConfigInv, BuildAudit
    PROVE  ConfigInv'
<1>1. CASE ConfigError
    BY <1>1, RefusedKeeps
<1>2. CASE ~ConfigError
    <2>1. /\ pc = "audit" /\ pc' = "loaded" /\ Goto(pc') /\ UNCHANGED <<data, providers>> /\ InRange(WorkerCount)
          /\ config' = [config EXCEPT !.ints = Over(Ints({WorkerCount}, OwnDefaults), config.ints)]
        BY <1>2 DEF BuildAudit, Take, Goto
    <2>2. Sourced' /\ Read'
        BY <2>1, LaterKeeps DEF Filling, Built
    <2>3. Shapes /\ DOMAIN config.ints = IntSettings \ {WorkerCount}
        BY <2>1 DEF ConfigInv, Numbered
    <2>4. /\ DOMAIN config' = DOMAIN config /\ config'.mode = config.mode /\ config'.lists = config.lists
          /\ config'.ints = Over(Ints({WorkerCount}, OwnDefaults), config.ints)
        BY <2>1, <2>3, ConfigShape
    <2>5. /\ DOMAIN config'.ints = {WorkerCount} \cup DOMAIN config.ints
          /\ config'.ints[WorkerCount] = IF Has(WorkerCount) THEN Numbers[data[WorkerCount]] ELSE OwnDefaults[WorkerCount]
          /\ \A p \in DOMAIN config.ints \ {WorkerCount} : config'.ints[p] = config.ints[p]
        <3>1. /\ DOMAIN config'.ints = {WorkerCount} \cup DOMAIN config.ints
              /\ \A p \in {WorkerCount} :
                    config'.ints[p] = IF Has(p) THEN Numbers[data[p]] ELSE OwnDefaults[p]
              /\ \A p \in DOMAIN config.ints \ {WorkerCount} : config'.ints[p] = config.ints[p]
            BY <2>3, <2>4, TakeFacts, Zenon
        <3> QED BY <3>1
    <2>6. \A p \in ModeSettings : config'.ints[p] = config.ints[p]
        BY <2>3, <2>5, IntSets
    <2>7. Moded'
        BY <2>1, <2>4, <2>6, ModedStays DEF Built
    <2>8. Shapes'
        BY <2>1, <2>2, <2>3, <2>4 DEF Shapes, Steps
    <2>9. Numbered'
        <3>1. DOMAIN config'.ints = IntSettings
            BY <2>3, <2>5, IntSets
        <3>2. OwnDefaults[WorkerCount] = 1 /\ Smallest(WorkerCount) = 1 /\ Largest(WorkerCount) = 16
            <4>1. WorkerCount # PathsMaxDepth /\ WorkerCount # PathsMaxCount /\ WorkerCount # Replication("exploiter")
                BY DEF WorkerCount, PathsMaxDepth, PathsMaxCount, Replication
            <4> QED BY <4>1, IntSets DEF OwnDefaults, Smallest, Largest
        <3>3. config'.ints[WorkerCount] \in 1 .. 16
            BY <2>1, <2>5, <3>2 DEF InRange, IsNumber
        <3> QED BY <2>1, <3>1, <3>3 DEF Numbered
    <2> QED BY <2>2, <2>7, <2>8, <2>9 DEF ConfigInv
<1> QED BY <1>1, <1>2

LEMMA ConfigInvStep == ConfigInv /\ [ConfigNext]_configVars => ConfigInv'
<1> SUFFICES ASSUME ConfigInv, [ConfigNext]_configVars PROVE ConfigInv'
    OBVIOUS
<1>1. ASSUME NEW layer \in Writable, NEW c \in Changes, Write(layer, c[1], c[2]) PROVE ConfigInv'
    BY <1>1, WriteKeeps
<1>2. CASE ReadFiles \/ ReadEnv \/ ApplyOverrides
    BY <1>2, ReadKeeps
<1>3. CASE BuildLLM
    BY <1>3, LLMKeeps
<1>4. CASE MigrateLegacyTeaming
    BY <1>4, MigrateTeamingKeeps
<1>5. CASE BuildGraph
    BY <1>5, GraphKeeps
<1>6. CASE BuildTeaming
    BY <1>6, TeamingKeeps
<1>7. CASE BuildMode
    BY <1>7, ModeKeeps
<1>8. CASE BuildStores
    BY <1>8, StoresKeeps
<1>9. CASE BuildCoder
    BY <1>9, CoderKeeps
<1>10. CASE BuildAudit
    BY <1>10, AuditKeeps
<1>11. CASE UNCHANGED configVars
    <2>1. /\ pc' = pc /\ source' = source /\ require_llm' = require_llm /\ data' = data
          /\ providers' = providers /\ config' = config
        BY <1>11 DEF configVars
    <2>2. CASE pc \in Filling
        <3>1. Sourced' /\ Read'
            BY <2>1, <2>2, LaterKeeps DEF Goto
        <3>2. Moded'
            BY <2>1, ModedStays DEF Moded
        <3> QED BY <2>1, <3>1, <3>2 DEF ConfigInv, Shapes, Numbered, IntsOf
    <2>3. CASE pc \notin Filling
        <3>1. Shapes' /\ Read'
            BY <2>1, <2>3, SourcesFrozen DEF ConfigInv, Shapes, Read
        <3> QED BY <2>1, <2>3, <3>1 DEF ConfigInv, Numbered, Moded, Filling, IntsOf
    <2> QED BY <2>2, <2>3
<1> QED BY <1>1, <1>2, <1>3, <1>4, <1>5, <1>6, <1>7, <1>8, <1>9, <1>10, <1>11 DEF ConfigNext, Ended

LEMMA ConfigInvariant == ConfigSpec => []ConfigInv
BY ConfigInvInit, ConfigInvStep, PTL DEF ConfigSpec

-----------------------------------------------------------------------------
(* What follows from the invariant.                                        *)

LEMMA PresetFacts ==
    /\ DOMAIN Presets = {"fast", "deep"}
    /\ \A m \in {"fast", "deep"} : \A p \in ModeSettings : Presets[m][p] \in Smallest(p) .. Largest(p)
    /\ \A p \in ModeSettings : /\ Largest(p) = 20
                              /\ Smallest(p) = IF p = Replication("exploiter") THEN 0 ELSE 1
<1>1. DOMAIN Presets = {"fast", "deep"}
    BY DEF Presets
<1>2. \A p \in ModeSettings : p # PathsMaxCount /\ p # WorkerCount
    BY IntSets
<1>3. \A p \in ModeSettings : /\ Largest(p) = 20
                              /\ Smallest(p) = IF p = Replication("exploiter") THEN 0 ELSE 1
    BY <1>2 DEF Largest, Smallest
<1>4. \A p \in ModeSettings : Presets["fast"][p] \in 1 .. 5 /\ Presets["deep"][p] \in 1 .. 3
    BY DEF Presets
<1> QED BY <1>1, <1>3, <1>4

LEMMA EffectiveHolds ==
    ASSUME ConfigInv
    PROVE  EffectiveIsHighest
<1> SUFFICES ASSUME pc = "llm", NEW p \in UNION {DOMAIN source[l] : l \in ToSet(Layers)}
             PROVE  Get(p, "unset") = Effective(p, "unset")
    BY DEF EffectiveIsHighest
<1>1. Sourced /\ data = Tree
    BY DEF ConfigInv, Shapes, Read
<1>2. IsPath(p)
    BY <1>1, LayerSet DEF Sourced, AllPaths
<1>3. Get(p, "unset") = Says(Tree, p, "unset")
    BY <1>1 DEF Get, Has, Says
<1> QED BY <1>1, <1>2, <1>3, TreeIsEffective

\* Above a preset setting of an accepted configuration there are only nulls,
\* and they were in the sources: without an empty section there is nothing.
LEMMA NothingAbove ==
    ASSUME Sourced, IsFilled, ModeValid, NoEmptySection, NEW p \in {Mode} \cup ModeSettings
    PROVE  ~Above(Tree, p)
<1> SUFFICES ASSUME NEW q \in DOMAIN Tree, q # p, IsPrefix(q, p) PROVE FALSE
    BY DEF Above
<1>1. IsPath(q) /\ q \in DOMAIN data /\ data[q] = Tree[q]
    BY TreePaths DEF AllPaths, IsFilled
<1>2. q \in Sections /\ q[1] = "audit"
    BY <1>1, AboveIsSection
<1>3. Says(Tree, q, "unset") = "null"
    BY <1>1, <1>2 DEF ModeValid, Misplaced, Says
<1>4. \/ Says(source.cli, q, "unset") = "null" \/ Says(EnvSays, q, "unset") = "null"
      \/ Says(source.project, q, "unset") = "null" \/ Says(source.home, q, "unset") = "null"
      \/ Says(Defaults, q, "unset") = "null"
    <2>1. Says(Tree, q, "unset") \in {Says(source.cli, q, "unset"), Says(EnvRead, q, "unset")}
        BY <1>1, TreePaths, MergedAt DEF Tree
    <2>2. Says(EnvRead, q, "unset") \in {Says(EnvSays, q, "unset"), Says(FilesRead, q, "unset")}
        BY <1>1, TreePaths, MergedAt DEF EnvRead
    <2>3. Says(FilesRead, q, "unset")
            \in {Says(source.project, q, "unset"), Says(Merge(Defaults, source.home), q, "unset")}
        BY <1>1, TreePaths, MergedAt DEF FilesRead
    <2>4. Says(Merge(Defaults, source.home), q, "unset")
            \in {Says(source.home, q, "unset"), Says(Defaults, q, "unset")}
        BY <1>1, TreePaths, MergedAt
    <2> QED BY <1>3, <2>1, <2>2, <2>3, <2>4
<1>5. \A l \in {"home", "project", "env", "cli"} : Says(source[l], q, "unset") # "null"
    BY <1>2, LayerSet DEF NoEmptySection, Says
<1>6. Says(EnvSays, q, "unset") # "null"
    BY <1>5 DEF EnvSays, EnvPaths, Says
<1>7. Says(Defaults, q, "unset") # "null"
    <2>1. \A r \in DOMAIN Defaults : Defaults[r] \in {"dir", "info"}
        BY DEF Defaults, Over, Setting
    <2> QED BY <2>1 DEF Says
<1> QED BY <1>4, <1>5, <1>6, <1>7

LEMMA FilledHolds ==
    ASSUME ConfigInv
    PROVE  LegacyOnlyFills
<1> SUFFICES ASSUME pc = "loaded", NoEmptySection
             PROVE  /\ config.mode = IF Effective(Mode, "unset") # "unset" THEN Effective(Mode, "unset")
                         ELSE IF Effective(LegacyEnabled, "unset") = "true"
                         THEN "deep" ELSE "fast"
                    /\ \A p \in ModeSettings : config.ints[p] = Filled(p, Presets[config.mode][p])
    BY DEF LegacyOnlyFills
<1>1. Sourced /\ IsFilled /\ ModeValid /\ config.mode = Get(Mode, "fast")
    BY DEF ConfigInv, Shapes, Read, Moded, Filling, Built
<1>2. \A p \in ModeSettings :
        config.ints[p] = IF Has(p) THEN Numbers[data[p]] ELSE Presets[config.mode][p]
    BY DEF ConfigInv, Moded, Built
<1>3. \A p \in Fillable : /\ Effective(p, "unset") = Says(Tree, p, "unset")
                          /\ Effective(Old(p), "unset") = Says(Tree, Old(p), "unset")
    BY <1>1, FillableTypes, TreeIsEffective
<1>4. \A p \in {Mode} \cup ModeSettings :
        Has(p) <=> p \in DOMAIN Tree \/ Old(p) \in DOMAIN Tree
    <2> TAKE p \in {Mode} \cup ModeSettings
    <2>1. ~Above(Tree, p) /\ ~Above(Tree, Mode)
        BY <1>1, NothingAbove
    <2>2. p \in Fillable
        BY FillableTypes
    <2>3. p \in DOMAIN data <=> p \in DOMAIN Tree \/ Fills(p)
        BY <1>1 DEF IsFilled
    <2> QED BY <2>1, <2>2, <2>3 DEF Has, Fills
<1>5. \A p \in DOMAIN Tree : data[p] = Tree[p]
    BY <1>1 DEF IsFilled
<1>6. \A p \in DOMAIN data \ DOMAIN Tree : data[p] = Filler(p)
    BY <1>1 DEF IsFilled
<1>7. config.mode = IF Effective(Mode, "unset") # "unset" THEN Effective(Mode, "unset")
                    ELSE IF Effective(LegacyEnabled, "unset") = "true"
                    THEN "deep" ELSE "fast"
    <2>1. config.mode \in {"fast", "deep"}
        BY DEF ConfigInv, Shapes
    <2>2. /\ Effective(Mode, "unset") = Says(Tree, Mode, "unset")
          /\ Effective(LegacyEnabled, "unset") = Says(Tree, LegacyEnabled, "unset")
        BY <1>3, FillableTypes
    <2>3. Has(Mode) <=> Mode \in DOMAIN Tree \/ LegacyEnabled \in DOMAIN Tree
        BY <1>4, FillableTypes
    <2>4. CASE Mode \in DOMAIN Tree
        BY <1>1, <1>5, <2>1, <2>2, <2>3, <2>4 DEF Get, Has, Says
    <2>5. CASE Mode \notin DOMAIN Tree /\ Has(Mode)
        <3>1. data[Mode] = IF Tree[LegacyEnabled] = "true" THEN "deep" ELSE "fast"
            BY <1>6, <2>5 DEF Has, Filler
        <3> QED BY <1>1, <2>2, <2>3, <2>5, <3>1 DEF Get, Says
    <2>6. CASE Mode \notin DOMAIN Tree /\ ~Has(Mode)
        BY <1>1, <2>2, <2>3, <2>6 DEF Get, Says
    <2> QED BY <2>4, <2>5, <2>6
<1>8. ASSUME NEW p \in ModeSettings PROVE config.ints[p] = Filled(p, Presets[config.mode][p])
    <2> DEFINE d == Presets[config.mode][p]
               new == Effective(p, "unset")
               old == Effective(Old(p), "unset")
    <2>1. new = Says(Tree, p, "unset") /\ old = Says(Tree, Old(p), "unset")
        BY <1>3, FillableTypes
    <2>2. Has(p) <=> p \in DOMAIN Tree \/ Old(p) \in DOMAIN Tree
        BY <1>4
    <2>3. Has(p) => data[p] \in DOMAIN Numbers
        BY <1>1 DEF ModeValid, InRange, IsNumber
    <2>4. "unset" \notin DOMAIN Numbers
        BY DEF Numbers
    <2>5. config.ints[p] = IF Has(p) THEN Numbers[data[p]] ELSE d
        BY <1>2
    <2>6. Filled(p, d) = IF new # "unset" THEN Numbers[new]
                         ELSE IF old # "unset" THEN Numbers[old] ELSE d
        BY DEF Filled
    <2> HIDE DEF d, new, old
    <2>7. CASE p \in DOMAIN Tree
        <3>1. data[p] = new
            BY <1>5, <2>1, <2>7 DEF Says
        <3> QED BY <2>2, <2>3, <2>4, <2>5, <2>6, <2>7, <3>1 DEF d
    <2>8. CASE p \notin DOMAIN Tree /\ Has(p)
        <3>1. new = "unset" /\ old = Tree[Old(p)]
            BY <2>1, <2>2, <2>8 DEF Says
        <3>2. data[p] = Tree[Old(p)]
            BY <1>6, <2>8, FillableTypes DEF Has, Filler
        <3> QED BY <2>3, <2>4, <2>5, <2>6, <2>8, <3>1, <3>2 DEF d
    <2>9. CASE p \notin DOMAIN Tree /\ ~Has(p)
        <3>1. new = "unset" /\ old = "unset"
            BY <2>1, <2>2, <2>9 DEF Says
        <3> QED BY <2>5, <2>6, <2>9, <3>1 DEF d
    <2> QED BY <2>7, <2>8, <2>9
<1> QED BY <1>7, <1>8

LEMMA ListFacts ==
    /\ "empty" \in DOMAIN Lists
    /\ \A v \in DOMAIN Lists : Lists[v] \subseteq Names
BY DEF Lists, Names

LEMMA TypeHolds ==
    ASSUME ConfigInv
    PROVE  ConfigTypeOK
<1>1. pc \in Steps /\ config.mode \in DOMAIN Presets
    BY PresetFacts DEF ConfigInv, Shapes
<1>2. ASSUME pc = "loaded" PROVE DOMAIN config.ints = IntSettings /\ config.lists \in [Stages -> SUBSET Names]
    <2>1. DOMAIN config.ints = IntSettings
        BY <1>2 DEF ConfigInv, Numbered
    <2>2. ModeValid /\ config.lists = [s \in Stages |-> Lists[Get(ProviderList(s), "empty")]]
        BY <1>2 DEF ConfigInv, Moded, Built
    <2>3. \A s \in Stages : Lists[Get(ProviderList(s), "empty")] \in SUBSET Names
        BY <2>2, ListFacts DEF ModeValid
    <2> QED BY <2>1, <2>2, <2>3
<1> QED BY <1>1, <1>2 DEF ConfigTypeOK, Steps

\* LayersResolved, of load_config: for any home files and any settings in any
\* of the sources, as long as none leaves a section empty, the tree holds what
\* the highest source says, and a legacy setting takes effect exactly where
\* the new shape says nothing.
THEOREM ConfigLayersResolved == ConfigSpec => []LayersResolved
<1>1. ConfigInv => LayersResolved
    BY TypeHolds, EffectiveHolds, FilledHolds DEF LayersResolved
<1> QED BY <1>1, ConfigInvariant, PTL

===============================================================================
