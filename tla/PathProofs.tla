----------------------------- MODULE PathProofs -----------------------------
(***************************************************************************)
(* Proofs about the paths of a program, as they are enumerated and as they *)
(* reach the audit: CallPaths, for any finite set of functions, any calls  *)
(* between them and any caps, and PathStreamer, for any source, with any   *)
(* repetitions, and any capacity of the queue: it implements PathStream.   *)
(***************************************************************************)
EXTENDS CallPaths, PathStreamer, FiniteSetTheorems, SequenceTheorems, TLAPS

\* The least member of a set of numbers, that Least chooses.
LEMMA LeastFacts ==
    ASSUME NEW S \in SUBSET Nat, S # {}
    PROVE  Least(S) \in S /\ \A n \in S : Least(S) <= n
<1>1. PICK m \in S : \A n \in S : <<n, m>> \notin OpToRel(<, Nat)
    BY NatLessThanWellFounded, WFMin
<1>2. \A n \in S : m <= n
    <2> TAKE n \in S
    <2>1. n < m => <<n, m>> \in OpToRel(<, Nat)
        BY DEF OpToRel
    <2>2. ~(n < m)
        BY <1>1, <2>1
    <2> QED BY <2>2
<1> QED BY <1>2 DEF Least

\* The operations on sequences.
\* What appending does to a sequence.
LEMMA AppendFacts ==
    ASSUME NEW S, NEW s \in Seq(S), NEW e \in S
    PROVE  /\ Append(s, e) \in Seq(S) /\ Len(Append(s, e)) = Len(s) + 1
           /\ \A i \in 1..Len(s) : Append(s, e)[i] = s[i]
           /\ Append(s, e)[Len(s) + 1] = e
OBVIOUS

LEMMA FrontFacts ==
    ASSUME NEW S, NEW s \in Seq(S), s # <<>>
    PROVE  /\ Len(s) \in Nat \ {0} /\ Last(s) = s[Len(s)] /\ Last(s) \in S
           /\ Front(s) \in Seq(S) /\ Len(Front(s)) = Len(s) - 1
           /\ \A i \in 1 .. Len(s) - 1 : Front(s)[i] = s[i]
<1>1. Len(s) \in Nat \ {0}
    BY EmptySeq
<1>2. /\ Front(s) \in Seq(S) /\ Len(Front(s)) = Len(s) - 1
      /\ \A i \in 1 .. Len(s) - 1 : Front(s)[i] = s[i]
    <2>1. \A i \in 1 .. Len(s) - 1 : s[i] \in S
        BY <1>1
    <2>2. /\ SubSeq(s, 1, Len(s) - 1) \in Seq(S)
          /\ Len(SubSeq(s, 1, Len(s) - 1)) = IF 1 <= Len(s) - 1 THEN Len(s) - 1 - 1 + 1 ELSE 0
          /\ \A i \in 1 .. Len(s) - 1 - 1 + 1 : SubSeq(s, 1, Len(s) - 1)[i] = s[1 + i - 1]
        BY <1>1, <2>1, SubSeqProperties
    <2>3. Front(s) = SubSeq(s, 1, Len(s) - 1)
        BY DEF Front
    <2>4. \A i \in 1 .. Len(s) - 1 : i \in 1 .. Len(s) - 1 - 1 + 1 /\ 1 + i - 1 = i
        BY <1>1
    <2>5. \A i \in 1 .. Len(s) - 1 : SubSeq(s, 1, Len(s) - 1)[i] = s[i]
        BY <2>2, <2>4
    <2>6. \A n \in Nat \ {0} : (IF 1 <= n - 1 THEN n - 1 - 1 + 1 ELSE 0) = n - 1
        OBVIOUS
    <2>7. Len(SubSeq(s, 1, Len(s) - 1)) = Len(s) - 1
        BY <1>1, <2>2, <2>6, Zenon
    <2> QED BY <2>2, <2>3, <2>5, <2>7, Zenon
<1> QED BY <1>1, <1>2 DEF Last

LEMMA ToSetFacts ==
    ASSUME NEW S, NEW s \in Seq(S)
    PROVE  /\ DOMAIN s = 1 .. Len(s) /\ ToSet(s) \subseteq S
           /\ \A i \in 1 .. Len(s) : s[i] \in ToSet(s)
           /\ \A e \in ToSet(s) : \E i \in 1 .. Len(s) : s[i] = e
BY DEF ToSet

-----------------------------------------------------------------------------
(***************************************************************************)
(* CallPaths: the call graph, that no step changes, and the chains in it   *)
(* by what is at each position.                                            *)
(***************************************************************************)
CallGraph == [f \in Functions |-> Callees(f)]

\* The calls are those of a program.
Program == calls \in CallSets /\ depth \in Depths /\ count \in Counts

LEMMA GraphFacts ==
    ASSUME Program
    PROVE  /\ Records \subseteq Functions /\ Functions \subseteq Nat
           /\ EntryIds \subseteq Records
           /\ CallGraph \in [Functions -> SUBSET Records]
           /\ \A f \in Functions : CallGraph[f] = Callees(f)
           /\ depth \in Nat \ {0} /\ count \in Nat
<1>1. Records \subseteq Functions
    BY CallPathsAssumption DEF Records
<1>2. \A c \in calls : ResolveCallee(c) \subseteq Records
    <2> TAKE c \in calls
    <2>1. CASE c.qualified # {}
        <3>1. PICK f \in Functions : c.qualified = {f}
            BY <2>1, CallsAssumption DEF Program
        <3>2. f \in Records
            BY <3>1 DEF Records
        <3> QED BY <2>1, <3>1, <3>2 DEF ResolveCallee
    <2>2. CASE c.qualified = {}
        BY <2>2 DEF ResolveCallee
    <2> QED BY <2>1, <2>2
<1>3. \A f \in Functions : Callees(f) \subseteq Records
    BY <1>2 DEF Callees
<1> QED BY <1>1, <1>3, CallPathsAssumption DEF CallGraph, EntryIds, Program

\* The graph does not change.
LEMMA GraphFrozen ==
    ASSUME UNCHANGED <<calls, depth, count>>
    PROVE  /\ UNCHANGED <<Records, EntryIds, CallGraph, Wanted, Program, Acyclic>>
<1>1. Records' = Records
    BY DEF Records
<1>2. \A c : ResolveCallee(c)' = ResolveCallee(c)
    BY <1>1 DEF ResolveCallee, Records
<1>3. \A f : Callees(f)' = Callees(f)
    BY <1>2 DEF Callees, ResolveCallee, Records
<1>4. EntryIds' = EntryIds
    BY <1>3 DEF EntryIds, Callees, ResolveCallee, Records
<1>5. CallGraph' = CallGraph
    BY <1>3 DEF CallGraph, Callees, ResolveCallee, Records
<1>6. Wanted' = Wanted
    BY <1>3, <1>4 DEF Wanted, Chains, EntryIds, Callees, ResolveCallee, Records
<1>7. Acyclic' = Acyclic
    BY <1>3, <1>4 DEF Acyclic, Callees, ResolveCallee, Records
<1> QED BY <1>1, <1>4, <1>5, <1>6, <1>7 DEF Program

-----------------------------------------------------------------------------
\* A call chain from an entry, no function twice.
IsChain(p) ==
    /\ p \in Seq(Records) /\ Len(p) > 0
    /\ p[1] \in EntryIds
    /\ \A i \in 1 .. Len(p) - 1 : p[i + 1] \in CallGraph[p[i]]
    /\ \A i, j \in 1 .. Len(p) : p[i] = p[j] => i = j

LEMMA Pigeonhole ==
    ASSUME NEW p \in Seq(Functions), \A i, j \in 1 .. Len(p) : p[i] = p[j] => i = j
    PROVE  Len(p) <= Cardinality(Functions)
<1>1. p \in Injection(1 .. Len(p), Functions)
    BY DEF Injection, IsInjective
<1>2. Cardinality(1 .. Len(p)) <= Cardinality(Functions)
    BY <1>1, FS_Injection, CallPathsAssumption
<1>3. Cardinality(1 .. Len(p)) = IF 1 > Len(p) THEN 0 ELSE Len(p) - 1 + 1
    BY FS_Interval
<1> QED BY <1>2, <1>3

LEMMA SimpleAre ==
    ASSUME NEW p
    PROVE  p \in Simple <=> /\ p \in Seq(Functions) /\ Len(p) > 0
                            /\ \A i, j \in 1 .. Len(p) : p[i] = p[j] => i = j
<1>1. ASSUME p \in Simple
      PROVE  /\ p \in Seq(Functions) /\ Len(p) > 0
             /\ \A i, j \in 1 .. Len(p) : p[i] = p[j] => i = j
    <2>1. PICK n \in 1 .. Cardinality(Functions) : p \in [1 .. n -> Functions]
        BY <1>1 DEF Simple
    <2>2. n \in Nat \ {0}
        BY <2>1
    <2>3. p \in Seq(Functions) /\ Len(p) = n
        BY <2>1, <2>2
    <2> QED BY <1>1, <2>1, <2>2, <2>3 DEF Simple
<1>2. ASSUME p \in Seq(Functions), Len(p) > 0,
             \A i, j \in 1 .. Len(p) : p[i] = p[j] => i = j
      PROVE  p \in Simple
    <2>1. Len(p) \in 1 .. Cardinality(Functions)
        <3>1. Len(p) <= Cardinality(Functions)
            BY <1>2, Pigeonhole
        <3>2. Cardinality(Functions) \in Nat
            BY FS_CardinalityType, CallPathsAssumption
        <3> QED BY <1>2, <3>1, <3>2
    <2>2. p \in [1 .. Len(p) -> Functions]
        BY <1>2
    <2> QED BY <1>2, <2>1, <2>2 DEF Simple
<1> QED BY <1>1, <1>2

LEMMA ChainsAre ==
    ASSUME Program, NEW p
    PROVE  p \in Chains <=> IsChain(p)
<1> USE GraphFacts
<1>1. ASSUME p \in Chains PROVE IsChain(p)
    <2>1. /\ p \in Seq(Functions) /\ Len(p) > 0 /\ p[1] \in EntryIds
          /\ \A i, j \in 1 .. Len(p) : p[i] = p[j] => i = j
        BY <1>1, SimpleAre DEF Chains
    <2>2. \A i \in 1 .. Len(p) - 1 : p[i + 1] \in CallGraph[p[i]]
        BY <1>1, <2>1 DEF Chains
    <2>3. \A i \in 1 .. Len(p) : p[i] \in Records
        <3> TAKE i \in 1 .. Len(p)
        <3>1. CASE i = 1
            BY <2>1, <3>1
        <3>2. CASE i > 1
            <4>1. i - 1 \in 1 .. Len(p) - 1 /\ i - 1 \in 1 .. Len(p) /\ (i - 1) + 1 = i
                BY <2>1, <3>2
            <4>2. p[i] \in CallGraph[p[i - 1]] /\ p[i - 1] \in Functions
                BY <2>1, <2>2, <4>1
            <4> QED BY <4>2
        <3> QED BY <2>1, <3>1, <3>2
    <2>4. p \in [1 .. Len(p) -> Records] /\ Len(p) \in Nat
        BY <2>1, <2>3
    <2>5. p \in Seq(Records)
        BY <2>4
    <2> QED BY <2>1, <2>2, <2>5 DEF IsChain
<1>2. ASSUME IsChain(p) PROVE p \in Chains
    <2>1. p \in Seq(Functions)
        BY <1>2 DEF IsChain
    <2>2. p \in Simple
        BY <1>2, <2>1, SimpleAre DEF IsChain
    <2> QED BY <1>2, <2>1, <2>2 DEF IsChain, Chains
<1> QED BY <1>1, <1>2

LEMMA WantedAre ==
    ASSUME Program, NEW p
    PROVE  p \in Wanted <=>
            /\ IsChain(p) /\ Len(p) <= depth
            /\ \/ CallGraph[p[Len(p)]] = {}
               \/ Len(p) = depth /\ ~(CallGraph[p[Len(p)]] \subseteq ToSet(p))
<1>1. IsChain(p) => Last(p) = p[Len(p)] /\ Callees(Last(p)) = CallGraph[p[Len(p)]]
    <2> SUFFICES ASSUME IsChain(p) PROVE p[Len(p)] \in Functions
        BY GraphFacts DEF Last
    <2> QED BY GraphFacts DEF IsChain
<1> QED BY <1>1, ChainsAre DEF Wanted

-----------------------------------------------------------------------------
(***************************************************************************)
(* The walk.  A wanted chain is yielded or ahead, and what is ahead comes  *)
(* after everything yielded: a step only moves chains from ahead to the    *)
(* paths, in order.  That needs the stack to be a chain with all that its  *)
(* iterators have left after it.                                           *)
(***************************************************************************)

\* What the walk still has ahead of it: below an entry not walked yet, below
\* a callee some iterator has left, or the stack itself.
Ahead(p) ==
    \/ p[1] \in todo
    \/ \E k \in 1 .. Len(stack) :
        /\ Len(p) > k /\ \A i \in 1 .. k : p[i] = stack[i]
        /\ p[k + 1] \in iters[k]
    \/ /\ stack # <<>> /\ p = stack
       /\ \/ CallGraph[stack[Len(stack)]] = {}
          \/ Len(stack) = depth /\ ~(iters[Len(stack)] \subseteq ToSet(stack))

Remaining == {p \in Wanted : Ahead(p)}

WalkType ==
    /\ Program
    /\ stack \in Seq(Records) /\ iters \in Seq(SUBSET Records)
    /\ Len(iters) = Len(stack) /\ Len(stack) <= depth
    /\ todo \subseteq EntryIds
    /\ paths \in Seq(Wanted)

WalkOrder ==
    /\ stack # <<>> => IsChain(stack)
    /\ \A i \in 1 .. Len(stack) : iters[i] \subseteq CallGraph[stack[i]]
    /\ \A i \in 1 .. Len(stack) - 1 : \A m \in iters[i] : stack[i + 1] < m
    /\ stack # <<>> => \A m \in todo : stack[1] < m

WalkComplete ==
    /\ Wanted \subseteq ToSet(paths) \cup Remaining
    /\ \A q \in ToSet(paths) : \A p \in Remaining : Before(q, p) \/ q = p
    /\ \A i, j \in 1 .. Len(paths) : i < j => Before(paths[i], paths[j])

Walk == WalkType /\ WalkOrder

LEMMA WalkFacts ==
    ASSUME Walk
    PROVE  /\ Records \subseteq Functions /\ Functions \subseteq Nat /\ EntryIds \subseteq Records
           /\ CallGraph \in [Functions -> SUBSET Records]
           /\ \A f \in Functions : CallGraph[f] = Callees(f)
           /\ depth \in Nat \ {0} /\ count \in Nat
           /\ Len(stack) \in Nat
           /\ \A i \in 1 .. Len(stack) : stack[i] \in Records /\ iters[i] \in SUBSET Records
           /\ stack = <<>> <=> Len(stack) = 0
BY GraphFacts DEF Walk, WalkType

\* Each remaining chain comes after the stack, or is the stack.
LEMMA RemainingIsAfter ==
    ASSUME Walk, stack # <<>>, NEW p \in Remaining
    PROVE  Before(stack, p) \/ stack = p
<1> USE WalkFacts
<1>1. IsChain(p) /\ Ahead(p)
    BY WantedAre DEF Remaining, Walk, WalkType
<1>2. DOMAIN p = 1 .. Len(p) /\ Len(p) \in Nat \ {0} /\ DOMAIN stack = 1 .. Len(stack)
    BY <1>1 DEF IsChain, Walk, WalkType
<1>3. CASE p[1] \in todo
    <2>1. 1 \in DOMAIN p /\ stack[1] < p[1]
        BY <1>2, <1>3 DEF Walk, WalkOrder
    <2> QED BY <2>1 DEF Before
<1>4. CASE \E k \in 1 .. Len(stack) : /\ Len(p) > k /\ \A i \in 1 .. k : p[i] = stack[i]
                                      /\ p[k + 1] \in iters[k]
    <2>1. PICK k \in 1 .. Len(stack) : /\ Len(p) > k /\ \A i \in 1 .. k : p[i] = stack[i]
                                       /\ p[k + 1] \in iters[k]
        BY <1>4
    <2>2. k + 1 \in DOMAIN p /\ \A i \in 1 .. (k + 1) - 1 : i \in DOMAIN stack /\ stack[i] = p[i]
        BY <1>2, <2>1
    <2>3. k + 1 \notin DOMAIN stack \/ stack[k + 1] < p[k + 1]
        <3>1. CASE k = Len(stack)
            BY <1>2, <3>1
        <3>2. CASE k < Len(stack)
            BY <2>1, <3>2 DEF Walk, WalkOrder
        <3> QED BY <3>1, <3>2
    <2> QED BY <2>2, <2>3 DEF Before
<1> QED BY <1>1, <1>3, <1>4 DEF Ahead

LEMMA AppendSet ==
    ASSUME NEW S, NEW s \in Seq(S), NEW e \in S
    PROVE  ToSet(Append(s, e)) = ToSet(s) \cup {e}
<1> DEFINE r == Append(s, e)
<1>1. /\ r \in Seq(S) /\ Len(r) = Len(s) + 1 /\ Len(s) \in Nat /\ r[Len(s) + 1] = e
      /\ \A i \in 1 .. Len(s) : r[i] = s[i]
    BY AppendFacts
<1> HIDE DEF r
<1>2. \A x \in ToSet(r) : x \in ToSet(s) \cup {e}
    BY <1>1, ToSetFacts
<1>3. \A x \in ToSet(s) \cup {e} : x \in ToSet(r)
    <2> TAKE x \in ToSet(s) \cup {e}
    <2>1. PICK i \in 1 .. Len(s) + 1 : r[i] = x
        BY <1>1, ToSetFacts
    <2>2. \A j \in 1 .. Len(r) : r[j] \in ToSet(r)
        BY <1>1, ToSetFacts
    <2> QED BY <1>1, <2>1, <2>2
<1>4. ToSet(r) = ToSet(s) \cup {e}
    BY <1>2, <1>3
<1> QED BY <1>4 DEF r

LEMMA EmitFacts ==
    ASSUME NEW S, paths \in Seq(S), NEW p \in S
    PROVE  Emit(p) \in Seq(S) /\ p \in ToSet(Emit(p)) /\ ToSet(Emit(p)) = ToSet(paths) \cup {p}
<1>1. CASE p \in ToSet(paths)
    BY <1>1 DEF Emit
<1>2. CASE p \notin ToSet(paths)
    <2>1. Emit(p) = Append(paths, p)
        BY <1>2 DEF Emit
    <2>2. Append(paths, p) \in Seq(S)
        OBVIOUS
    <2>3. ToSet(Append(paths, p)) = ToSet(paths) \cup {p}
        BY AppendSet
    <2> QED BY <2>1, <2>2, <2>3
<1> QED BY <1>1, <1>2

\* What is left of completeness for a step: it puts nothing before the walk,
\* drops nothing, and yields at most the stack, if that is wanted and ahead.
LEMMA CompleteStep ==
    ASSUME Walk, WalkComplete, UNCHANGED inputs,
           Remaining' \subseteq Remaining,
           Remaining \subseteq Remaining' \cup ToSet(paths'),
           \/ paths' = paths
           \/ stack # <<>> /\ stack \in Remaining /\ paths' = Emit(stack)
    PROVE  WalkComplete' /\ paths' \in Seq(Wanted')
<1>1. Wanted' = Wanted
    BY GraphFrozen DEF inputs
<1>2. paths \in Seq(Wanted)
    BY DEF Walk, WalkType
<1>3. CASE paths' = paths
    BY <1>1, <1>2, <1>3 DEF WalkComplete, ToSet, Before
<1>4. CASE stack # <<>> /\ stack \in Remaining /\ stack \notin ToSet(paths) /\ paths' = Append(paths, stack)
    <2>1. stack \in Wanted
        BY <1>4 DEF Remaining
    <2>2. /\ paths' \in Seq(Wanted) /\ Len(paths') = Len(paths) + 1 /\ Len(paths) \in Nat
          /\ paths'[Len(paths) + 1] = stack
          /\ \A i \in 1 .. Len(paths) : paths'[i] = paths[i] /\ paths[i] \in ToSet(paths)
        BY <1>2, <1>4, <2>1, AppendFacts, ToSetFacts
    <2>3. ToSet(paths') = ToSet(paths) \cup {stack}
        BY <1>2, <1>4, <2>1, AppendSet
    <2>4. \A q \in ToSet(paths) : Before(q, stack)
        BY <1>4 DEF WalkComplete
    <2>5. \A p \in Remaining : Before(stack, p) \/ stack = p
        BY <1>4, RemainingIsAfter
    <2>6. Wanted' \subseteq ToSet(paths') \cup Remaining'
        BY <1>1, <2>3 DEF WalkComplete
    <2>7. \A q \in ToSet(paths') : \A p \in Remaining' : Before(q, p) \/ q = p
        BY <2>3, <2>5 DEF WalkComplete
    <2>8. \A i, j \in 1 .. Len(paths') : i < j => Before(paths'[i], paths'[j])
        <3> TAKE i, j \in 1 .. Len(paths')
        <3> HAVE i < j
        <3>1. CASE j = Len(paths) + 1
            <4>1. i \in 1 .. Len(paths)
                BY <2>2, <3>1
            <4> QED BY <2>2, <2>4, <3>1, <4>1
        <3>2. CASE j # Len(paths) + 1
            <4>1. i \in 1 .. Len(paths) /\ j \in 1 .. Len(paths)
                BY <2>2, <3>2
            <4> QED BY <2>2, <4>1 DEF WalkComplete
        <3> QED BY <3>1, <3>2
    <2> QED BY <1>1, <2>2, <2>6, <2>7, <2>8 DEF WalkComplete, ToSet, Before
<1> QED BY <1>3, <1>4 DEF Emit

\* The iterator at the top of the stack.
LEMMA TopFacts ==
    ASSUME Walk, stack # <<>>
    PROVE  /\ Len(stack) \in Nat \ {0} /\ Len(iters) = Len(stack)
           /\ iters \in Seq(SUBSET Records) /\ stack \in Seq(Records)
           /\ Last(iters) = iters[Len(stack)] /\ iters[Len(stack)] \subseteq CallGraph[stack[Len(stack)]]
           /\ CallGraph[stack[Len(stack)]] \subseteq Records
           /\ iters[Len(stack)] # {} =>
                /\ Least(iters[Len(stack)]) \in iters[Len(stack)]
                /\ \A m \in iters[Len(stack)] : Least(iters[Len(stack)]) <= m
<1> USE WalkFacts
<1>1. Len(stack) \in Nat \ {0} /\ Len(iters) = Len(stack) /\ Len(stack) \in 1 .. Len(stack)
    BY DEF Walk, WalkType
<1>2. stack[Len(stack)] \in Records /\ iters[Len(stack)] \subseteq CallGraph[stack[Len(stack)]]
    BY <1>1 DEF Walk, WalkOrder
<1>3. iters[Len(stack)] \in SUBSET Nat
    BY <1>2
<1>4. iters[Len(stack)] # {} =>
            /\ Least(iters[Len(stack)]) \in iters[Len(stack)]
            /\ \A m \in iters[Len(stack)] : Least(iters[Len(stack)]) <= m
    BY <1>3, LeastFacts
<1> QED BY <1>1, <1>2, <1>4 DEF Last, Walk, WalkType

\* What a step that takes one callee from the top iterator leaves.
LEMMA ConsumeFacts ==
    ASSUME Walk, stack # <<>>, iters[Len(stack)] # {}, Consume
    PROVE  /\ iters' \in Seq(SUBSET Records) /\ Len(iters') = Len(stack)
           /\ iters'[Len(stack)] = iters[Len(stack)] \ {Least(iters[Len(stack)])}
           /\ \A i \in 1 .. Len(stack) - 1 : iters'[i] = iters[i]
<1>1. iters' = [iters EXCEPT ![Len(stack)] = iters[Len(stack)] \ {Least(iters[Len(stack)])}]
    BY TopFacts DEF Consume
<1>2. iters[Len(stack)] \ {Least(iters[Len(stack)])} \in SUBSET Records
    BY TopFacts
<1> QED BY <1>1, <1>2, TopFacts

LEMMA PushFacts ==
    ASSUME Walk, Push
    PROVE  \E f \in iters[Len(stack)] :
            /\ stack # <<>> /\ Len(stack) + 1 <= depth
            /\ f \in Records /\ \A i \in 1 .. Len(stack) : stack[i] # f
            /\ \A m \in iters[Len(stack)] : f <= m
            /\ stack' \in Seq(Records) /\ Len(stack') = Len(stack) + 1
            /\ stack'[Len(stack) + 1] = f /\ \A i \in 1 .. Len(stack) : stack'[i] = stack[i]
            /\ iters' \in Seq(SUBSET Records) /\ Len(iters') = Len(stack) + 1
            /\ iters'[Len(stack) + 1] = CallGraph[f]
            /\ iters'[Len(stack)] = iters[Len(stack)] \ {f}
            /\ \A i \in 1 .. Len(stack) - 1 : iters'[i] = iters[i]
<1> DEFINE f == Least(iters[Len(stack)])
           top == [iters EXCEPT ![Len(stack)] = iters[Len(stack)] \ {f}]
<1> USE WalkFacts, TopFacts
<1>1. /\ stack # <<>> /\ iters[Len(stack)] # {} /\ f \notin ToSet(stack)
      /\ ~(Len(stack) >= depth)
      /\ stack' = Append(stack, f) /\ iters' = Append(top, Callees(f))
    BY DEF Push, Fresh, Walking, AtDepth
<1>2. f \in iters[Len(stack)] /\ f \in Records /\ \A m \in iters[Len(stack)] : f <= m
    BY <1>1
<1>3. Callees(f) = CallGraph[f] /\ CallGraph[f] \in SUBSET Records
    BY <1>2
<1>4. /\ top \in Seq(SUBSET Records) /\ Len(top) = Len(stack)
      /\ top[Len(stack)] = iters[Len(stack)] \ {f}
      /\ \A i \in 1 .. Len(stack) - 1 : top[i] = iters[i]
    <2>1. iters[Len(stack)] \ {f} \in SUBSET Records
        BY <1>1
    <2> QED BY <1>1, <2>1
<1> HIDE DEF f, top
<1>5. /\ stack' \in Seq(Records) /\ Len(stack') = Len(stack) + 1
      /\ stack'[Len(stack) + 1] = f /\ \A i \in 1 .. Len(stack) : stack'[i] = stack[i]
    BY <1>1, <1>2, AppendFacts
<1>6. /\ iters' \in Seq(SUBSET Records) /\ Len(iters') = Len(stack) + 1
      /\ iters'[Len(stack) + 1] = CallGraph[f]
      /\ \A i \in 1 .. Len(stack) : iters'[i] = top[i]
    <2>1. iters' = Append(top, CallGraph[f])
        BY <1>1, <1>3
    <2> QED BY <1>3, <1>4, <2>1, AppendFacts
<1>7. \A i \in 1 .. Len(stack) : stack[i] # f
    BY <1>1, ToSetFacts
<1>8. iters'[Len(stack)] = iters[Len(stack)] \ {f} /\ \A i \in 1 .. Len(stack) - 1 : iters'[i] = iters[i]
    BY <1>1, <1>4, <1>6
<1> QED BY <1>1, <1>2, <1>5, <1>6, <1>7, <1>8

\* Step by step: the walk stays a walk, nothing comes ahead of it again, and
\* nothing ahead is lost.
LEMMA PushWalk ==
    ASSUME Walk, Push
    PROVE  Walk' /\ Remaining' \subseteq Remaining /\ Remaining \subseteq Remaining'
<1> USE WalkFacts
<1>0. /\ UNCHANGED inputs /\ paths' = paths /\ todo' = todo
      /\ Records' = Records /\ EntryIds' = EntryIds /\ CallGraph' = CallGraph
      /\ Wanted' = Wanted /\ Program' = Program /\ depth' = depth
    BY GraphFrozen DEF Push, inputs
<1>1. PICK f \in iters[Len(stack)] :
            /\ stack # <<>> /\ Len(stack) + 1 <= depth
            /\ f \in Records /\ \A i \in 1 .. Len(stack) : stack[i] # f
            /\ \A m \in iters[Len(stack)] : f <= m
            /\ stack' \in Seq(Records) /\ Len(stack') = Len(stack) + 1
            /\ stack'[Len(stack) + 1] = f /\ \A i \in 1 .. Len(stack) : stack'[i] = stack[i]
            /\ iters' \in Seq(SUBSET Records) /\ Len(iters') = Len(stack) + 1
            /\ iters'[Len(stack) + 1] = CallGraph[f]
            /\ iters'[Len(stack)] = iters[Len(stack)] \ {f}
            /\ \A i \in 1 .. Len(stack) - 1 : iters'[i] = iters[i]
    BY PushFacts
<1>2. Len(stack) \in Nat \ {0} /\ f \in CallGraph[stack[Len(stack)]] /\ IsChain(stack)
    BY <1>1, TopFacts DEF Walk, WalkOrder
<1>3. WalkType'
    BY <1>0, <1>1 DEF Walk, WalkType
<1>4. WalkOrder'
    <2>1. IsChain(stack)'
        <3>1. stack'[1] \in EntryIds
            BY <1>1, <1>2 DEF IsChain
        <3>2. \A i \in 1 .. Len(stack') - 1 : stack'[i + 1] \in CallGraph[stack'[i]]
            <4> TAKE i \in 1 .. Len(stack') - 1
            <4>1. CASE i = Len(stack)
                BY <1>1, <1>2, <4>1
            <4>2. CASE i < Len(stack)
                <5>1. i + 1 \in 1 .. Len(stack) /\ i \in 1 .. Len(stack) - 1 /\ i \in 1 .. Len(stack)
                    BY <1>2, <4>2
                <5>2. stack[i + 1] \in CallGraph[stack[i]]
                    BY <1>2, <5>1 DEF IsChain
                <5> QED BY <1>1, <5>1, <5>2
            <4> QED BY <1>1, <1>2, <4>1, <4>2
        <3>3. \A i, j \in 1 .. Len(stack') : stack'[i] = stack'[j] => i = j
            <4>1. \A i \in 1 .. Len(stack') : i = Len(stack) + 1 \/ i \in 1 .. Len(stack)
                BY <1>1, <1>2
            <4>2. \A i, j \in 1 .. Len(stack) : stack'[i] = stack'[j] => i = j
                BY <1>1, <1>2 DEF IsChain
            <4>3. \A i \in 1 .. Len(stack) : stack'[i] # stack'[Len(stack) + 1]
                BY <1>1
            <4> QED BY <4>1, <4>2, <4>3
        <3> QED BY <1>0, <1>1, <1>2, <3>1, <3>2, <3>3 DEF IsChain
    <2>2. \A i \in 1 .. Len(stack') : iters'[i] \subseteq CallGraph[stack'[i]]
        <3> TAKE i \in 1 .. Len(stack')
        <3>1. CASE i = Len(stack) + 1
            BY <1>1, <3>1
        <3>2. CASE i = Len(stack)
            BY <1>1, <1>2, <3>2 DEF Walk, WalkOrder
        <3>3. CASE i \in 1 .. Len(stack) - 1
            <4>1. i \in 1 .. Len(stack) /\ iters'[i] = iters[i] /\ stack'[i] = stack[i]
                BY <1>1, <1>2, <3>3
            <4> QED BY <4>1 DEF Walk, WalkOrder
        <3> QED BY <1>1, <1>2, <3>1, <3>2, <3>3
    <2>3. \A i \in 1 .. Len(stack') - 1 : \A m \in iters'[i] : stack'[i + 1] < m
        <3> TAKE i \in 1 .. Len(stack') - 1
        <3>1. CASE i = Len(stack)
            <4>1. \A m \in iters[Len(stack)] : m \in Nat
                BY <1>2
            <4> QED BY <1>1, <1>2, <3>1, <4>1
        <3>2. CASE i \in 1 .. Len(stack) - 1
            <4>1. i + 1 \in 1 .. Len(stack)
                BY <1>2, <3>2
            <4> QED BY <1>1, <3>2, <4>1 DEF Walk, WalkOrder
        <3> QED BY <1>1, <1>2, <3>1, <3>2
    <2>4. \A m \in todo : stack'[1] < m
        BY <1>1, <1>2 DEF Walk, WalkOrder
    <2> QED BY <1>0, <2>1, <2>2, <2>3, <2>4 DEF WalkOrder
<1>5. ASSUME NEW p \in Wanted, Ahead(p)' PROVE Ahead(p)
    <2>1. CASE p[1] \in todo'
        BY <1>0, <2>1 DEF Ahead
    <2>2. ASSUME NEW k \in 1 .. Len(stack'), Len(p) > k, \A i \in 1 .. k : p[i] = stack'[i],
                 p[k + 1] \in iters'[k]
          PROVE  Ahead(p)
        <3>1. CASE k = Len(stack) + 1
            <4>1. Len(p) > Len(stack) /\ Len(stack) \in 1 .. Len(stack)
                BY <1>2, <2>2, <3>1, WantedAre DEF IsChain, Walk, WalkType
            <4>2. \A i \in 1 .. Len(stack) + 1 : i \in 1 .. k
                BY <3>1
            <4>3. p[Len(stack) + 1] = f
                BY <1>1, <1>2, <2>2, <4>2
            <4>4. \A i \in 1 .. Len(stack) : i \in 1 .. Len(stack) + 1
                BY <1>2
            <4>5. \A i \in 1 .. Len(stack) : p[i] = stack[i]
                BY <1>1, <2>2, <4>2, <4>4
            <4> QED BY <4>1, <4>3, <4>5 DEF Ahead
        <3>2. CASE k \in 1 .. Len(stack)
            <4>1. p[k + 1] \in iters[k]
                <5>1. CASE k = Len(stack)
                    BY <1>1, <2>2, <5>1
                <5>2. CASE k \in 1 .. Len(stack) - 1
                    BY <1>1, <2>2, <5>2
                <5> QED BY <1>2, <3>2, <5>1, <5>2
            <4>2. \A i \in 1 .. k : p[i] = stack[i]
                BY <1>1, <2>2, <3>2
            <4> QED BY <2>2, <3>2, <4>1, <4>2 DEF Ahead
        <3> QED BY <1>1, <1>2, <3>1, <3>2
    <2>3. CASE p = stack'
        <3>1. Len(p) > Len(stack) /\ Len(stack) \in 1 .. Len(stack)
            BY <1>1, <1>2, <2>3
        <3>2. p[Len(stack) + 1] \in iters[Len(stack)] /\ \A i \in 1 .. Len(stack) : p[i] = stack[i]
            BY <1>1, <2>3
        <3> QED BY <3>1, <3>2 DEF Ahead
    <2> QED BY <1>5, <2>1, <2>2, <2>3 DEF Ahead
<1>6. ASSUME NEW p \in Wanted, Ahead(p) PROVE Ahead(p)'
    <2>0. IsChain(p)
        BY WantedAre DEF Walk, WalkType
    <2>1. CASE p[1] \in todo
        BY <1>0, <2>1 DEF Ahead
    <2>2. ASSUME NEW k \in 1 .. Len(stack), Len(p) > k, \A i \in 1 .. k : p[i] = stack[i],
                 p[k + 1] \in iters[k]
          PROVE  Ahead(p)'
        <3>1. CASE k = Len(stack) /\ p[k + 1] = f /\ Len(p) > Len(stack) + 1
            <4>1. p[Len(stack) + 2] \in CallGraph[f]
                <5>1. Len(stack) + 1 \in 1 .. Len(p) - 1
                    BY <1>2, <2>0, <3>1 DEF IsChain
                <5>2. p[(Len(stack) + 1) + 1] \in CallGraph[p[Len(stack) + 1]]
                    BY <2>0, <5>1 DEF IsChain
                <5>3. (Len(stack) + 1) + 1 = Len(stack) + 2
                    BY <1>2
                <5> QED BY <3>1, <5>2, <5>3
            <4>2. \A i \in 1 .. Len(stack) + 1 : p[i] = stack'[i]
                BY <1>1, <1>2, <2>2, <3>1
            <4>3. Len(stack) + 1 \in 1 .. Len(stack') /\ (Len(stack) + 1) + 1 = Len(stack) + 2
                BY <1>1, <1>2
            <4> QED BY <1>1, <3>1, <4>1, <4>2, <4>3 DEF Ahead
        <3>2. CASE k = Len(stack) /\ p[k + 1] = f /\ Len(p) = Len(stack) + 1
            <4>1. p = stack'
                <5>1. \A i \in 1 .. Len(stack) + 1 : p[i] = stack'[i]
                    BY <1>1, <1>2, <2>2, <3>2
                <5> QED BY <1>1, <2>0, <3>2, <5>1, SeqEqual DEF IsChain
            <4>2. p[Len(p)] = f /\ Len(p) = Len(stack')
                BY <1>1, <3>2
            <4>3. CallGraph[f] = {} \/ (Len(p) = depth /\ ~(CallGraph[f] \subseteq ToSet(p)))
                BY <4>2, WantedAre DEF Walk, WalkType
            <4>4. /\ CallGraph'[stack'[Len(stack')]] = CallGraph[f] /\ iters'[Len(stack')] = CallGraph[f]
                  /\ stack' # <<>>
                BY <1>0, <1>1, <1>2
            <4> QED BY <1>0, <4>1, <4>2, <4>3, <4>4 DEF Ahead
        <3>3. CASE k # Len(stack) \/ p[k + 1] # f
            <4>1. p[k + 1] \in iters'[k]
                <5>1. CASE k = Len(stack)
                    BY <1>1, <2>2, <3>3, <5>1
                <5>2. CASE k \in 1 .. Len(stack) - 1
                    BY <1>1, <2>2, <5>2
                <5> QED BY <1>2, <5>1, <5>2
            <4>2. k \in 1 .. Len(stack') /\ \A i \in 1 .. k : p[i] = stack'[i]
                BY <1>1, <1>2, <2>2
            <4> QED BY <2>2, <4>1, <4>2 DEF Ahead
        <3> QED BY <1>2, <2>0, <2>2, <3>1, <3>2, <3>3 DEF IsChain
    <2>3. CASE p = stack /\ (CallGraph[stack[Len(stack)]] = {} \/ Len(stack) = depth)
        BY <1>1, <1>2, <2>3
    <2> QED BY <1>6, <2>1, <2>2, <2>3 DEF Ahead
<1> QED BY <1>0, <1>3, <1>4, <1>5, <1>6 DEF Walk, Remaining

LEMMA StartWalk ==
    ASSUME Walk, StartEntry
    PROVE  Walk' /\ Remaining' \subseteq Remaining /\ Remaining \subseteq Remaining'
<1> USE WalkFacts
<1>0. /\ UNCHANGED inputs /\ paths' = paths
      /\ Records' = Records /\ EntryIds' = EntryIds /\ CallGraph' = CallGraph
      /\ Wanted' = Wanted /\ Program' = Program /\ depth' = depth
    BY GraphFrozen DEF StartEntry, inputs
<1> DEFINE e == Least(todo)
<1>1. todo \in SUBSET Nat /\ todo # {} /\ todo \subseteq EntryIds
    BY DEF StartEntry, Walk, WalkType
<1>2. e \in todo /\ \A n \in todo : e <= n
    BY <1>1, LeastFacts
<1>3. stack = <<>> /\ stack' = <<e>> /\ iters' = <<CallGraph[e]>> /\ todo' = todo \ {e}
    BY <1>1, <1>2 DEF StartEntry
<1> HIDE DEF e
<1>4. /\ stack' \in Seq(Records) /\ Len(stack') = 1 /\ stack'[1] = e /\ stack' # <<>>
      /\ iters' \in Seq(SUBSET Records) /\ Len(iters') = 1 /\ iters'[1] = CallGraph[e]
      /\ e \in EntryIds /\ e \in Records /\ e \in Nat
    BY <1>1, <1>2, <1>3
<1>5. WalkType'
    BY <1>0, <1>1, <1>3, <1>4 DEF Walk, WalkType
<1>6. WalkOrder'
    <2>1. IsChain(stack)'
        BY <1>0, <1>4 DEF IsChain
    <2>2. \A m \in todo' : stack'[1] < m
        BY <1>1, <1>2, <1>3, <1>4
    <2> QED BY <1>0, <1>4, <2>1, <2>2 DEF WalkOrder
<1>7. ASSUME NEW p \in Wanted, Ahead(p)' PROVE Ahead(p)
    <2>1. p[1] \in todo
        BY <1>2, <1>3, <1>4, <1>7 DEF Ahead
    <2> QED BY <2>1 DEF Ahead
<1>8. ASSUME NEW p \in Wanted, Ahead(p) PROVE Ahead(p)'
    <2>0. IsChain(p) /\ Len(p) \in Nat \ {0}
        BY WantedAre DEF Walk, WalkType, IsChain
    <2>1. p[1] \in todo
        BY <1>3, <1>8 DEF Ahead
    <2>2. CASE p[1] # e
        BY <1>3, <2>1, <2>2 DEF Ahead
    <2>3. CASE p[1] = e /\ Len(p) > 1
        <3>1. p[2] \in CallGraph[e]
            <4>1. 1 \in 1 .. Len(p) - 1
                BY <2>0, <2>3
            <4>2. p[1 + 1] \in CallGraph[p[1]]
                BY <2>0, <4>1 DEF IsChain
            <4> QED BY <2>3, <4>2
        <3>2. 1 \in 1 .. Len(stack') /\ \A i \in 1 .. 1 : p[i] = stack'[i]
            BY <1>4, <2>3
        <3>3. p[1 + 1] \in iters'[1]
            BY <1>4, <3>1
        <3> QED BY <2>3, <3>2, <3>3 DEF Ahead
    <2>4. CASE p[1] = e /\ Len(p) = 1
        <3>1. p = stack'
            BY <1>4, <2>0, <2>4, SeqEqual DEF IsChain
        <3>2. CallGraph[e] = {} \/ (Len(p) = depth /\ ~(CallGraph[e] \subseteq ToSet(p)))
            BY <2>4, WantedAre DEF Walk, WalkType
        <3> QED BY <1>0, <1>4, <3>1, <3>2 DEF Ahead
    <2>5. \A n \in Nat \ {0} : n > 1 \/ n = 1
        OBVIOUS
    <2> QED BY <2>0, <2>2, <2>3, <2>4, <2>5, Zenon
<1> QED BY <1>0, <1>5, <1>6, <1>7, <1>8 DEF Walk, Remaining

LEMMA BacktrackWalk ==
    ASSUME Walk, Backtrack
    PROVE  /\ Walk' \/ paths' \notin Seq(Wanted')
           /\ Remaining' \subseteq Remaining
           /\ Remaining \subseteq Remaining' \cup ToSet(paths')
           /\ \/ paths' = paths
              \/ stack # <<>> /\ stack \in Remaining /\ paths' = Emit(stack)
<1> USE WalkFacts
<1>0. /\ UNCHANGED inputs /\ todo' = todo /\ stack # <<>>
      /\ Records' = Records /\ EntryIds' = EntryIds /\ CallGraph' = CallGraph
      /\ Wanted' = Wanted /\ Program' = Program /\ depth' = depth
    BY GraphFrozen DEF Backtrack, Walking, inputs
<1>1. /\ Len(stack) \in Nat \ {0} /\ iters[Len(stack)] = {} /\ IsChain(stack)
      /\ stack \in Seq(Records) /\ iters \in Seq(SUBSET Records) /\ Len(iters) = Len(stack)
    BY <1>0, TopFacts DEF Backtrack, Walk, WalkOrder
<1>2. /\ stack' \in Seq(Records) /\ Len(stack') = Len(stack) - 1
      /\ \A i \in 1 .. Len(stack) - 1 : stack'[i] = stack[i]
    BY <1>0, <1>1, FrontFacts DEF Backtrack
<1>3. /\ iters' \in Seq(SUBSET Records) /\ Len(iters') = Len(stack) - 1
      /\ \A i \in 1 .. Len(stack) - 1 : iters'[i] = iters[i]
    <2>1. iters # <<>> /\ iters' = Front(iters)
        BY <1>1 DEF Backtrack
    <2>2. iters \in Seq(SUBSET Records) /\ Len(iters) = Len(stack)
        BY <1>1
    <2> HIDE WalkFacts
    <2>3. /\ Front(iters) \in Seq(SUBSET Records) /\ Len(Front(iters)) = Len(iters) - 1
          /\ \A i \in 1 .. Len(iters) - 1 : Front(iters)[i] = iters[i]
        BY <2>1, <2>2, FrontFacts
    <2> QED BY <2>1, <2>2, <2>3
<1>n. \A i \in 1 .. Len(stack') - 1 : i \in 1 .. Len(stack) - 1 /\ i + 1 \in 1 .. Len(stack) - 1
    <2> DEFINE n == Len(stack)
               m == Len(stack')
    <2>1. n \in Nat \ {0} /\ m = n - 1
        BY <1>1, <1>2
    <2> HIDE WalkFacts DEF n, m
    <2>2. \A i \in 1 .. m - 1 : i \in 1 .. n - 1 /\ i + 1 \in 1 .. n - 1
        BY <2>1
    <2> QED BY <2>2 DEF n, m
<1>4. WalkType' \/ paths' \notin Seq(Wanted')
    BY <1>0, <1>1, <1>2, <1>3 DEF Walk, WalkType
<1>5. WalkOrder'
    <2>1. stack' # <<>> => IsChain(stack)'
        <3> SUFFICES ASSUME stack' # <<>> PROVE IsChain(stack)'
            OBVIOUS
        <3>1. Len(stack) > 1
            BY <1>1, <1>2
        <3>2. \A i \in 1 .. Len(stack') - 1 : stack'[i + 1] \in CallGraph[stack'[i]]
            <4> TAKE i \in 1 .. Len(stack') - 1
            <4>1. i + 1 \in 1 .. Len(stack) - 1 /\ i \in 1 .. Len(stack) - 1
                BY <1>n
            <4>2. stack[i + 1] \in CallGraph[stack[i]]
                BY <1>1, <4>1 DEF IsChain
            <4> QED BY <1>2, <4>1, <4>2
        <3>3. \A i, j \in 1 .. Len(stack') : stack'[i] = stack'[j] => i = j
            <4> TAKE i, j \in 1 .. Len(stack')
            <4>1. /\ i \in 1 .. Len(stack) - 1 /\ j \in 1 .. Len(stack) - 1
                  /\ i \in 1 .. Len(stack) /\ j \in 1 .. Len(stack)
                BY <1>1, <1>2
            <4> QED BY <1>1, <1>2, <4>1 DEF IsChain
        <3>4. stack' \in Seq(Records) /\ Len(stack') > 0
            BY <1>1, <1>2, <3>1
        <3>5. stack'[1] \in EntryIds
            <4>1. 1 \in 1 .. Len(stack) - 1 /\ stack[1] \in EntryIds
                BY <1>1, <3>1 DEF IsChain
            <4> QED BY <1>2, <4>1
        <3> QED BY <1>0, <3>2, <3>3, <3>4, <3>5 DEF IsChain
    <2>2. \A i \in 1 .. Len(stack') : iters'[i] \subseteq CallGraph[stack'[i]]
        <3> TAKE i \in 1 .. Len(stack')
        <3>0. i \in 1 .. Len(stack) /\ i \in 1 .. Len(stack) - 1
            BY <1>1, <1>2
        <3>1. i \in 1 .. Len(stack) /\ iters'[i] = iters[i] /\ stack'[i] = stack[i]
            BY <1>2, <1>3, <3>0
        <3> QED BY <3>1 DEF Walk, WalkOrder
    <2>3. \A i \in 1 .. Len(stack') - 1 : \A m \in iters'[i] : stack'[i + 1] < m
        <3> TAKE i \in 1 .. Len(stack') - 1
        <3>0. i \in 1 .. Len(stack) - 1 /\ i + 1 \in 1 .. Len(stack) - 1
            BY <1>n
        <3>1. /\ i \in 1 .. Len(stack) - 1 /\ iters'[i] = iters[i] /\ stack'[i + 1] = stack[i + 1]
            BY <1>2, <1>3, <3>0
        <3> QED BY <3>1 DEF Walk, WalkOrder
    <2>4. stack' # <<>> => \A m \in todo : stack'[1] < m
        <3> HAVE stack' # <<>>
        <3>1. 1 \in 1 .. Len(stack) - 1
            BY <1>1, <1>2
        <3> QED BY <1>0, <1>2, <3>1 DEF Walk, WalkOrder
    <2> QED BY <1>0, <2>1, <2>2, <2>3, <2>4 DEF WalkOrder
<1>6. ASSUME NEW p \in Wanted, Ahead(p)' PROVE Ahead(p)
    <2>1. CASE p[1] \in todo'
        BY <1>0, <2>1 DEF Ahead
    <2>2. ASSUME NEW k \in 1 .. Len(stack'), Len(p) > k, \A i \in 1 .. k : p[i] = stack'[i],
                 p[k + 1] \in iters'[k]
          PROVE  Ahead(p)
        <3>1. k \in 1 .. Len(stack) - 1 /\ k \in 1 .. Len(stack)
            BY <1>1, <1>2
        <3>2. p[k + 1] \in iters[k]
            BY <1>3, <2>2, <3>1
        <3>3. \A i \in 1 .. k : i \in 1 .. Len(stack) - 1
            BY <1>1, <3>1
        <3>4. \A i \in 1 .. k : p[i] = stack[i]
            BY <1>2, <2>2, <3>3
        <3> QED BY <2>2, <3>1, <3>2, <3>4 DEF Ahead
    <2>3. CASE stack' # <<>> /\ (CallGraph[stack'[Len(stack')]] = {} \/ Len(stack') = depth)
        <3>1. Len(stack) - 1 \in 1 .. Len(stack) - 1 /\ (Len(stack) - 1) + 1 = Len(stack)
            BY <1>1, <1>2, <2>3
        <3>2. stack[Len(stack)] \in CallGraph[stack[Len(stack) - 1]]
            BY <1>1, <3>1 DEF IsChain
        <3>3. Len(stack') < depth
            BY <1>1, <1>2 DEF Walk, WalkType
        <3>4. stack'[Len(stack')] = stack[Len(stack) - 1]
            BY <1>2, <3>1
        <3> QED BY <2>3, <3>2, <3>3, <3>4, WalkFacts
    <2> QED BY <1>0, <1>6, <2>1, <2>2, <2>3 DEF Ahead
<1>7. CallGraph[stack[Len(stack)]] = {}
        => stack \in Remaining /\ paths' = Emit(stack) /\ stack \in ToSet(paths')
    <2> HAVE CallGraph[stack[Len(stack)]] = {}
    <2>1. stack \in Wanted
        BY <1>1, WantedAre DEF Walk, WalkType
    <2>2. stack \in Remaining
        BY <1>0, <2>1 DEF Remaining, Ahead
    <2>3. EndsHere(stack)
        BY <1>1 DEF EndsHere, Last
    <2>4. paths' = Emit(stack)
        BY <2>3 DEF Backtrack
    <2>5. stack \in ToSet(paths')
        BY <2>1, <2>4, EmitFacts DEF Walk, WalkType
    <2> QED BY <2>2, <2>4, <2>5
<1>8. CallGraph[stack[Len(stack)]] # {} => paths' = paths
    BY <1>1 DEF Backtrack, EndsHere, Last
<1>9. ASSUME NEW p \in Wanted, Ahead(p) PROVE Ahead(p)' \/ p \in ToSet(paths')
    <2>1. CASE p[1] \in todo
        BY <1>0, <2>1 DEF Ahead
    <2>2. ASSUME NEW k \in 1 .. Len(stack), Len(p) > k, \A i \in 1 .. k : p[i] = stack[i],
                 p[k + 1] \in iters[k]
          PROVE  Ahead(p)'
        <3>1. k \in 1 .. Len(stack) - 1 /\ k \in 1 .. Len(stack')
            BY <1>1, <1>2, <2>2
        <3>2. p[k + 1] \in iters'[k]
            BY <1>3, <2>2, <3>1
        <3>3. \A i \in 1 .. k : i \in 1 .. Len(stack) - 1
            BY <1>1, <3>1
        <3>4. \A i \in 1 .. k : p[i] = stack'[i]
            BY <1>2, <2>2, <3>3
        <3> QED BY <2>2, <3>1, <3>2, <3>4 DEF Ahead
    <2>3. CASE p = stack /\ CallGraph[stack[Len(stack)]] = {}
        BY <1>7, <2>3
    <2>4. CASE ~(iters[Len(stack)] \subseteq ToSet(stack))
        BY <1>1, <2>4
    <2> QED BY <1>9, <2>1, <2>2, <2>3, <2>4 DEF Ahead
<1> QED BY <1>0, <1>4, <1>5, <1>6, <1>7, <1>8, <1>9 DEF Walk, Remaining

\* A callee taken from the top iterator and not walked.
LEMMA ConsumeWalk ==
    ASSUME Walk, stack # <<>>, iters[Len(stack)] # {}, Consume, UNCHANGED <<inputs, todo, stack>>
    PROVE  /\ Walk' \/ paths' \notin Seq(Wanted')
           /\ Remaining' \subseteq Remaining
           /\ \A p \in Remaining :
                \/ p \in Remaining'
                \/ /\ Len(p) > Len(stack) /\ \A i \in 1 .. Len(stack) : p[i] = stack[i]
                   /\ p[Len(stack) + 1] = Least(iters[Len(stack)])
                \/ p = stack /\ ~(iters[Len(stack)] \subseteq ToSet(stack)) /\ Len(stack) = depth
<1> USE WalkFacts
<1>0. /\ Records' = Records /\ EntryIds' = EntryIds /\ CallGraph' = CallGraph
      /\ Wanted' = Wanted /\ Program' = Program /\ depth' = depth
      /\ todo' = todo /\ stack' = stack
    BY GraphFrozen DEF inputs
<1> DEFINE h == Least(iters[Len(stack)])
<1>1. /\ iters' \in Seq(SUBSET Records) /\ Len(iters') = Len(stack)
      /\ iters'[Len(stack)] = iters[Len(stack)] \ {h}
      /\ \A i \in 1 .. Len(stack) - 1 : iters'[i] = iters[i]
    BY ConsumeFacts
<1>2. Len(stack) \in Nat \ {0} /\ IsChain(stack)
    BY TopFacts DEF Walk, WalkOrder
<1> HIDE DEF h
<1>3. \A i \in 1 .. Len(stack) : iters'[i] \subseteq iters[i]
    <2> TAKE i \in 1 .. Len(stack)
    <2>1. CASE i = Len(stack)
        BY <1>1, <2>1
    <2>2. CASE i \in 1 .. Len(stack) - 1
        BY <1>1, <2>2
    <2> QED BY <1>2, <2>1, <2>2
<1>4. WalkType' \/ paths' \notin Seq(Wanted')
    BY <1>0, <1>1 DEF Walk, WalkType
<1>5. WalkOrder'
    <2>1. IsChain(stack)'
        BY <1>0, <1>2 DEF IsChain
    <2>2. \A i \in 1 .. Len(stack) : iters'[i] \subseteq CallGraph[stack[i]]
        BY <1>3 DEF Walk, WalkOrder
    <2>3. \A i \in 1 .. Len(stack) - 1 : \A m \in iters'[i] : stack[i + 1] < m
        BY <1>1 DEF Walk, WalkOrder
    <2>4. \A m \in todo : stack[1] < m
        BY DEF Walk, WalkOrder
    <2> QED BY <1>0, <2>1, <2>2, <2>3, <2>4 DEF WalkOrder
<1>6. ASSUME NEW p \in Wanted, Ahead(p)' PROVE Ahead(p)
    <2>1. CASE p[1] \in todo'
        BY <1>0, <2>1 DEF Ahead
    <2>2. ASSUME NEW k \in 1 .. Len(stack), Len(p) > k, \A i \in 1 .. k : p[i] = stack[i],
                 p[k + 1] \in iters'[k]
          PROVE  Ahead(p)
        BY <1>3, <2>2 DEF Ahead
    <2>3. CASE /\ p = stack
               /\ \/ CallGraph[stack[Len(stack)]] = {}
                  \/ Len(stack) = depth /\ ~(iters'[Len(stack)] \subseteq ToSet(stack))
        BY <1>1, <2>3 DEF Ahead
    <2> QED BY <1>0, <1>6, <2>1, <2>2, <2>3 DEF Ahead
<1>7. ASSUME NEW p \in Wanted, Ahead(p)
      PROVE  \/ Ahead(p)'
             \/ /\ Len(p) > Len(stack) /\ \A i \in 1 .. Len(stack) : p[i] = stack[i]
                /\ p[Len(stack) + 1] = h
             \/ p = stack /\ ~(iters[Len(stack)] \subseteq ToSet(stack)) /\ Len(stack) = depth
    <2>1. CASE p[1] \in todo
        BY <1>0, <2>1 DEF Ahead
    <2>2. ASSUME NEW k \in 1 .. Len(stack), Len(p) > k, \A i \in 1 .. k : p[i] = stack[i],
                 p[k + 1] \in iters[k]
          PROVE  \/ Ahead(p)'
                 \/ /\ Len(p) > Len(stack) /\ \A i \in 1 .. Len(stack) : p[i] = stack[i]
                    /\ p[Len(stack) + 1] = h
        <3>1. CASE k = Len(stack) /\ p[k + 1] = h
            BY <2>2, <3>1
        <3>2. CASE k # Len(stack) \/ p[k + 1] # h
            <4>1. p[k + 1] \in iters'[k]
                <5>1. CASE k = Len(stack)
                    BY <1>1, <2>2, <3>2, <5>1
                <5>2. CASE k \in 1 .. Len(stack) - 1
                    BY <1>1, <2>2, <5>2
                <5> QED BY <1>2, <5>1, <5>2
            <4> QED BY <1>0, <2>2, <4>1 DEF Ahead
        <3> QED BY <3>1, <3>2
    <2>3. CASE p = stack /\ CallGraph[stack[Len(stack)]] = {}
        BY <1>0, <2>3 DEF Ahead
    <2> QED BY <1>7, <2>1, <2>2, <2>3 DEF Ahead
<1> QED BY <1>0, <1>4, <1>5, <1>6, <1>7 DEF Walk, Remaining, h

LEMMA SkipWalk ==
    ASSUME Walk, SkipVisited
    PROVE  Walk' /\ Remaining' \subseteq Remaining /\ Remaining \subseteq Remaining'
<1> DEFINE h == Least(iters[Len(stack)])
<1>1. /\ stack # <<>> /\ iters[Len(stack)] # {} /\ Consume /\ UNCHANGED <<inputs, todo, stack>>
      /\ h \in ToSet(stack) /\ paths' = paths /\ UNCHANGED inputs
    BY TopFacts DEF SkipVisited, Walking, inputs
<1>2. Wanted' = Wanted
    BY <1>1, GraphFrozen DEF inputs
<1>3. Walk' /\ Remaining' \subseteq Remaining
    BY <1>1, <1>2, ConsumeWalk DEF Walk, WalkType
<1>4. ASSUME NEW p \in Remaining PROVE p \in Remaining'
    <2>1. IsChain(p) /\ Ahead(p) /\ p \in Wanted
        BY WantedAre DEF Remaining, Walk, WalkType
    <2>2. ASSUME Len(p) > Len(stack), \A i \in 1 .. Len(stack) : p[i] = stack[i],
                 p[Len(stack) + 1] = h
          PROVE  FALSE
        <3>1. PICK j \in 1 .. Len(stack) : stack[j] = h
            BY <1>1, TopFacts, ToSetFacts
        <3>2. Len(stack) \in Nat /\ Len(p) \in Nat
            BY <2>1, TopFacts, <1>1 DEF IsChain
        <3>3. p[j] = p[Len(stack) + 1] /\ j \in 1 .. Len(p) /\ Len(stack) + 1 \in 1 .. Len(p)
            BY <2>2, <3>1, <3>2
        <3>4. j = Len(stack) + 1
            BY <2>1, <3>3 DEF IsChain
        <3> QED BY <3>2, <3>4
    <2>3. ASSUME p = stack, ~(iters[Len(stack)] \subseteq ToSet(stack)), Len(stack) = depth
          PROVE  p \in Remaining'
        <3>1. iters'[Len(stack)] = iters[Len(stack)] \ {h} /\ stack' = stack /\ depth' = depth
            BY <1>1, ConsumeFacts DEF inputs
        <3>2. ~(iters'[Len(stack)] \subseteq ToSet(stack))
            BY <1>1, <2>3, <3>1
        <3> QED BY <1>1, <1>2, <2>1, <2>3, <3>1, <3>2 DEF Remaining, Ahead
    <2> QED BY <1>1, <2>2, <2>3, ConsumeWalk
<1> QED BY <1>3, <1>4

LEMMA DepthWalk ==
    ASSUME Walk, DepthCap
    PROVE  /\ Walk' \/ paths' \notin Seq(Wanted')
           /\ Remaining' \subseteq Remaining
           /\ Remaining \subseteq Remaining' \cup ToSet(paths')
           /\ stack # <<>> /\ stack \in Remaining /\ paths' = Emit(stack)
<1> DEFINE h == Least(iters[Len(stack)])
<1>1. /\ stack # <<>> /\ iters[Len(stack)] # {} /\ Consume /\ UNCHANGED <<inputs, todo, stack>>
      /\ h \notin ToSet(stack) /\ Len(stack) >= depth /\ paths' = Emit(stack)
    BY TopFacts DEF DepthCap, Fresh, Walking, AtDepth, inputs
<1>2. /\ Len(stack) = depth /\ IsChain(stack) /\ h \in iters[Len(stack)]
      /\ iters[Len(stack)] \subseteq CallGraph[stack[Len(stack)]]
    BY <1>1, TopFacts, WalkFacts DEF Walk, WalkOrder, WalkType
<1>3. stack \in Wanted
    BY <1>1, <1>2, WantedAre, WalkFacts DEF Walk, WalkType
<1>4. stack \in Remaining
    BY <1>1, <1>2, <1>3 DEF Remaining, Ahead
<1>5. stack \in ToSet(paths')
    BY <1>1, <1>3, EmitFacts DEF Walk, WalkType
<1>6. \A p \in Remaining : ~(Len(p) > Len(stack))
    BY <1>2, WantedAre, WalkFacts DEF Remaining, Walk, WalkType, IsChain
<1>7. /\ Walk' \/ paths' \notin Seq(Wanted')
      /\ Remaining' \subseteq Remaining
      /\ \A p \in Remaining : p \in Remaining' \/ p = stack
    BY <1>1, <1>6, ConsumeWalk
<1> QED BY <1>1, <1>4, <1>5, <1>7

-----------------------------------------------------------------------------
\* A chain cut short marks the build, and the walk is left where nothing is
\* ahead of it or at the count cap, marked.
WalkMarked ==
    /\ phase \in {"enumerate", "audit", "done"}
    /\ marker \in {"none", "max_depth_reached", "max_count_reached"}
    /\ (\E p \in ToSet(paths) : CallGraph[p[Len(p)]] # {}) => marker # "none"
    /\ phase # "enumerate" => \/ stack = <<>> /\ todo = {}
                              \/ CapReached /\ marker # "none"

\* What a finished run's payloads are: a group's, on its first member; or
\* none, with some group of several.
Reconciled ==
    /\ DOMAIN payload = Primaries
    /\ \A k \in Primaries : /\ DOMAIN payload[k].verdicts = Group(k)
                            /\ \A j \in Group(k) : payload[k].verdicts[j] = findings[j].verdict
                            /\ Group(k) = {k} => payload[k].consolidated = findings[k].verdict

Unreconciled ==
    /\ DOMAIN payload = {}
    /\ \E i, j \in DOMAIN findings : i # j /\ findings[i].suspect = findings[j].suspect

\* The record of the run.
RunRecord ==
    /\ DOMAIN outcome \subseteq ToSet(paths)
    /\ findings \in Seq([path : Wanted, suspect : Records, verdict : Verdicts])
    /\ phase # "done" => DOMAIN payload = {}
    /\ phase = "done" => Reconciled \/ Unreconciled

PathsInv == Walk /\ WalkComplete /\ WalkMarked /\ RunRecord

LEMMA PathsInvInit == PathsInit => PathsInv
<1> SUFFICES ASSUME PathsInit PROVE PathsInv
    OBVIOUS
<1> USE DEF PathsInit
<1>1. Program
    BY DEF Program
<1>2. EntryIds \subseteq Records /\ depth \in Nat \ {0}
    BY <1>1, GraphFacts
<1>3. Walk
    BY <1>1, <1>2 DEF Walk, WalkType, WalkOrder
<1>4. ToSet(paths) = {}
    BY DEF ToSet
<1>5. \A p \in Wanted : p[1] \in todo
    BY <1>1, WantedAre DEF IsChain
<1>6. WalkComplete
    BY <1>4, <1>5 DEF WalkComplete, Remaining, Ahead
<1> QED BY <1>3, <1>4, <1>6 DEF PathsInv, WalkMarked, RunRecord

\* The steps of the walk.
LEMMA WalkStep ==
    ASSUME PathsInv,
           \/ StartEntry \/ Backtrack \/ SkipVisited \/ DepthCap \/ Push
    PROVE  Walk' /\ WalkComplete'
<1>1. Walk /\ WalkComplete
    BY DEF PathsInv
<1>2. CASE StartEntry
    <2>1. UNCHANGED inputs /\ paths' = paths
        BY <1>2 DEF StartEntry, inputs
    <2> QED BY <1>1, <1>2, <2>1, StartWalk, CompleteStep
<1>3. CASE Backtrack
    <2>1. UNCHANGED inputs
        BY <1>3 DEF Backtrack, inputs
    <2> QED BY <1>1, <1>3, <2>1, BacktrackWalk, CompleteStep
<1>4. CASE SkipVisited
    <2>1. UNCHANGED inputs /\ paths' = paths
        BY <1>4 DEF SkipVisited, inputs
    <2> QED BY <1>1, <1>4, <2>1, SkipWalk, CompleteStep
<1>5. CASE DepthCap
    <2>1. UNCHANGED inputs
        BY <1>5 DEF DepthCap, inputs
    <2> QED BY <1>1, <1>5, <2>1, DepthWalk, CompleteStep
<1>6. CASE Push
    <2>1. UNCHANGED inputs /\ paths' = paths
        BY <1>6 DEF Push, inputs
    <2> QED BY <1>1, <1>6, <2>1, PushWalk, CompleteStep
<1> QED BY <1>2, <1>3, <1>4, <1>5, <1>6

\* A step that leaves the walk alone.
LEMMA WalkUnchanged ==
    ASSUME Walk, WalkComplete, UNCHANGED <<inputs, todo, stack, iters, paths>>
    PROVE  Walk' /\ WalkComplete'
<1>1. /\ Records' = Records /\ EntryIds' = EntryIds /\ CallGraph' = CallGraph
      /\ Wanted' = Wanted /\ Program' = Program /\ depth' = depth
    BY GraphFrozen DEF inputs
<1>2. Remaining' = Remaining
    BY <1>1 DEF Remaining, Ahead
<1> QED BY <1>1, <1>2 DEF Walk, WalkType, WalkOrder, IsChain, WalkComplete

\* The marker and the record of the run.
LEMMA MarkedStep ==
    ASSUME PathsInv, PathsNext
    PROVE  WalkMarked'
<1> USE DEF PathsInv
<1>0. CallGraph' = CallGraph
    BY GraphFrozen DEF PathsNext, StartEntry, CountCap, Backtrack, SkipVisited, DepthCap, Push, Enumerated,
                       AuditPath, Finish, ReconcilerRaises, inputs
<1>1. CASE StartEntry \/ SkipVisited \/ Push
    <2>1. UNCHANGED <<phase, paths, marker>> /\ phase = "enumerate"
        BY <1>1 DEF StartEntry, SkipVisited, Push, Fresh, Walking
    <2> QED BY <1>0, <2>1 DEF WalkMarked
<1>2. CASE CountCap
    <2>1. UNCHANGED <<count, paths>> /\ CapReached /\ marker' = Mark("max_count_reached") /\ phase' = "audit"
        BY <1>2 DEF CountCap, inputs
    <2>2. marker' \in {"max_depth_reached", "max_count_reached"}
        BY <2>1 DEF WalkMarked, Mark
    <2>3. CapReached'
        BY <2>1 DEF CapReached
    <2> QED BY <1>0, <2>1, <2>2, <2>3 DEF WalkMarked
<1>3. CASE Backtrack
    <2>1. UNCHANGED <<phase, marker>> /\ phase = "enumerate" /\ stack # <<>>
        BY <1>3 DEF Backtrack, Walking
    <2>2. \A p \in ToSet(paths') : p \in ToSet(paths) \/ CallGraph[p[Len(p)]] = {}
        <3>1. CASE EndsHere(stack)
            <4>1. paths' = Emit(stack)
                BY <1>3, <3>1 DEF Backtrack
            <4>2. ToSet(paths') \subseteq ToSet(paths) \cup {stack}
                <5>1. paths \in Seq(Wanted \cup {stack})
                    BY DEF Walk, WalkType
                <5> QED BY <4>1, <5>1, EmitFacts
            <4>3. CallGraph[stack[Len(stack)]] = {}
                <5>1. stack[Len(stack)] \in Functions
                    BY <2>1, WalkFacts
                <5> QED BY <3>1, <5>1, WalkFacts DEF EndsHere, Last
            <4> QED BY <4>2, <4>3
        <3>2. CASE ~EndsHere(stack)
            BY <1>3, <3>2 DEF Backtrack
        <3> QED BY <3>1, <3>2
    <2> QED BY <1>0, <2>1, <2>2 DEF WalkMarked
<1>4. CASE DepthCap
    <2>1. UNCHANGED phase /\ phase = "enumerate" /\ marker' = Mark("max_depth_reached")
        BY <1>4 DEF DepthCap, DepthMarker, Fresh, Walking
    <2>2. marker' \in {"max_depth_reached", "max_count_reached"}
        BY <2>1 DEF WalkMarked, Mark
    <2> QED BY <2>1, <2>2 DEF WalkMarked
<1>5. CASE Enumerated
    BY <1>0, <1>5 DEF Enumerated, WalkMarked
<1>6. ASSUME NEW p \in Pending, AuditPath(p) PROVE WalkMarked'
    BY <1>0, <1>6 DEF AuditPath, WalkMarked, CapReached, inputs
<1>7. ASSUME NEW form \in Forms, Finish(form) \/ ReconcilerRaises(form) PROVE WalkMarked'
    BY <1>0, <1>7 DEF Finish, ReconcilerRaises, WalkMarked, CapReached, inputs
<1> QED BY <1>1, <1>2, <1>3, <1>4, <1>5, <1>6, <1>7 DEF PathsNext

LEMMA RecordStep ==
    ASSUME PathsInv, PathsNext
    PROVE  RunRecord'
<1> USE DEF PathsInv
<1>0. Records' = Records /\ Wanted' = Wanted
    BY GraphFrozen DEF PathsNext, StartEntry, CountCap, Backtrack, SkipVisited, DepthCap, Push, Enumerated,
                       AuditPath, Finish, ReconcilerRaises, inputs
<1>1. CASE \/ StartEntry \/ CountCap \/ Backtrack \/ SkipVisited \/ DepthCap \/ Push \/ Enumerated
    <2>1. UNCHANGED results /\ phase = "enumerate" /\ phase' # "done"
        BY <1>1 DEF StartEntry, CountCap, Backtrack, SkipVisited, DepthCap, Push, Enumerated, Fresh, Walking
    <2>2. ToSet(paths) \subseteq ToSet(paths')
        <3>1. paths' = paths \/ paths' = Emit(stack)
            BY <1>1 DEF StartEntry, CountCap, Backtrack, SkipVisited, DepthCap, Push, Enumerated
        <3>2. paths \in Seq(Wanted \cup {stack})
            BY DEF Walk, WalkType
        <3>3. ToSet(Emit(stack)) = ToSet(paths) \cup {stack}
            BY <3>2, EmitFacts
        <3> QED BY <3>1, <3>3
    <2> QED BY <1>0, <2>1, <2>2 DEF RunRecord, results
<1>2. ASSUME NEW p \in Pending, AuditPath(p) PROVE RunRecord'
    <2>1. /\ p \in ToSet(paths) /\ UNCHANGED <<phase, paths, payload>> /\ phase = "audit"
          /\ DOMAIN outcome' \subseteq DOMAIN outcome \cup {p}
        BY <1>2 DEF AuditPath, Pending, Handle
    <2>2. p \in Wanted /\ p \in Seq(Records)
        <3>1. p \in Wanted
            BY <2>1, ToSetFacts DEF Walk, WalkType
        <3> QED BY <3>1, WantedAre DEF IsChain, Walk, WalkType
    <2>3. findings' \in Seq([path : Wanted, suspect : Records, verdict : Verdicts])
        <3>1. CASE findings' = findings
            BY <3>1 DEF RunRecord
        <3>2. ASSUME NEW f \in ToSet(p), NEW v \in Verdicts,
                     findings' = Append(findings, [path |-> p, suspect |-> f, verdict |-> v])
              PROVE  findings' \in Seq([path : Wanted, suspect : Records, verdict : Verdicts])
            <4>1. f \in Records
                BY <2>2, ToSetFacts
            <4>2. [path |-> p, suspect |-> f, verdict |-> v]
                        \in [path : Wanted, suspect : Records, verdict : Verdicts]
                BY <2>2, <4>1
            <4> QED BY <3>2, <4>2, AppendFacts DEF RunRecord
        <3> QED BY <1>2, <3>1, <3>2 DEF AuditPath
    <2> QED BY <1>0, <2>1, <2>3 DEF RunRecord
<1>3. ASSUME NEW form \in Forms, Finish(form) PROVE RunRecord'
    <2>1. UNCHANGED <<paths, outcome, findings>> /\ phase' = "done"
        BY <1>3 DEF Finish
    <2>2. Primaries' = Primaries /\ \A k : Group(k)' = Group(k)
        BY <2>1 DEF Primaries, Group
    <2>3. PICK c \in Consolidations(form) :
                payload' = [i \in Primaries |-> [verdicts |-> [j \in Group(i) |-> findings[j].verdict],
                                                consolidated |-> c[i]]]
        BY <1>3 DEF Finish
    <2>4. ASSUME NEW k \in Primaries, Group(k) = {k} PROVE c[k] = findings[k].verdict
        <3>1. Cardinality(Group(k)) = 1
            BY <2>4, FS_Singleton
        <3> QED BY <2>3, <3>1 DEF Consolidations
    <2>5. Reconciled'
        BY <2>1, <2>2, <2>3, <2>4 DEF Reconciled
    <2> QED BY <1>0, <2>1, <2>5 DEF RunRecord
<1>4. ASSUME NEW form \in Forms, ReconcilerRaises(form) PROVE RunRecord'
    <2>1. UNCHANGED <<paths, outcome, findings, payload>> /\ phase = "audit" /\ phase' = "done"
        BY <1>4 DEF ReconcilerRaises, results
    <2>2. PICK i \in DOMAIN findings : Cardinality(Group(i)) > 1
        BY <1>4 DEF ReconcilerRaises
    <2>3. Group(i) # {i}
        BY <2>2, FS_Singleton
    <2>4. \E j \in DOMAIN findings : i # j /\ findings[i].suspect = findings[j].suspect
        BY <2>3 DEF Group
    <2>5. Unreconciled'
        BY <2>1, <2>4 DEF Unreconciled, RunRecord
    <2> QED BY <1>0, <2>1, <2>5 DEF RunRecord
<1> QED BY <1>1, <1>2, <1>3, <1>4 DEF PathsNext

LEMMA PathsInvStep == PathsInv /\ [PathsNext]_pathsVars => PathsInv'
<1> SUFFICES ASSUME PathsInv, [PathsNext]_pathsVars PROVE PathsInv'
    OBVIOUS
<1>1. CASE PathsNext
    <2>1. Walk' /\ WalkComplete'
        <3>1. CASE StartEntry \/ Backtrack \/ SkipVisited \/ DepthCap \/ Push
            BY <3>1, WalkStep
        <3>2. CASE UNCHANGED <<inputs, todo, stack, iters, paths>>
            BY <3>2, WalkUnchanged DEF PathsInv
        <3> QED BY <1>1, <3>1, <3>2 DEF PathsNext, CountCap, Enumerated, AuditPath, Finish, ReconcilerRaises
    <2> QED BY <1>1, <2>1, MarkedStep, RecordStep DEF PathsInv
<1>2. CASE UNCHANGED pathsVars
    <2>1. UNCHANGED <<inputs, todo, stack, iters, paths>>
        BY <1>2 DEF pathsVars, inputs
    <2>2. Walk' /\ WalkComplete'
        BY <2>1, WalkUnchanged DEF PathsInv
    <2>3. CallGraph' = CallGraph /\ Records' = Records /\ Wanted' = Wanted
        BY <2>1, GraphFrozen DEF inputs
    <2>4. WalkMarked'
        BY <1>2, <2>3 DEF PathsInv, WalkMarked, CapReached, pathsVars
    <2>5. RunRecord'
        <3>1. Primaries' = Primaries /\ \A k : Group(k)' = Group(k)
            BY <1>2 DEF Primaries, Group, pathsVars
        <3>2. Reconciled' = Reconciled /\ Unreconciled' = Unreconciled
            BY <1>2, <3>1 DEF Reconciled, Unreconciled, pathsVars
        <3> QED BY <1>2, <2>3, <3>2 DEF PathsInv, RunRecord, pathsVars
    <2> QED BY <2>2, <2>4, <2>5 DEF PathsInv
<1> QED BY <1>1, <1>2

LEMMA PathsInvariant == PathsSpec => []PathsInv
BY PathsInvInit, PathsInvStep, PTL DEF PathsSpec

LEMMA PathFacts ==
    ASSUME PathsInv, NEW p \in ToSet(paths)
    PROVE  /\ p \in Wanted /\ IsChain(p) /\ p \in Seq(Records) /\ Len(p) \in Nat \ {0}
           /\ Len(p) <= Cardinality(Functions) /\ Len(p) <= depth
           /\ Last(p) = p[Len(p)] /\ Callees(Last(p)) = CallGraph[p[Len(p)]]
           /\ \A i \in 1 .. Len(p) : p[i] \in Records /\ p[i] \in Functions
<1>1. Program /\ p \in Wanted
    BY ToSetFacts DEF PathsInv, Walk, WalkType
<1>2. IsChain(p) /\ Len(p) <= depth
    BY <1>1, WantedAre
<1>3. p \in Seq(Records) /\ Len(p) \in Nat \ {0} /\ Records \subseteq Functions
    BY <1>1, <1>2, GraphFacts DEF IsChain
<1>4. Len(p) <= Cardinality(Functions)
    BY <1>2, <1>3, Pigeonhole DEF IsChain
<1>5. \A i \in 1 .. Len(p) : p[i] \in Records /\ p[i] \in Functions
    BY <1>3
<1>6. Callees(p[Len(p)]) = CallGraph[p[Len(p)]]
    BY <1>1, <1>3, <1>5, GraphFacts
<1> QED BY <1>1, <1>2, <1>3, <1>4, <1>5, <1>6 DEF Last

\* EnumerationSound, of _enumerate_paths: for any program and any caps, the
\* paths yielded are the wanted chains, each once and in order, up to the
\* count cap, and what is left out or cut short is marked.
THEOREM PathsEnumerationSound == PathsSpec => []EnumerationSound
<1>1. PathsInv => EnumerationSound
    <2> SUFFICES ASSUME PathsInv PROVE EnumerationSound
        OBVIOUS
    <2>0. Walk /\ WalkType /\ WalkComplete /\ WalkMarked /\ RunRecord
        BY DEF PathsInv, Walk
    <2>1. PathsTypeOK
        <3>1. ToSet(stack) \subseteq Records
            BY <2>0, ToSetFacts DEF WalkType
        <3>2. ToSet(paths) \subseteq Seq(Records)
            BY PathFacts
        <3>3. DOMAIN payload \subseteq DOMAIN findings
            BY <2>0 DEF RunRecord, WalkMarked, Reconciled, Unreconciled, Primaries
        <3> QED BY <2>0, <3>1, <3>2, <3>3 DEF PathsTypeOK, WalkType, WalkMarked, RunRecord
    <2>2. ToSet(paths) \subseteq Wanted /\ DOMAIN paths = 1 .. Len(paths)
        BY <2>0, ToSetFacts DEF WalkType
    <2>3. stack = <<>> /\ todo = {} => Remaining = {}
        BY DEF Remaining, Ahead
    <2>4. phase # "enumerate" =>
            \A p \in Wanted \ ToSet(paths) : CapReached /\ \A q \in ToSet(paths) : Before(q, p)
        BY <2>0, <2>3 DEF WalkMarked, WalkComplete
    <2>5. EnumerationExact
        BY <2>0, <2>2, <2>4 DEF EnumerationExact, WalkComplete
    <2>6. TruncationReported
        <3> SUFFICES ASSUME phase # "enumerate", marker = "none",
                            Wanted # ToSet(paths) \/ \E p \in ToSet(paths) : Callees(Last(p)) # {}
                     PROVE  FALSE
            BY DEF TruncationReported
        <3>1. Wanted = ToSet(paths)
            BY <2>0, <2>2, <2>3 DEF WalkMarked, WalkComplete
        <3>2. \A p \in ToSet(paths) : Callees(Last(p)) = {}
            BY <2>0, PathFacts DEF WalkMarked
        <3> QED BY <3>1, <3>2
    <2> QED BY <2>1, <2>5, <2>6 DEF EnumerationSound
<1> QED BY <1>1, PathsInvariant, PTL

\* UnitsFollowPaths, of the planner and the context slice: every boundary
\* unit is a call on a stored path and every such call has one, an entry
\* recognised by its decorator is unknown to the agents exactly where
\* audit.graph_slice is off, and a slice holds what its functions read.
THEOREM PathsUnitsFollow == PathsSpec => []UnitsFollowPaths
<1>1. PathsInv => UnitsFollowPaths
    <2> SUFFICES ASSUME PathsInv PROVE UnitsFollowPaths
        OBVIOUS
    <2>1. ASSUME NEW u \in BoundaryUnits
          PROVE  u[2] \in SinkUnits /\ (u[1] = u[2] \/ u[2] \in Callees(u[1]))
        <3>1. PICK p \in ToSet(paths), i \in 1 .. Cardinality(Functions) :
                    /\ i <= Len(p) /\ SinkKind[p[i]] \in Kinds
                    /\ u = <<Producer(p, i), p[i]>>
            BY <2>1 DEF BoundaryUnits
        <3>2. i \in 1 .. Len(p) /\ p[i] \in Records /\ p[i] \in ToSet(p)
            BY <3>1, PathFacts, ToSetFacts
        <3>3. p[i] \in SinkUnits
            BY <3>1, <3>2 DEF SinkUnits, InboundPaths, Kinds
        <3>4. CASE i = 1
            BY <3>1, <3>3, <3>4 DEF Producer
        <3>5. CASE i > 1
            <4>1. Producer(p, i) = p[i - 1]
                BY <3>5 DEF Producer
            <4>2. i - 1 \in 1 .. Len(p) - 1 /\ i - 1 \in 1 .. Len(p) /\ (i - 1) + 1 = i
                BY <3>2, <3>5, PathFacts
            <4>3. p[i] \in CallGraph[p[i - 1]] /\ p[i - 1] \in Functions
                BY <4>2, PathFacts DEF IsChain
            <4>4. p[i] \in Callees(p[i - 1])
                BY <4>3, GraphFacts DEF PathsInv, Walk, WalkType
            <4> QED BY <3>1, <3>3, <4>1, <4>4
        <3> QED BY <3>2, <3>4, <3>5
    <2>2. ASSUME NEW p \in ToSet(paths), NEW i \in 2 .. Len(p), SinkKind[p[i]] \in Kinds
          PROVE  <<p[i - 1], p[i]>> \in BoundaryUnits
        <3>1. i \in 1 .. Cardinality(Functions) /\ i <= Len(p) /\ i > 1
            <4>1. Cardinality(Functions) \in Nat
                BY FS_CardinalityType, CallPathsAssumption
            <4> QED BY <4>1, PathFacts
        <3>2. Producer(p, i) = p[i - 1]
            BY <3>1 DEF Producer
        <3>3. <<p, i>> \in {v \in ToSet(paths) \X (1 .. Cardinality(Functions)) :
                                v[2] <= Len(v[1]) /\ SinkKind[v[1][v[2]]] \in Kinds}
            BY <2>2, <3>1
        <3>4. <<Producer(<<p, i>>[1], <<p, i>>[2]), <<p, i>>[1][<<p, i>>[2]]>> \in BoundaryUnits
            BY <3>3 DEF BoundaryUnits
        <3> QED BY <3>2, <3>4
    <2>3. ASSUME NEW p \in ToSet(paths)
          PROVE  p[1] \in EntryUnits \ Registered =>
                     \A v2 \in BOOLEAN : (ClassifyEntry(p, v2) = "unknown") <=> ~v2
        <3>1. ASSUME p[1] \in EntryUnits \ Registered, NEW v2 \in BOOLEAN
              PROVE  (ClassifyEntry(p, v2) = "unknown") <=> ~v2
            <4> DEFINE intents == Decorators[p[1]]
                       telling == {i \in DOMAIN intents : IntentKind(intents[i]) # ""}
            <4>1. intents \in Seq(STRING) /\ telling \in SUBSET Nat
                <5>1. p[1] \in Functions
                    BY PathFacts
                <5>2. intents \in Seq(STRING)
                    BY <5>1, CallPathsAssumption
                <5>3. DOMAIN intents \subseteq Nat
                    BY <5>2, ToSetFacts
                <5> QED BY <5>2, <5>3
            <4>2. PICK i \in DOMAIN intents : intents[i] \in EntryIntents
                BY <3>1 DEF EntryUnits, ToSet
            <4>3. IntentKind(intents[i]) # ""
                BY <4>2 DEF EntryIntents, IntentKind
            <4>4. telling # {}
                BY <4>2, <4>3
            <4>5. Least(telling) \in telling
                BY <4>1, <4>4, LeastFacts
            <4>6. IntentKind(intents[Least(telling)]) # ""
                BY <4>5
            <4>7. \A d : IntentKind(d) # "unknown"
                BY DEF IntentKind
            <4> QED BY <4>4, <4>7 DEF ClassifyEntry
        <3> QED BY <3>1
    <2> QED BY <2>1, <2>2, <2>3 DEF UnitsFollowPaths, BoundariesAreCalls, EntriesClassified
<1> QED BY <1>1, PathsInvariant, PTL

-----------------------------------------------------------------------------
(* Coverage rests on this: without recursion, every function is on a chain  *)
(* from an entry to a function without callees.  A longest chain through it *)
(* is one.                                                                  *)
CallChain(s) ==
    /\ s \in Seq(Records) /\ Len(s) > 0
    /\ \A i \in 1 .. Len(s) - 1 : s[i + 1] \in CallGraph[s[i]]
    /\ \A i, j \in 1 .. Len(s) : s[i] = s[j] => i = j

LEMMA LongestChain ==
    ASSUME Program, NEW f \in Records
    PROVE  \E s : /\ CallChain(s) /\ f \in ToSet(s)
                  /\ \A r : CallChain(r) /\ f \in ToSet(r) => Len(r) <= Len(s)
<1> DEFINE N == Cardinality(Functions)
           Through == {s \in Seq(Records) : CallChain(s) /\ f \in ToSet(s)}
           T == {N - Len(s) : s \in Through}
<1>1. N \in Nat
    BY FS_CardinalityType, CallPathsAssumption
<1>2. \A s \in Through : Len(s) \in Nat /\ Len(s) <= N /\ N - Len(s) \in T
    <2> TAKE s \in Through
    <2>1. s \in Seq(Functions) /\ Len(s) \in Nat
        BY GraphFacts
    <2>2. \A i, j \in 1 .. Len(s) : s[i] = s[j] => i = j
        BY DEF CallChain
    <2> QED BY <2>1, <2>2, Pigeonhole
<1>3. <<f>> \in Through
    <2>1. /\ <<f>> \in Seq(Records) /\ Len(<<f>>) = 1 /\ <<f>>[1] = f
        OBVIOUS
    <2>2. f \in ToSet(<<f>>)
        BY DEF ToSet
    <2>3. CallChain(<<f>>)
        BY <2>1 DEF CallChain
    <2> QED BY <2>1, <2>2, <2>3
<1> HIDE DEF N, Through
<1>4. T \in SUBSET Nat /\ T # {}
    <2>1. \A s \in Through : N - Len(s) \in Nat
        BY <1>1, <1>2
    <2> QED BY <1>3, <2>1
<1>5. Least(T) \in T /\ \A n \in T : Least(T) <= n
    BY <1>4, LeastFacts
<1>6. PICK s \in Through : Least(T) = N - Len(s)
    BY <1>5
<1>7. \A r : CallChain(r) /\ f \in ToSet(r) => r \in Through
    BY DEF CallChain, Through
<1> HIDE DEF T
<1>8. \A r \in Through : Len(r) <= Len(s)
    <2> TAKE r \in Through
    <2>1. N - Len(s) <= N - Len(r)
        BY <1>2, <1>5, <1>6
    <2> QED BY <1>1, <1>2, <1>6, <2>1
<1>9. CallChain(s) /\ f \in ToSet(s)
    BY <1>6 DEF Through
<1> QED BY <1>7, <1>8, <1>9

\* In an acyclic graph no function calls back up its chain.
LEMMA NoCallBack ==
    ASSUME Program, Acyclic, NEW s, CallChain(s),
           NEW i \in 1 .. Len(s), NEW j \in 1 .. Len(s), i <= j
    PROVE  s[i] \notin CallGraph[s[j]]
<1> DEFINE r == [n \in 1 .. j - i + 1 |-> s[i + n - 1]]
<1>1. s \in Seq(Records) /\ Len(s) \in Nat /\ Records \subseteq Functions
    BY GraphFacts DEF CallChain
<1>2. \A n \in 1 .. j - i + 1 : i + n - 1 \in 1 .. Len(s)
    BY <1>1
<1>3. r \in [1 .. j - i + 1 -> Functions] /\ j - i + 1 \in Nat \ {0}
    BY <1>1, <1>2
<1>4. r \in Seq(Functions) /\ Len(r) = j - i + 1
    BY <1>3
<1>5. r[1] = s[i] /\ Last(r) = s[j]
    <2>1. 1 \in 1 .. j - i + 1 /\ i + 1 - 1 = i /\ i + (j - i + 1) - 1 = j /\ j - i + 1 \in 1 .. j - i + 1
        BY <1>1
    <2> QED BY <1>4, <2>1 DEF Last
<1>6. \A m, n \in 1 .. Len(r) : r[m] = r[n] => m = n
    <2> TAKE m, n \in 1 .. Len(r)
    <2> HAVE r[m] = r[n]
    <2>1. m \in 1 .. j - i + 1 /\ n \in 1 .. j - i + 1
        BY <1>4
    <2>2. s[i + m - 1] = s[i + n - 1]
        BY <2>1
    <2>3. i + m - 1 = i + n - 1
        BY <1>2, <2>1, <2>2 DEF CallChain
    <2> QED BY <1>1, <2>1, <2>3
<1>7. \A n \in 1 .. Len(r) - 1 : r[n + 1] \in CallGraph[r[n]]
    <2> TAKE n \in 1 .. Len(r) - 1
    <2>1. /\ n \in 1 .. j - i + 1 /\ n + 1 \in 1 .. j - i + 1
          /\ i + n - 1 \in 1 .. Len(s) - 1 /\ i + (n + 1) - 1 = (i + n - 1) + 1
        BY <1>1, <1>4
    <2>2. s[(i + n - 1) + 1] \in CallGraph[s[i + n - 1]]
        BY <2>1 DEF CallChain
    <2>3. r[n] = s[i + n - 1] /\ r[n + 1] = s[i + (n + 1) - 1]
        BY <2>1
    <2> QED BY <2>1, <2>2, <2>3
<1> HIDE DEF r
<1>8. r \in Simple
    BY <1>3, <1>4, <1>6, SimpleAre
<1> QED BY <1>5, <1>7, <1>8 DEF Acyclic, CallGraph

\* The chain can be lengthened in front by a caller of its first function.
LEMMA ChainWithCaller ==
    ASSUME Program, Acyclic, NEW s, CallChain(s), NEW g \in Records, s[1] \in CallGraph[g]
    PROVE  \E r : CallChain(r) /\ Len(r) = Len(s) + 1 /\ ToSet(s) \subseteq ToSet(r)
<1> DEFINE r == [n \in 1 .. Len(s) + 1 |-> IF n = 1 THEN g ELSE s[n - 1]]
<1>1. s \in Seq(Records) /\ Len(s) \in Nat \ {0}
    BY DEF CallChain
<1>2. \A n \in 1 .. Len(s) + 1 : n # 1 => n - 1 \in 1 .. Len(s)
    BY <1>1
<1>3. r \in [1 .. Len(s) + 1 -> Records]
    BY <1>1, <1>2
<1>4. r \in Seq(Records) /\ Len(r) = Len(s) + 1
    BY <1>1, <1>3
<1>5. r[1] = g /\ \A n \in 1 .. Len(s) : n + 1 \in 1 .. Len(s) + 1 /\ r[n + 1] = s[n]
    BY <1>1
<1>6. \A n \in 1 .. Len(s) : s[n] # g
    <2> TAKE n \in 1 .. Len(s)
    <2>1. 1 \in 1 .. Len(s) /\ 1 <= n
        BY <1>1
    <2>2. s[1] \notin CallGraph[s[n]]
        BY <2>1, NoCallBack
    <2> QED BY <2>2
<1> HIDE DEF r
<1>7. \A n \in 1 .. Len(r) - 1 : r[n + 1] \in CallGraph[r[n]]
    <2> TAKE n \in 1 .. Len(r) - 1
    <2>1. CASE n = 1
        <3>1. r[1 + 1] = s[1]
            BY <1>1, <1>5
        <3> QED BY <1>5, <2>1, <3>1
    <2>2. CASE n # 1
        <3>1. n - 1 \in 1 .. Len(s) - 1 /\ n - 1 \in 1 .. Len(s) /\ n \in 1 .. Len(s) /\ (n - 1) + 1 = n
            BY <1>1, <1>4, <2>2
        <3>2. s[(n - 1) + 1] \in CallGraph[s[n - 1]]
            BY <3>1 DEF CallChain
        <3>3. r[(n - 1) + 1] = s[n - 1] /\ r[n + 1] = s[n]
            BY <1>5, <3>1
        <3> QED BY <3>1, <3>2, <3>3
    <2> QED BY <2>1, <2>2
<1>8. \A m, n \in 1 .. Len(r) : r[m] = r[n] => m = n
    <2>1. \A n \in 1 .. Len(r) : n = 1 \/ (n - 1 \in 1 .. Len(s) /\ r[n] = s[n - 1])
        <3> TAKE n \in 1 .. Len(r)
        <3>1. n # 1 => n - 1 \in 1 .. Len(s) /\ (n - 1) + 1 = n
            BY <1>1, <1>4
        <3> QED BY <1>5, <3>1
    <2> TAKE m, n \in 1 .. Len(r)
    <2> HAVE r[m] = r[n]
    <2>2. CASE m = 1 \/ n = 1
        BY <1>5, <1>6, <2>1, <2>2
    <2>3. CASE m # 1 /\ n # 1
        <3>1. m - 1 = n - 1
            BY <2>1, <2>3 DEF CallChain
        <3> QED BY <1>1, <1>4, <3>1
    <2> QED BY <2>2, <2>3
<1>9. ToSet(s) \subseteq ToSet(r)
    <2> SUFFICES ASSUME NEW e \in ToSet(s) PROVE e \in ToSet(r)
        OBVIOUS
    <2>1. PICK n \in 1 .. Len(s) : s[n] = e
        BY <1>1, ToSetFacts
    <2>2. r[n + 1] = e /\ n + 1 \in 1 .. Len(r)
        BY <1>4, <1>5, <2>1
    <2> QED BY <1>4, <2>2, ToSetFacts
<1>10. CallChain(r)
    BY <1>1, <1>4, <1>7, <1>8 DEF CallChain
<1> QED BY <1>4, <1>9, <1>10

\* And at the end by a callee of its last.
LEMMA ChainWithCallee ==
    ASSUME Program, Acyclic, NEW s, CallChain(s), NEW g \in CallGraph[s[Len(s)]]
    PROVE  \E r : CallChain(r) /\ Len(r) = Len(s) + 1 /\ ToSet(s) \subseteq ToSet(r)
<1> DEFINE r == Append(s, g)
<1>1. s \in Seq(Records) /\ Len(s) \in Nat \ {0}
    BY DEF CallChain
<1>2. g \in Records
    <2>1. s[Len(s)] \in Functions
        BY <1>1, GraphFacts
    <2> QED BY <2>1, GraphFacts
<1>3. /\ r \in Seq(Records) /\ Len(r) = Len(s) + 1 /\ r[Len(s) + 1] = g
      /\ \A n \in 1 .. Len(s) : r[n] = s[n]
    BY <1>1, <1>2, AppendFacts
<1>4. ToSet(s) \subseteq ToSet(r)
    BY <1>1, <1>2, AppendSet
<1> HIDE DEF r
<1>5. \A n \in 1 .. Len(s) : s[n] # g
    <2> TAKE n \in 1 .. Len(s)
    <2>1. Len(s) \in 1 .. Len(s) /\ n <= Len(s)
        BY <1>1
    <2>2. s[n] \notin CallGraph[s[Len(s)]]
        BY <2>1, NoCallBack
    <2> QED BY <2>2
<1>6. \A n \in 1 .. Len(r) - 1 : r[n + 1] \in CallGraph[r[n]]
    <2> TAKE n \in 1 .. Len(r) - 1
    <2>1. CASE n = Len(s)
        BY <1>1, <1>3, <2>1
    <2>2. CASE n # Len(s)
        <3>1. n \in 1 .. Len(s) - 1 /\ n \in 1 .. Len(s) /\ n + 1 \in 1 .. Len(s)
            BY <1>1, <1>3, <2>2
        <3>2. s[n + 1] \in CallGraph[s[n]]
            BY <3>1 DEF CallChain
        <3> QED BY <1>3, <3>1, <3>2
    <2> QED BY <2>1, <2>2
<1>7. \A m, n \in 1 .. Len(r) : r[m] = r[n] => m = n
    <2>1. \A n \in 1 .. Len(r) : n = Len(s) + 1 \/ n \in 1 .. Len(s)
        BY <1>1, <1>3
    <2>2. \A m, n \in 1 .. Len(s) : r[m] = r[n] => m = n
        BY <1>3 DEF CallChain
    <2>3. \A n \in 1 .. Len(s) : r[n] # r[Len(s) + 1]
        BY <1>3, <1>5
    <2> QED BY <2>1, <2>2, <2>3
<1>8. CallChain(r)
    BY <1>1, <1>3, <1>6, <1>7 DEF CallChain
<1> QED BY <1>3, <1>4, <1>8

LEMMA OnFullChain ==
    ASSUME Program, Acyclic, NEW f \in Records
    PROVE  \E s : IsChain(s) /\ f \in ToSet(s) /\ CallGraph[s[Len(s)]] = {}
<1>1. PICK s : /\ CallChain(s) /\ f \in ToSet(s)
               /\ \A r : CallChain(r) /\ f \in ToSet(r) => Len(r) <= Len(s)
    BY LongestChain
<1>2. s \in Seq(Records) /\ Len(s) \in Nat \ {0} /\ s[1] \in Records
    BY <1>1 DEF CallChain
<1>3. ASSUME NEW r, CallChain(r), Len(r) = Len(s) + 1, ToSet(s) \subseteq ToSet(r) PROVE FALSE
    <2>1. Len(r) <= Len(s)
        BY <1>1, <1>3
    <2> QED BY <1>2, <1>3, <2>1
<1>4. CallGraph[s[Len(s)]] = {}
    BY <1>1, <1>3, ChainWithCallee
<1>5. \A g \in Records : s[1] \notin CallGraph[g]
    BY <1>1, <1>3, ChainWithCaller
<1>6. s[1] \in EntryIds
    BY <1>2, <1>5, GraphFacts DEF EntryIds
<1> QED BY <1>1, <1>2, <1>4, <1>6 DEF IsChain, CallChain

\* With nothing marked, every function of an acyclic program is on a path.
LEMMA UnmarkedCovers ==
    ASSUME PathsInv, phase = "done", marker = "none", Acyclic, NEW f \in Records
    PROVE  \E p \in ToSet(paths) : f \in ToSet(p)
<1>1. Program /\ depth \in Nat \ {0}
    BY GraphFacts DEF PathsInv, Walk, WalkType
<1>2. Wanted \subseteq ToSet(paths)
    BY DEF PathsInv, WalkMarked, WalkComplete, Remaining, Ahead
<1>3. PICK s : IsChain(s) /\ f \in ToSet(s) /\ CallGraph[s[Len(s)]] = {}
    BY <1>1, OnFullChain
<1>4. s \in Seq(Records) /\ Len(s) \in Nat \ {0}
    BY <1>3 DEF IsChain
<1>5. CASE Len(s) <= depth
    BY <1>1, <1>2, <1>3, <1>5, WantedAre
<1>6. CASE Len(s) > depth
    <2> DEFINE r == [i \in 1 .. depth |-> s[i]]
    <2>1. \A i \in 1 .. depth : i \in 1 .. Len(s)
        BY <1>1, <1>4, <1>6
    <2>2. r \in [1 .. depth -> Records]
        BY <1>4, <2>1
    <2>3. r \in Seq(Records) /\ Len(r) = depth /\ \A i \in 1 .. depth : r[i] = s[i]
        BY <1>1, <2>2
    <2> HIDE DEF r
    <2>4. IsChain(r)
        <3>1. 1 \in 1 .. depth /\ r[1] \in EntryIds
            BY <1>1, <1>3, <2>3 DEF IsChain
        <3>2. \A i \in 1 .. Len(r) - 1 : r[i + 1] \in CallGraph[r[i]]
            <4> TAKE i \in 1 .. Len(r) - 1
            <4>1. i \in 1 .. Len(s) - 1 /\ i \in 1 .. depth /\ i + 1 \in 1 .. depth
                BY <1>1, <1>4, <1>6, <2>3
            <4>2. s[i + 1] \in CallGraph[s[i]]
                BY <1>3, <4>1 DEF IsChain
            <4> QED BY <2>3, <4>1, <4>2
        <3>3. \A i, j \in 1 .. Len(r) : r[i] = r[j] => i = j
            BY <1>3, <2>1, <2>3 DEF IsChain
        <3>4. Len(r) > 0
            BY <1>1, <2>3
        <3> QED BY <2>3, <3>1, <3>2, <3>3, <3>4 DEF IsChain
    <2>5. s[depth + 1] \in CallGraph[r[Len(r)]]
        <3>1. depth \in 1 .. Len(s) - 1 /\ depth \in 1 .. depth
            BY <1>1, <1>4, <1>6
        <3>2. s[depth + 1] \in CallGraph[s[depth]]
            BY <1>3, <3>1 DEF IsChain
        <3> QED BY <2>3, <3>1, <3>2
    <2>6. s[depth + 1] \notin ToSet(r)
        <3> SUFFICES ASSUME s[depth + 1] \in ToSet(r) PROVE FALSE
            OBVIOUS
        <3>1. PICK i \in 1 .. Len(r) : r[i] = s[depth + 1]
            BY <2>3, ToSetFacts
        <3>2. s[i] = s[depth + 1] /\ i \in 1 .. Len(s) /\ depth + 1 \in 1 .. Len(s) /\ i \in 1 .. depth
            BY <1>1, <1>4, <1>6, <2>3, <3>1
        <3>3. i = depth + 1
            BY <1>3, <3>2 DEF IsChain
        <3> QED BY <1>1, <3>2, <3>3
    <2>7. r \in Wanted
        BY <1>1, <2>3, <2>4, <2>5, <2>6, WantedAre
    <2>8. r \in ToSet(paths) /\ CallGraph[r[Len(r)]] # {}
        BY <1>2, <2>5, <2>7
    <2> QED BY <2>8 DEF PathsInv, WalkMarked
<1> QED BY <1>1, <1>4, <1>5, <1>6

LEMMA CoverageHolds == PathsInv => CoverageTruthful
<1> SUFFICES ASSUME PathsInv, phase = "done", marker = "none", Acyclic,
                    \A p \in ToSet(paths) : PathState(p) = "AUDITED",
                    NEW f \in Records
             PROVE  f \in AuditedFunctions
    BY DEF CoverageTruthful
<1>1. PICK p \in ToSet(paths) : f \in ToSet(p)
    BY UnmarkedCovers
<1>2. p \in Audited
    BY DEF PathState
<1> QED BY <1>1, <1>2 DEF AuditedFunctions

\* Every finding is in the group of one first member.
LEMMA ReconciledKeeps ==
    ASSUME PathsInv, Reconciled, NEW i \in DOMAIN findings
    PROVE  KeptOnce(i)
<1>1. DOMAIN findings = 1 .. Len(findings) /\ Len(findings) \in Nat
    BY ToSetFacts DEF PathsInv, RunRecord
<1>3. Group(i) \in SUBSET Nat /\ i \in Group(i)
    BY <1>1 DEF Group
<1> DEFINE k == Least(Group(i))
<1>4. k \in Group(i) /\ \A j \in Group(i) : k <= j
    BY <1>3, LeastFacts
<1> HIDE DEF k
<1>5. k \in Primaries
    <2>1. k \in DOMAIN findings /\ findings[k].suspect = findings[i].suspect
        BY <1>4 DEF Group
    <2>2. \A j \in 1 .. k - 1 : j \in DOMAIN findings /\ ~(k <= j)
        BY <1>1, <2>1
    <2>3. \A j \in 1 .. k - 1 : findings[j].suspect # findings[k].suspect
        BY <1>4, <2>1, <2>2 DEF Group
    <2> QED BY <2>1, <2>3 DEF Primaries
<1>6. i \in Group(k)
    BY <1>4 DEF Group
<1>7. ASSUME NEW l \in Primaries, i \in Group(l) PROVE l = k
    <2>1. /\ l \in DOMAIN findings /\ findings[l].suspect = findings[i].suspect
          /\ k \in DOMAIN findings /\ findings[k].suspect = findings[i].suspect
        BY <1>4, <1>7 DEF Primaries, Group
    <2>2. k <= l
        BY <1>4, <2>1 DEF Group
    <2>3. k \notin 1 .. l - 1
        BY <1>7, <2>1 DEF Primaries
    <2> QED BY <1>1, <2>1, <2>2, <2>3
<1> QED BY <1>5, <1>6, <1>7 DEF Reconciled, KeptOnce

LEMMA VerdictsHold == PathsInv => VerdictsKept
<1> SUFFICES ASSUME PathsInv, phase = "done" PROVE VerdictsKept
    BY DEF VerdictsKept
<1>1. CASE Unreconciled
    BY <1>1 DEF Unreconciled, VerdictsKept
<1>2. CASE Reconciled
    BY <1>2, ReconciledKeeps DEF Reconciled, VerdictsKept
<1> QED BY <1>1, <1>2 DEF PathsInv, RunRecord

\* ReportTruthful, of build_coverage and the reconciler: an unmarked run that
\* audited every path of an acyclic program left no function out; each
\* finding's verdict is in exactly one payload and alone in it it is kept, or
\* the reconciler raised over a group of several and there are no payloads.
THEOREM PathsReportTruthful == PathsSpec => []ReportTruthful
<1>1. PathsInv => ReportTruthful
    BY CoverageHolds, VerdictsHold DEF ReportTruthful
<1> QED BY <1>1, PathsInvariant, PTL

-----------------------------------------------------------------------------
(***************************************************************************)
(* PathStreamer.                                                           *)
(***************************************************************************)
USE DEF fetcherVars, consumerVars

LEMMA SourceFacts ==
    /\ PathSeq \in Seq(Paths) /\ Len(PathSeq) \in Nat
    /\ \A i \in 1..Len(PathSeq) : PathSeq[i] \in Paths
    /\ END \notin Paths /\ ERROR \notin Paths /\ END # ERROR
    /\ BatchSize \in Nat
BY PathSeqAssumption, BatchSizeAssumption DEF END, ERROR

\* What taking the head does to a sequence.
LEMMA TailFacts ==
    ASSUME NEW S, NEW s \in Seq(S), s # <<>>
    PROVE  /\ Head(s) \in S /\ Head(s) = s[1] /\ Len(s) >= 1
           /\ Tail(s) \in Seq(S) /\ Len(Tail(s)) = Len(s) - 1
           /\ \A i \in 1..Len(Tail(s)) : Tail(s)[i] = s[i + 1]
OBVIOUS

-----------------------------------------------------------------------------
(* Typing.  A unit is put on the queue only with a path in hand. *)

InHand == fpc \in {"check", "put"} => pos >= 1

Entries == Paths \cup {END, ERROR}

QueueOK == queue \in Seq(Entries) /\ Len(queue) \in Nat /\ Len(queue) <= BatchSize

LEMMA TypeInit == Init => TypeOK /\ InHand
<1> SUFFICES ASSUME Init PROVE TypeOK /\ InHand
    OBVIOUS
<1>1. stop \in BOOLEAN /\ exhausted \in BOOLEAN
    BY DEF Init
<1>2. queue \in Seq(Paths \cup {END, ERROR}) /\ Len(queue) = 0 /\ yielded \in Seq(Paths)
    BY DEF Init
<1> QED BY <1>1, <1>2, SourceFacts DEF Init, TypeOK, InHand

LEMMA TypeStep == ASSUME TypeOK, InHand, [Next]_vars PROVE TypeOK' /\ InHand'
<1> USE SourceFacts DEF InHand
<1>0. QueueOK
    BY DEF QueueOK, TypeOK, Entries
<1>a. ASSUME NEW e \in Entries, ~Full, queue' = Append(queue, e) PROVE QueueOK'
  <2>1. queue' \in Seq(Entries) /\ Len(queue') = Len(queue) + 1
      BY <1>0, <1>a, AppendFacts DEF QueueOK
  <2> QED BY <1>0, <1>a, <2>1 DEF QueueOK, Full
<1>b. ASSUME queue # <<>>, queue' = Tail(queue)
      PROVE  QueueOK' /\ Head(queue) \in Entries
  <2>1. /\ queue' \in Seq(Entries) /\ Len(queue') = Len(queue) - 1
        /\ Len(queue) >= 1 /\ Head(queue) \in Entries
      BY <1>0, <1>b, TailFacts DEF QueueOK
  <2> QED BY <1>0, <2>1 DEF QueueOK
<1>c. QueueOK' => queue' \in Seq(Paths \cup {END, ERROR}) /\ Len(queue') <= BatchSize
    BY DEF QueueOK, Entries
<1>1. CASE Fetch
  <2>1. pos' \in 1..Len(PathSeq) /\ pos + 1 \in 1..Len(PathSeq)
      BY <1>1 DEF Fetch, TypeOK
  <2> QED BY <1>1, <2>1 DEF Fetch, TypeOK
<1>2. CASE FetchEnds \/ FetchRaises \/ CheckStop
    BY <1>2 DEF FetchEnds, FetchRaises, CheckStop, TypeOK
<1>3. CASE Put
  <2>1. PathSeq[pos] \in Entries
    <3>1. pos \in 1..Len(PathSeq)
        BY <1>3 DEF Put, TypeOK
    <3> QED BY <3>1 DEF Entries
  <2>2. queue' = queue \/ (~Full /\ queue' = Append(queue, PathSeq[pos]))
      BY <1>3 DEF Put
  <2>3. QueueOK'
      BY <1>0, <1>a, <2>1, <2>2 DEF QueueOK
  <2> QED BY <1>3, <1>c, <2>3 DEF Put, TypeOK
<1>4. CASE SafePut
  <2>1. queue' = queue \/ (~Full /\ \E e \in {END, ERROR} : queue' = Append(queue, e))
      BY <1>4 DEF SafePut
  <2>2. QueueOK'
      BY <1>0, <1>a, <2>1 DEF QueueOK, Entries
  <2> QED BY <1>4, <1>c, <2>2 DEF SafePut, TypeOK
<1>5. CASE NextOrNone
    BY <1>5 DEF NextOrNone, TypeOK
<1>6. CASE Get
  <2>1. QueueOK' /\ Head(queue) \in Entries
      BY <1>6, <1>b DEF Get
  <2>2. exhausted' \in BOOLEAN
      BY <1>6 DEF Get, TypeOK
  <2>3. yielded' \in Seq(Paths)
    <3>1. CASE Head(queue) \in {END, ERROR}
        BY <1>6, <3>1 DEF Get, TypeOK
    <3>2. CASE Head(queue) \notin {END, ERROR}
      <4>1. Head(queue) \in Paths /\ yielded' = Append(yielded, Head(queue))
          BY <1>6, <2>1, <3>2 DEF Get, Entries
      <4> QED BY <4>1, AppendFacts DEF TypeOK
    <3> QED BY <3>1, <3>2
  <2> QED BY <1>6, <1>c, <2>1, <2>2, <2>3 DEF Get, TypeOK
<1>7. CASE CloseStop
  <2>1. stop' \in BOOLEAN
      BY <1>7 DEF CloseStop
  <2> QED BY <1>7, <2>1 DEF CloseStop, TypeOK
<1>8. CASE CloseDrain
  <2>1. QueueOK'
      BY <1>0, <1>8, <1>b DEF CloseDrain, QueueOK
  <2> QED BY <1>8, <1>c, <2>1 DEF CloseDrain, TypeOK
<1>9. CASE CloseJoin
  <2>1. exhausted' \in BOOLEAN
      BY <1>9 DEF CloseJoin
  <2> QED BY <1>9, <2>1 DEF CloseJoin, TypeOK
<1>10. CASE UNCHANGED vars
    BY <1>10 DEF vars, TypeOK
<1> QED BY <1>1, <1>2, <1>3, <1>4, <1>5, <1>6, <1>7, <1>8, <1>9, <1>10
        DEF Next, Fetcher, Consumer, Closed

\* The queue stays within audit.path_batch_size, and everything has its type,
\* whatever the two threads do.
THEOREM StreamerTypeCorrect == Spec => []TypeOK
<1>1. Spec => [](TypeOK /\ InHand)
    BY TypeInit, TypeStep, PTL DEF Spec
<1> QED BY <1>1, PTL

-----------------------------------------------------------------------------
(* The refinement.  GotBefore(k) is what the consumer will have got when the *)
(* k-th entry of the queue is its next; Sent is everything the fetcher has  *)
(* let out of its hands.                                                    *)

Given == {yielded[k] : k \in 1..Len(yielded)}
GotBefore(k) == Given \cup {queue[l] : l \in 1..(k - 1)}
Sent == GotBefore(Len(queue) + 1)
Open == cpc \in {"idle", "get"}

\* PathSeq[i] is the first path of the source that is not in S.
FirstOutside(i, S) ==
    /\ PathSeq[i] \notin S
    /\ \A j \in 1..(i - 1) : PathSeq[j] \in S

\* Every entry of the queue is right when its turn comes.
QueuedInTurn ==
    \A k \in 1..Len(queue) :
        /\ queue[k] \in Paths =>
             \E i \in 1..Len(PathSeq) : queue[k] = PathSeq[i] /\ FirstOutside(i, GotBefore(k))
        /\ queue[k] = END => \A j \in 1..Len(PathSeq) : PathSeq[j] \in GotBefore(k)
        /\ queue[k] = ERROR => MayFail

\* What the fetcher knows where it is.
FetcherKnows ==
    /\ fpc # "done" => \A k \in 1..Len(queue) : queue[k] \in Paths
    /\ fpc = "next" => seen = Sent /\ \A j \in 1..pos : PathSeq[j] \in Sent
    /\ fpc \in {"check", "put"} =>
         seen = Sent \cup {PathSeq[pos]} /\ FirstOutside(pos, Sent)
    /\ fpc = "end" => \A j \in 1..Len(PathSeq) : PathSeq[j] \in Sent
    /\ fpc = "error" => MayFail

OpenInv == Open => ~stop /\ QueuedInTurn /\ FetcherKnows

LEMMA OpenInit == Init => OpenInv
<1> SUFFICES ASSUME Init PROVE ~stop /\ QueuedInTurn /\ FetcherKnows
    BY DEF OpenInv
<1>1. Len(queue) = 0 /\ Len(yielded) = 0
    BY DEF Init
<1>2. Sent = {}
    BY <1>1 DEF Sent, GotBefore, Given
<1> QED BY <1>1, <1>2 DEF Init, QueuedInTurn, FetcherKnows

\* Appending an entry changes nothing before it.
LEMMA BeforeAppend ==
    ASSUME TypeOK, NEW e \in Entries, queue' = Append(queue, e), UNCHANGED yielded
    PROVE  /\ Len(queue') = Len(queue) + 1 /\ Len(queue) \in Nat
           /\ queue'[Len(queue) + 1] = e
           /\ \A k \in 1..Len(queue) : queue'[k] = queue[k]
           /\ \A k \in 1..Len(queue') : GotBefore(k)' = GotBefore(k)
           /\ Sent' = Sent \cup {e}
<1>1. queue \in Seq(Entries) /\ Len(queue) \in Nat
    BY DEF TypeOK, Entries
<1>2. /\ Len(queue') = Len(queue) + 1
      /\ queue'[Len(queue) + 1] = e
      /\ \A k \in 1..Len(queue) : queue'[k] = queue[k]
    BY <1>1, AppendFacts
<1>3. Given' = Given
    BY DEF Given
<1>4. ASSUME NEW k \in 1..Len(queue') PROVE GotBefore(k)' = GotBefore(k)
  <2>1. \A l \in 1..(k - 1) : queue'[l] = queue[l]
      BY <1>1, <1>2
  <2> QED BY <1>3, <2>1 DEF GotBefore
<1>5. Sent' = Sent \cup {e}
  <2>1. {queue'[l] : l \in 1..(Len(queue') + 1 - 1)}
          = {queue[l] : l \in 1..(Len(queue) + 1 - 1)} \cup {e}
      BY <1>1, <1>2
  <2> QED BY <1>3, <2>1 DEF Sent, GotBefore
<1> QED BY <1>1, <1>2, <1>4, <1>5

\* Taking the head moves it from the queue to what was returned.
LEMMA BeforeTake ==
    ASSUME TypeOK, queue # <<>>, queue' = Tail(queue),
           Head(queue) \in Paths, yielded' = Append(yielded, Head(queue))
    PROVE  /\ Len(queue') = Len(queue) - 1 /\ Len(queue) \in Nat /\ Len(queue) >= 1
           /\ \A k \in 1..Len(queue') : queue'[k] = queue[k + 1]
           /\ \A k \in 1..(Len(queue') + 1) : GotBefore(k)' = GotBefore(k + 1)
           /\ Sent' = Sent
<1>1. queue \in Seq(Entries) /\ Len(queue) \in Nat /\ yielded \in Seq(Paths)
      /\ Len(yielded) \in Nat
    BY DEF TypeOK, Entries
<1>2. /\ Len(queue') = Len(queue) - 1 /\ Head(queue) = queue[1] /\ Len(queue) >= 1
      /\ \A k \in 1..Len(queue') : queue'[k] = queue[k + 1]
    BY <1>1, TailFacts
<1>3. Given' = Given \cup {queue[1]}
  <2>1. /\ Len(yielded') = Len(yielded) + 1 /\ yielded'[Len(yielded) + 1] = queue[1]
        /\ \A i \in 1..Len(yielded) : yielded'[i] = yielded[i]
      BY <1>1, <1>2, AppendFacts
  <2> QED BY <1>1, <2>1 DEF Given
<1>4. ASSUME NEW k \in 1..(Len(queue') + 1) PROVE GotBefore(k)' = GotBefore(k + 1)
  <2>1. k \in Nat /\ k >= 1 /\ \A l \in 1..(k - 1) : l \in 1..Len(queue')
      BY <1>1, <1>2
  <2>2. {queue'[l] : l \in 1..(k - 1)} = {queue[l + 1] : l \in 1..(k - 1)}
      BY <1>2, <2>1
  <2>3. {queue[1]} \cup {queue[l + 1] : l \in 1..(k - 1)} = {queue[l] : l \in 1..(k + 1 - 1)}
    <3>1. \A l \in 1..(k + 1 - 1) : l = 1 \/ (l - 1 \in 1..(k - 1) /\ l = (l - 1) + 1)
        BY <2>1
    <3>2. \A l \in 1..(k - 1) : l + 1 \in 1..(k + 1 - 1)
        BY <2>1
    <3>3. 1 \in 1..(k + 1 - 1)
        BY <2>1
    <3> QED BY <3>1, <3>2, <3>3
  <2>4. GotBefore(k)' = Given' \cup {queue'[l] : l \in 1..(k - 1)}
      BY DEF GotBefore
  <2>5. GotBefore(k + 1) = Given \cup {queue[l] : l \in 1..(k + 1 - 1)}
      BY DEF GotBefore
  <2> QED BY <1>3, <2>2, <2>3, <2>4, <2>5
<1>5. Sent' = Sent
  <2> PICK n \in Nat : n = Len(queue)
      BY <1>1
  <2>1. n \in 1..(Len(queue') + 1) /\ n = Len(queue') + 1
      BY <1>1, <1>2
  <2>2. Sent' = GotBefore(n)'
      BY <2>1 DEF Sent, GotBefore
  <2>3. Sent = GotBefore(n + 1)
      BY DEF Sent
  <2> QED BY <1>4, <2>1, <2>2, <2>3
<1> QED BY <1>1, <1>2, <1>4, <1>5

LEMMA OpenStep == ASSUME TypeOK, InHand, OpenInv, [Next]_vars PROVE OpenInv'
<1> SUFFICES ASSUME Open' PROVE ~stop' /\ QueuedInTurn' /\ FetcherKnows'
    BY DEF OpenInv
<1>o. Open /\ stop' = stop
  <2>1. CASE Fetcher
    <3>1. UNCHANGED <<stop, cpc, yielded, exhausted>>
        BY <2>1 DEF Fetcher, Fetch, FetchEnds, FetchRaises, CheckStop, Put,
           SafePut, consumerVars
    <3> QED BY <3>1 DEF Open
  <2>2. CASE Consumer
      BY <2>2 DEF Open, Consumer, NextOrNone, Get, CloseDrain, CloseJoin
  <2>3. CASE CloseStop
      BY <2>3 DEF Open, CloseStop
  <2>4. CASE UNCHANGED vars
      BY <2>4 DEF Open, vars
  <2> QED BY <2>1, <2>2, <2>3, <2>4 DEF Next, Closed
<1>i. ~stop /\ QueuedInTurn /\ FetcherKnows
    BY <1>o DEF OpenInv
<1>s. ASSUME queue' = queue, yielded' = yielded
      PROVE  Sent' = Sent /\ QueuedInTurn'
  <2>1. Sent' = Sent
      BY <1>s DEF Sent, GotBefore, Given
  <2>2. Given' = Given
      BY <1>s DEF Given
  <2>3. QueuedInTurn'
      BY <1>i, <1>s, <2>2 DEF QueuedInTurn, FirstOutside, GotBefore
  <2> QED BY <2>1, <2>3
<1>e. ASSUME NEW e \in Entries, queue' = Append(queue, e), yielded' = yielded,
             e \in Paths =>
               \E i \in 1..Len(PathSeq) : e = PathSeq[i] /\ FirstOutside(i, Sent),
             e = END => \A j \in 1..Len(PathSeq) : PathSeq[j] \in Sent,
             e = ERROR => MayFail
      PROVE  QueuedInTurn'
  <2>1. /\ Len(queue') = Len(queue) + 1 /\ Len(queue) \in Nat
        /\ queue'[Len(queue) + 1] = e
        /\ \A k \in 1..Len(queue) : queue'[k] = queue[k]
        /\ \A k \in 1..Len(queue') : GotBefore(k)' = GotBefore(k)
      BY <1>e, BeforeAppend
  <2> SUFFICES ASSUME NEW k \in 1..Len(queue')
               PROVE  /\ queue'[k] \in Paths =>
                           \E i \in 1..Len(PathSeq) :
                              queue'[k] = PathSeq[i] /\ FirstOutside(i, GotBefore(k)')
                      /\ queue'[k] = END =>
                           \A j \in 1..Len(PathSeq) : PathSeq[j] \in GotBefore(k)'
                      /\ queue'[k] = ERROR => MayFail
      BY DEF QueuedInTurn, FirstOutside
  <2>2. CASE k \in 1..Len(queue)
      BY <1>i, <2>1, <2>2 DEF QueuedInTurn
  <2>3. CASE k = Len(queue) + 1
      BY <1>e, <2>1, <2>3 DEF Sent
  <2> QED BY <2>1, <2>2, <2>3
<1>1. CASE Fetch
  <2>1. /\ queue' = queue /\ yielded' = yielded /\ fpc = "next"
        /\ pos < Len(PathSeq) /\ pos' = pos + 1 /\ pos \in Nat
        /\ fpc' = IF PathSeq[pos + 1] \in seen THEN "next" ELSE "check"
        /\ seen' = seen \cup {PathSeq[pos + 1]}
      BY <1>1, <1>i, SourceFacts DEF Fetch, TypeOK
  <2>2. Sent' = Sent /\ QueuedInTurn'
      BY <1>s, <2>1
  <2>3. seen = Sent /\ \A j \in 1..pos : PathSeq[j] \in Sent
      BY <1>i, <2>1 DEF FetcherKnows
  <2>4. \A k \in 1..Len(queue) : queue[k] \in Paths
      BY <1>i, <2>1 DEF FetcherKnows
  <2>5. CASE PathSeq[pos + 1] \in seen
      BY <1>i, <1>o, <2>1, <2>2, <2>3, <2>4, <2>5 DEF FetcherKnows
  <2>6. CASE PathSeq[pos + 1] \notin seen
      BY <1>i, <1>o, <2>1, <2>2, <2>3, <2>4, <2>6 DEF FetcherKnows, FirstOutside
  <2> QED BY <2>5, <2>6
<1>2. CASE FetchEnds
  <2>1. /\ queue' = queue /\ yielded' = yielded /\ fpc = "next" /\ fpc' = "end"
        /\ pos = Len(PathSeq)
      BY <1>2 DEF FetchEnds
  <2>2. Sent' = Sent /\ QueuedInTurn'
      BY <1>s, <2>1
  <2> QED BY <1>i, <1>o, <2>1, <2>2 DEF FetcherKnows
<1>3. CASE FetchRaises \/ CheckStop
  <2>1. /\ queue' = queue /\ yielded' = yielded /\ UNCHANGED <<pos, seen>>
        /\ \/ fpc = "next" /\ fpc' = "error" /\ MayFail
           \/ fpc = "check" /\ fpc' = "put"
      BY <1>3, <1>i DEF FetchRaises, CheckStop
  <2>2. Sent' = Sent /\ QueuedInTurn'
      BY <1>s, <2>1
  <2> QED BY <1>i, <1>o, <2>1, <2>2 DEF FetcherKnows, FirstOutside
<1>4. CASE Put
  <2>1. CASE Full
    <3>1. queue' = queue /\ yielded' = yielded /\ UNCHANGED <<pos, seen>>
          /\ fpc = "put" /\ fpc' = "check"
        BY <1>4, <2>1 DEF Put
    <3>2. Sent' = Sent /\ QueuedInTurn'
        BY <1>s, <3>1
    <3> QED BY <1>i, <1>o, <3>1, <3>2 DEF FetcherKnows, FirstOutside
  <2>2. CASE ~Full
    <3>1. queue' = Append(queue, PathSeq[pos]) /\ yielded' = yielded
          /\ UNCHANGED <<pos, seen>> /\ fpc = "put" /\ fpc' = "next"
        BY <1>4, <2>2 DEF Put
    <3>2. pos \in 1..Len(PathSeq) /\ PathSeq[pos] \in Paths /\ PathSeq[pos] \in Entries
        BY <3>1, SourceFacts DEF TypeOK, InHand, Entries
    <3>3. seen = Sent \cup {PathSeq[pos]} /\ FirstOutside(pos, Sent)
          /\ \A k \in 1..Len(queue) : queue[k] \in Paths
        BY <1>i, <3>1 DEF FetcherKnows
    <3>4. QueuedInTurn'
        BY <1>e, <3>1, <3>2, <3>3, SourceFacts
    <3>5. /\ Sent' = Sent \cup {PathSeq[pos]} /\ Len(queue) \in Nat
          /\ Len(queue') = Len(queue) + 1 /\ queue'[Len(queue) + 1] = PathSeq[pos]
          /\ \A k \in 1..Len(queue) : queue'[k] = queue[k]
        BY <3>1, <3>2, BeforeAppend
    <3>6. \A k \in 1..Len(queue') : queue'[k] \in Paths
        BY <3>2, <3>3, <3>5
    <3>7. \A j \in 1..pos' : PathSeq[j] \in Sent'
        BY <3>1, <3>2, <3>3, <3>5, SourceFacts DEF FirstOutside
    <3> QED BY <1>i, <1>o, <3>1, <3>3, <3>4, <3>5, <3>6, <3>7 DEF FetcherKnows
  <2> QED BY <2>1, <2>2
<1>5. CASE SafePut
  <2>1. PICK e \in {END, ERROR} :
          /\ queue' = Append(queue, e) /\ yielded' = yielded /\ fpc' = "done"
          /\ (e = END => fpc = "end") /\ (e = ERROR => fpc = "error")
      BY <1>5, <1>i, SourceFacts DEF SafePut
  <2>2. QueuedInTurn'
    <3>1. e \in Entries /\ e \notin Paths
        BY SourceFacts DEF Entries
    <3>2. e = END => fpc = "end"
        BY <1>5, <2>1, SourceFacts DEF SafePut
    <3>3. e = ERROR => fpc = "error"
        BY <1>5, <2>1, SourceFacts DEF SafePut
    <3> QED BY <1>e, <1>i, <2>1, <3>1, <3>2, <3>3 DEF FetcherKnows
  <2> QED BY <1>i, <1>o, <2>1, <2>2 DEF FetcherKnows
<1>6. CASE Get
  <2>1. /\ queue # <<>> /\ queue' = Tail(queue) /\ UNCHANGED <<fpc, pos, seen>>
        /\ Head(queue) \notin {END, ERROR} /\ yielded' = Append(yielded, Head(queue))
      BY <1>6 DEF Get, Open
  <2>2. Head(queue) \in Paths
    <3>1. queue \in Seq(Entries)
        BY DEF TypeOK, Entries
    <3>2. Head(queue) \in Entries
        BY <2>1, <3>1, TailFacts
    <3> QED BY <2>1, <3>2 DEF Entries
  <2>3. /\ Len(queue') = Len(queue) - 1 /\ Len(queue) \in Nat /\ Len(queue) >= 1
        /\ \A k \in 1..Len(queue') : queue'[k] = queue[k + 1]
        /\ \A k \in 1..(Len(queue') + 1) : GotBefore(k)' = GotBefore(k + 1)
        /\ Sent' = Sent
      BY <2>1, <2>2, BeforeTake
  <2>4. QueuedInTurn'
    <3> SUFFICES ASSUME NEW k \in 1..Len(queue')
                 PROVE  /\ queue'[k] \in Paths =>
                             \E i \in 1..Len(PathSeq) :
                                queue'[k] = PathSeq[i] /\ FirstOutside(i, GotBefore(k)')
                        /\ queue'[k] = END =>
                             \A j \in 1..Len(PathSeq) : PathSeq[j] \in GotBefore(k)'
                        /\ queue'[k] = ERROR => MayFail
        BY DEF QueuedInTurn, FirstOutside
    <3>1. k + 1 \in 1..Len(queue) /\ k \in 1..(Len(queue') + 1)
        BY <2>3
    <3>2. queue'[k] = queue[k + 1] /\ GotBefore(k)' = GotBefore(k + 1)
        BY <2>3, <3>1
    <3> QED BY <1>i, <3>1, <3>2 DEF QueuedInTurn
  <2>5. (\A k \in 1..Len(queue) : queue[k] \in Paths)
          => \A k \in 1..Len(queue') : queue'[k] \in Paths
      BY <2>3
  <2> QED BY <1>i, <1>o, <2>1, <2>3, <2>4, <2>5 DEF FetcherKnows, FirstOutside
<1>7. CASE NextOrNone \/ UNCHANGED vars
  <2>1. UNCHANGED <<queue, yielded, fpc, pos, seen>>
      BY <1>7 DEF NextOrNone, vars
  <2>2. Sent' = Sent /\ QueuedInTurn'
      BY <1>s, <2>1
  <2> QED BY <1>i, <1>o, <2>1, <2>2 DEF FetcherKnows, FirstOutside
<1>8. ~CloseStop /\ ~CloseDrain /\ ~CloseJoin /\ (Closed => UNCHANGED vars)
    BY <1>o DEF CloseStop, CloseDrain, CloseJoin, Closed, Open
<1> QED BY <1>1, <1>2, <1>3, <1>4, <1>5, <1>6, <1>7, <1>8
        DEF Next, Fetcher, Consumer

LEMMA StreamStep ==
    TypeOK /\ InHand /\ OpenInv /\ [Next]_vars => [Stream!Next]_(Stream!vars)
<1> SUFFICES ASSUME TypeOK, InHand, OpenInv, [Next]_vars
             PROVE  [Stream!Next]_(Stream!vars)
    OBVIOUS
<1>1. CASE Get
  <2>1. Open /\ QueuedInTurn
      BY <1>1 DEF OpenInv, Get, Open
  <2>2. /\ queue # <<>> /\ cpc = "get"
        /\ Head(queue) \in Entries /\ Head(queue) = queue[1] /\ 1 \in 1..Len(queue)
    <3>1. queue \in Seq(Entries) /\ queue # <<>> /\ Len(queue) \in Nat
        BY <1>1 DEF TypeOK, Entries, Get
    <3> QED BY <1>1, <3>1, TailFacts DEF Get
  <2>3. GotBefore(1) = Stream!Given
      BY DEF GotBefore, Given, Stream!Given
  <2>4. CASE queue[1] = END
    <3>1. \A i \in 1..Len(PathSeq) : PathSeq[i] \in Stream!Given
        BY <2>1, <2>2, <2>3, <2>4 DEF QueuedInTurn
    <3>2. cpc' = "none" /\ yielded' = yielded
        BY <1>1, <2>2, <2>4 DEF Get
    <3>3. Stream!End
        BY <2>2, <3>1, <3>2 DEF Stream!End
    <3> QED BY <3>3 DEF Stream!Next
  <2>5. CASE queue[1] = ERROR
    <3>1. MayFail
        BY <2>1, <2>2, <2>5 DEF QueuedInTurn
    <3>2. cpc' = "raised" /\ yielded' = yielded
        BY <1>1, <2>2, <2>5, SourceFacts DEF Get
    <3>3. Stream!Raise
        BY <2>2, <3>1, <3>2 DEF Stream!Raise
    <3> QED BY <3>3 DEF Stream!Next
  <2>6. CASE queue[1] \in Paths
    <3>1. PICK i \in 1..Len(PathSeq) : queue[1] = PathSeq[i] /\ FirstOutside(i, GotBefore(1))
        BY <2>1, <2>2, <2>6 DEF QueuedInTurn
    <3>2. cpc' = "idle" /\ yielded' = Append(yielded, PathSeq[i])
        BY <1>1, <2>2, <2>6, <3>1, SourceFacts DEF Get
    <3>3. Stream!IsNext(i)
        BY <2>3, <3>1 DEF Stream!IsNext, FirstOutside
    <3>4. Stream!Yield
        BY <2>2, <3>2, <3>3 DEF Stream!Yield
    <3> QED BY <3>4 DEF Stream!Next
  <2> QED BY <2>2, <2>4, <2>5, <2>6 DEF Entries
<1>2. CASE CloseStop
  <2>1. Stream!Close
      BY <1>2 DEF CloseStop, Stream!Close
  <2> QED BY <2>1 DEF Stream!Next
<1>3. CASE Fetcher \/ NextOrNone \/ CloseDrain \/ CloseJoin \/ Closed \/ UNCHANGED vars
    BY <1>3 DEF Stream!vars, Fetcher, Fetch, FetchEnds, FetchRaises, CheckStop, Put,
       SafePut, NextOrNone, CloseDrain, CloseJoin, Closed, vars
<1> QED BY <1>1, <1>2, <1>3 DEF Next, Consumer

\* The audit loop gets every distinct path of the source once and in source
\* order before it gets None, for any source and any size of the queue,
\* whatever the threads' timing and whenever close() comes.
THEOREM StreamerImplementsPathStream == Spec => ImplementsPathStream
<1>1. Init => Stream!Init
    BY DEF Init, Stream!Init
<1>2. Init => TypeOK /\ InHand /\ OpenInv
    BY TypeInit, OpenInit
<1>3. TypeOK /\ InHand /\ OpenInv /\ [Next]_vars => (TypeOK /\ InHand /\ OpenInv)'
    BY TypeStep, OpenStep
<1> QED BY <1>1, <1>2, <1>3, StreamStep, PTL DEF Spec, ImplementsPathStream, Stream!Spec

=============================================================================
