------------------------------ MODULE PathPool ------------------------------
(***************************************************************************)
(* What a WorkerPool (audit/worker_pool.py, the Protocol) promises the     *)
(* aggregator: every submitted path gets one future, and the future is set *)
(* at most once.                                                           *)
(***************************************************************************)
EXTENDS Integers

CONSTANT PathCount
VARIABLES fut, open

vars == <<fut, open>>
Paths == 1..PathCount

Init ==
    /\ fut = [i \in Paths |-> "unsubmitted"]
    /\ open = TRUE

\* submit_path
Submit(i) ==
    /\ open /\ fut[i] = "unsubmitted"
    /\ fut' = [fut EXCEPT ![i] = "pending"]
    /\ UNCHANGED open

\* Some non-empty set of pending futures is set, each to its own outcome.
Resolve(S) ==
    /\ S # {} /\ \A i \in S : fut[i] = "pending"
    /\ \E out \in [S -> {"result", "worker_crashed"}] :
         fut' = [i \in Paths |-> IF i \in S THEN out[i] ELSE fut[i]]
    /\ UNCHANGED open

\* shutdown
Close ==
    /\ open
    /\ open' = FALSE
    /\ UNCHANGED fut

Next ==
    \/ \E i \in Paths : Submit(i)
    \/ \E S \in SUBSET Paths : Resolve(S)
    \/ Close

Spec == Init /\ [][Next]_vars

=============================================================================
