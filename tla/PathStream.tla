------------------------------ MODULE PathStream ------------------------------
(***************************************************************************)
(* What the audit loop needs of a path streamer (audit/streamer.py): the   *)
(* distinct paths of the source in source order, each once, then None; a   *)
(* fetch error instead of None; nothing after close.                       *)
(***************************************************************************)
EXTENDS Integers, Sequences

CONSTANTS
    PathSeq,    \* path fingerprints as AuditGraphSource.iter_paths yields them
    MayFail     \* the graph database may fail

VARIABLES out, state
vars == <<out, state>>

\* What was returned, and the first path of the source that was not yet.
Given == {out[k] : k \in 1..Len(out)}
IsNext(i) ==
    /\ PathSeq[i] \notin Given
    /\ \A j \in 1..(i - 1) : PathSeq[j] \in Given

Init ==
    /\ out = <<>>
    /\ state = "open"

Yield ==
    /\ state = "open"
    /\ \E i \in 1..Len(PathSeq) : IsNext(i) /\ out' = Append(out, PathSeq[i])
    /\ UNCHANGED state

End ==
    /\ state = "open"
    /\ \A i \in 1..Len(PathSeq) : PathSeq[i] \in Given
    /\ state' = "ended"
    /\ UNCHANGED out

Raise ==
    /\ state = "open" /\ MayFail
    /\ state' = "failed"
    /\ UNCHANGED out

Close ==
    /\ state \in {"open", "ended", "failed"}
    /\ state' = "closed"
    /\ UNCHANGED out

Next == Yield \/ End \/ Raise \/ Close
Spec == Init /\ [][Next]_vars
=============================================================================
