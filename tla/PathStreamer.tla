----------------------------- MODULE PathStreamer -----------------------------
(***************************************************************************)
(* PathStreamer (audit/streamer.py): a background thread walks             *)
(* AuditGraphSource.iter_paths and puts audit units on a bounded queue;    *)
(* the audit loop takes them with next_or_none and ends with close.        *)
(***************************************************************************)
EXTENDS Integers, Sequences

CONSTANTS
    PathSeq,        \* path fingerprints as iter_paths yields them
    BatchSize,      \* audit.path_batch_size: the capacity of the queue
    MayFail         \* iter_paths may raise

Paths == {PathSeq[i] : i \in DOMAIN PathSeq}
END == "_END"
ERROR == "_FetcherError"

\* A unit is never one of the sentinels, which are objects of their own.
ASSUME PathSeqAssumption == PathSeq \in Seq(Paths) /\ {END, ERROR} \cap Paths = {}
ASSUME BatchSizeAssumption == BatchSize \in Nat /\ BatchSize >= 1
ASSUME MayFailAssumption == MayFail \in BOOLEAN

VARIABLES
    fpc,        \* where the fetcher is
    pos,        \* paths taken from iter_paths
    seen,       \* fingerprints seen
    queue,      \* _queue
    stop,       \* _stop_event
    cpc,        \* where the consumer is
    yielded,    \* what next_or_none returned so far
    exhausted   \* _exhausted

fetcherVars == <<fpc, pos, seen>>
consumerVars == <<stop, cpc, yielded, exhausted>>
vars == <<fpc, pos, seen, queue, stop, cpc, yielded, exhausted>>

Full == Len(queue) = BatchSize

\* After open(): the thread runs.
Init ==
    /\ fpc = "next" /\ pos = 0 /\ seen = {}
    /\ queue = <<>>
    /\ stop = FALSE
    /\ cpc = "idle" /\ yielded = <<>> /\ exhausted = FALSE

-----------------------------------------------------------------------------
(* The fetcher thread: _run_fetcher. *)

\* Mutant: forgets to remember a fingerprint.
FetchForgets ==
    /\ fpc = "next" /\ pos < Len(PathSeq)
    /\ pos' = pos + 1
    /\ fpc' = IF stop THEN "done" ELSE "check"
    /\ UNCHANGED <<seen, queue, consumerVars>>

\* The next path of iter_paths, unless its fingerprint was seen before.
Fetch ==
    /\ fpc = "next" /\ pos < Len(PathSeq)
    /\ pos' = pos + 1
    /\ fpc' = IF stop THEN "done"
              ELSE IF PathSeq[pos + 1] \in seen THEN "next" ELSE "check"
    /\ seen' = IF stop THEN seen ELSE seen \cup {PathSeq[pos + 1]}
    /\ UNCHANGED <<queue, consumerVars>>

\* iter_paths is exhausted.
FetchEnds ==
    /\ fpc = "next" /\ pos = Len(PathSeq)
    /\ fpc' = "end"
    /\ UNCHANGED <<pos, seen, queue, consumerVars>>

\* iter_paths raises.
FetchRaises ==
    /\ fpc = "next" /\ MayFail
    /\ fpc' = "error"
    /\ UNCHANGED <<pos, seen, queue, consumerVars>>

\* The stop flag is read before every attempt to put.
CheckStop ==
    /\ fpc = "check"
    /\ fpc' = IF stop THEN "done" ELSE "put"
    /\ UNCHANGED <<pos, seen, queue, consumerVars>>

\* Mutant: the queue has no bound.
PutUnbounded ==
    /\ fpc = "put"
    /\ queue' = Append(queue, PathSeq[pos])
    /\ fpc' = "next"
    /\ UNCHANGED <<pos, seen, consumerVars>>

\* put(timeout=0.1) succeeds, or raises Full and the loop starts over.
Put ==
    /\ fpc = "put"
    /\ IF Full THEN UNCHANGED queue /\ fpc' = "check"
               ELSE queue' = Append(queue, PathSeq[pos]) /\ fpc' = "next"
    /\ UNCHANGED <<pos, seen, consumerVars>>

\* Mutant: does not look at the stop flag.
SafePutForever ==
    /\ fpc \in {"end", "error"} /\ ~Full
    /\ queue' = Append(queue, IF fpc = "end" THEN END ELSE ERROR)
    /\ fpc' = "done"
    /\ UNCHANGED <<pos, seen, consumerVars>>

\* _safe_put of the sentinel: given up only when the queue is full and the
\* consumer has closed.
SafePut ==
    /\ fpc \in {"end", "error"}
    /\ \/ ~Full /\ queue' = Append(queue, IF fpc = "end" THEN END ELSE ERROR)
       \/ Full /\ stop /\ UNCHANGED queue
    /\ fpc' = "done"
    /\ UNCHANGED <<pos, seen, consumerVars>>

-----------------------------------------------------------------------------
(* The consumer. *)

\* next_or_none: an exhausted stream answers None at once.
NextOrNone ==
    /\ cpc = "idle" /\ ~exhausted
    /\ cpc' = "get"
    /\ UNCHANGED <<fetcherVars, queue, stop, yielded, exhausted>>

\* queue.get() returns a unit, the end or the fetcher's exception.
Get ==
    /\ cpc = "get" /\ queue # <<>>
    /\ queue' = Tail(queue)
    /\ IF Head(queue) \in {END, ERROR}
         THEN /\ exhausted' = TRUE /\ UNCHANGED yielded
              /\ cpc' = IF Head(queue) = END THEN "none" ELSE "raised"
         ELSE /\ yielded' = Append(yielded, Head(queue))
              /\ cpc' = "idle" /\ UNCHANGED exhausted
    /\ UNCHANGED <<fetcherVars, stop>>

\* close(): after the last unit, an error or an interrupt, also one that hit
\* the blocking get().
CloseStop ==
    /\ cpc \in {"idle", "get", "none", "raised"}
    /\ stop' = TRUE
    /\ cpc' = "drain"
    /\ UNCHANGED <<fetcherVars, queue, yielded, exhausted>>

\* One get_nowait().
CloseDrain ==
    /\ cpc = "drain"
    /\ IF queue # <<>> THEN queue' = Tail(queue) /\ UNCHANGED cpc
                       ELSE cpc' = "join" /\ UNCHANGED queue
    /\ UNCHANGED <<fetcherVars, stop, yielded, exhausted>>

\* join() returns when the thread is gone.
CloseJoin ==
    /\ cpc = "join" /\ fpc = "done"
    /\ cpc' = "closed" /\ exhausted' = TRUE
    /\ UNCHANGED <<fetcherVars, queue, stop, yielded>>

Closed == cpc = "closed" /\ UNCHANGED vars

-----------------------------------------------------------------------------
Fetcher ==
    Fetch \/ FetchEnds \/ FetchRaises \/ CheckStop \/ Put \/ SafePut
Consumer == NextOrNone \/ Get \/ CloseDrain \/ CloseJoin

Next == Fetcher \/ Consumer \/ CloseStop \/ Closed

Spec == Init /\ [][Next]_vars

\* Both threads are scheduled, and iter_paths answers.
FairSpec == Spec /\ WF_vars(Fetcher) /\ WF_vars(Get \/ CloseDrain \/ CloseJoin)

-----------------------------------------------------------------------------
TypeOK ==
    /\ fpc \in {"next", "check", "put", "end", "error", "done"}
    /\ pos \in 0..Len(PathSeq)
    /\ seen \subseteq Paths
    /\ queue \in Seq(Paths \cup {END, ERROR}) /\ Len(queue) <= BatchSize
    /\ stop \in BOOLEAN /\ exhausted \in BOOLEAN
    /\ cpc \in {"idle", "get", "none", "raised", "drain", "join", "closed"}
    /\ yielded \in Seq(Paths)

Stream ==
    INSTANCE PathStream WITH
        out <- yielded,
        state <- CASE cpc \in {"idle", "get"} -> "open"
                   [] cpc = "none" -> "ended"
                   [] cpc = "raised" -> "failed"
                   [] OTHER -> "closed"

\* The loop gets every distinct path of the source once and in source order
\* before it gets None, whatever the queue's size and the threads' timing:
\* finding ids depend on this order.
ImplementsPathStream == Stream!Spec

\* A call of next_or_none returns: nobody waits on a queue no one will fill.
NextReturns == cpc = "get" ~> cpc # "get"

\* close(wait=True) returns although the fetcher may be blocked on a full
\* queue, with a unit or a sentinel in hand, when it is called.
CloseReturns == cpc = "drain" ~> cpc = "closed"

\* Neither call of the audit loop hangs, whatever the fetcher is at.
CallsReturn == NextReturns /\ CloseReturns

=============================================================================
