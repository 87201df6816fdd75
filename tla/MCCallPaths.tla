---------------------------- MODULE MCCallPaths -----------------------------
(* Three functions and a sink outside; 2 and 3 are methods                  *)
(* of one class with one name.                                              *)
EXTENDS CallPaths, TLC

MCNameOf == <<"a", "m", "m", "post">>
MCClassOf == <<NoClass, "C", "C", NoClass>>
MCFoundAt == <<1, 3, 2, 4>>
MCSinkKind == <<"", "", "", "http_client">>
MCDecorators == <<<<"cached", "cli_entry">>, <<"admin_route", "route">>, <<>>, <<>>>>
MCNameKind == <<"unknown", "unknown", "cron", "unknown">>

Qualified(f, g) == [caller |-> f, qualified |-> {g}, name |-> MCNameOf[g]]
ByName(f, n) == [caller |-> f, qualified |-> {}, name |-> n]

AllCalls == {Qualified(f, g) : f \in 1 .. 3, g \in 1 .. 4} \cup {ByName(1, "m"), ByName(3, "m"), ByName(2, "a")}

\* Every program of up to three calls, and a diamond with one more.
MCCallSets == UNION {kSubset(n, AllCalls) : n \in 0 .. 3}
              \cup {{Qualified(1, 2), Qualified(1, 3), Qualified(2, 4), Qualified(3, 4), c} : c \in AllCalls}
=============================================================================
