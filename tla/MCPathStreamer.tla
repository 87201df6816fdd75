---------------------------- MODULE MCPathStreamer ----------------------------
(* A small instance of PathStreamer for TLC: a source with repetitions. *)
EXTENDS PathStreamer

\* Five paths, two of them repeated.
Repeated == <<"p1", "p2", "p1", "p3", "p3", "p4">>
=============================================================================
