--------------------------- MODULE MCCoderDispatch ---------------------------
(* Small instances of CoderDispatch for TLC. *)
EXTENDS CoderDispatch
=============================================================================
