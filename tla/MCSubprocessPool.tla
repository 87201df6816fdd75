-------------------------- MODULE MCSubprocessPool --------------------------
(* Small instances of SubprocessPool for TLC. *)
EXTENDS SubprocessPool
=============================================================================
