------------------------------ MODULE MCAuditRun ------------------------------
(* Small instances of AuditRun for TLC. *)
EXTENDS AuditRun
=============================================================================
