---------------------------- MODULE MCCoderService ----------------------------
(* Small instances of CoderService for TLC. *)
EXTENDS CoderService

\* One of the runs audits another project.
MixedProjects == [r \in Runs |-> IF r = "r3" THEN "p2" ELSE "p1"]
=============================================================================
