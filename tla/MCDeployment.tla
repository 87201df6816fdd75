---------------------------- MODULE MCDeployment ----------------------------
(* Deployment for TLC: two versions of the package.                         *)
EXTENDS Deployment

MCHeads == <<2, 3>>
=============================================================================
