------------------------------ MODULE MCPortal ------------------------------
(* Portal for TLC: two runs, three findings, and what clients ask for.      *)
EXTENDS Portal, TLC

CONSTANTS r1, r2, f1, f2, f3, u1, u2, u3

MCAccounts == {u1 :> "admin" @@ u2 :> "admin" @@ u3 :> "none",
               u1 :> "admin" @@ u2 :> "auditor" @@ u3 :> "none"}

MCRunOf == f1 :> r1 @@ f2 :> r1 @@ f3 :> r2
MCVerdict == f1 :> "Valid" @@ f2 :> "False Positive" @@ f3 :> "Inconclusive"
MCCoderStatus == f1 :> "Verified" @@ f2 :> "none" @@ f3 :> "Fail"

\* The labels with and without a pointer, and one pointer in capitals.
MCBodies == ({"true_positive", "false_positive"} \X {NoFinding} \X {TRUE})
            \cup ({"duplicate"} \X {f1, f2, f3} \X {TRUE})
            \cup {<<"duplicate", NoFinding, TRUE>>, <<"unlabeled", f1, TRUE>>, <<"duplicate", f1, FALSE>>}
MCBodyRecords == {[label |-> b[1], ptr |-> b[2], canonical |-> b[3]] : b \in MCBodies}

MCSymmetry == Permutations(Slots)

MCMaxRequests ==
    {"login", "password", "update", "disable", "enable", "reset"} :> 4
 @@ {"login", "logout", "create", "update", "delete"} :> 4
 @@ {"create_feedback", "update_feedback", "delete"} :> 3
 @@ {"create_feedback", "delete_run"} :> 3
 @@ {"delete_run", "cancel", "complete", "worker"} :> 3
MCWorkloads == DOMAIN MCMaxRequests
=============================================================================
