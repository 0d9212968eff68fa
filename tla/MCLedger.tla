----------------------------- MODULE MCLedger -----------------------------
(***************************************************************************)
(* A ledger of two stories with one task each: the first comes from the    *)
(* JSON files, the second from a reviewed plan or from operations.         *)
(***************************************************************************)
EXTENDS Ledger, TLC

CONSTANTS s1, s2, t1, t2

MCStories == {s1, s2}
MCTasks == {t1, t2}
MCHome == (t1 :> s1) @@ (t2 :> s2)
MCJson == {t1}
MCPlan == {t2}
Perms == Permutations(Managers)
=============================================================================
