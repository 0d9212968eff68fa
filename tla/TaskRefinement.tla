--------------------------- MODULE TaskRefinement ---------------------------
(***************************************************************************)
(* The queue of TaskQueue, with its crashes, fixes and recaptures, keeps   *)
(* the promise of TaskSpec.                                                *)
(***************************************************************************)
EXTENDS TaskQueue

\* What a row of the ledger is to a reader of the backlog.
StateOf(row) ==
    CASE row.status = "pending" -> "open"
      [] row.status = "in_progress" -> "running"
      [] row.status = "failed" /\ row.fixedBy = 0 -> "failed"
      [] row.status = "failed" /\ row.fixedBy # 0 -> "closed"
      [] row.status = "needs_review" -> "review"
      [] row.status = "done" -> "delivered"
      [] OTHER -> "absent"

HeirOf(t) == IF rows[t].fixedBy = 0 THEN t ELSE <<t[1], rows[t].fixedBy>>

Backlog == INSTANCE TaskSpec WITH
    Tasks <- Ids,
    Budget <- [t \in Ids |-> MaxOf(t)],
    Waits <- [t \in Ids |-> {<<d, 0>> : d \in Deps[t[1]]}],
    state <- [t \in Ids |-> StateOf(rows[t])],
    taken <- [t \in Ids |-> rows[t].attempts],
    heir <- [t \in Ids |-> HeirOf(t)]

\* executeTaskQueue, reconcileInterruptedTasks, recaptureTaskFailure and
\* CreateFailureRepair together: every step of the queue, of an attempt and of
\* a crash is a step of the backlog's promise, or none.
ImplementsTaskSpec == Backlog!Spec
=============================================================================
