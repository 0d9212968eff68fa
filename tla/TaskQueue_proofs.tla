-------------------------- MODULE TaskQueue_proofs --------------------------
(***************************************************************************)
(* What TLAPS proves of TaskQueue, for every ledger, scope, budget and     *)
(* number of processes and workers, and that the queue keeps the promise   *)
(* of TaskSpec.                                                            *)
(***************************************************************************)
EXTENDS TaskRefinement, FiniteSetTheorems, WellFoundedInduction, TLAPS

USE TaskQueueAssumption

\* Ids is not empty, so that CHOOSE picks one.
LEMMA SomeId == (CHOOSE t \in Ids : TRUE) \in Ids
<1>1. PICK r \in Roots : TRUE
  OBVIOUS
<1>2. <<r, 0>> \in Ids
  BY DEF Ids
<1> QED BY <1>2

\* No evidence is a value of its type.
LEMMA NoEvidenceType == NoEvidence \in Evidence
BY DEF NoEvidence, Evidence

\* An absent row is a row.
LEMMA BlankType == Blank \in Row
BY NoEvidenceType DEF Blank, Row, Status, Outcome

\* A started attempt, and no attempt, are attempts.
LEMMA StartedType ==
    ASSUME NEW t \in Ids, NEW n \in Nat, NEW b \in BOOLEAN
    PROVE  Started(t, n, b) \in Run
BY DEF Started, Run, RunStatus, RunEvent

\* No attempt is a value of its type.
LEMMA NoRunType == NoRun \in Run
<1>1. Started(CHOOSE t \in Ids : TRUE, 0, FALSE) \in Run
  BY SomeId, StartedType
<1> QED BY <1>1 DEF NoRun, Run, RunStatus, RunEvent

\* The ledger and the process before the first queue.
LEMMA InitType == Init => TypeOK
<1> SUFFICES ASSUME Init PROVE TypeOK
  OBVIOUS
<1>1. rows \in [Ids -> Row]
  BY BlankType DEF Init, Row, Status
<1>2. NoRun.task \in Ids
  BY NoRunType DEF Run
<1>3. worker \in [Workers -> [at : {"idle", "read", "over"}, task : Ids, row : Row]]
  BY BlankType, <1>2 DEF Init
<1>4. /\ fixes \in [Roots -> 0..MaxFixes]
      /\ steps \subseteq [task : Ids, attempt : Nat, diagnosed : BOOLEAN]
  BY DEF Init
<1>5. holder \in Procs \cup {NoProc} /\ shared \subseteq Procs
  BY DEF Init
<1>6. ctx \in BOOLEAN /\ processed \in BOOLEAN
  BY Zenon DEF Init
<1>7. pc \in PCs /\ resume \in {"top", "scan"} /\ result \in Results
  BY DEF Init, PCs, Results
<1>8. scan \subseteq Ids \X Nat /\ snap \in Row /\ run \in Run
  BY BlankType, NoRunType DEF Init
<1> QED
  BY <1>1, <1>3, <1>4, <1>5, <1>6, <1>7, <1>8, Zenon DEF TypeOK

----------------------------------------------------------------------------
(* The type invariant, in two halves: what is durable and what is not. *)

LedgerOK ==
    /\ rows \in [Ids -> Row]
    /\ fixes \in [Roots -> 0..MaxFixes]
    /\ steps \subseteq [task : Ids, attempt : Nat, diagnosed : BOOLEAN]

LockOK == holder \in Procs \cup {NoProc} /\ shared \subseteq Procs

LocalOK == /\ scan \subseteq Ids \X Nat
           /\ processed \in BOOLEAN
           /\ resume \in {"top", "scan"}
           /\ snap \in Row

WorkerOK ==
    worker \in [Workers -> [at : {"idle", "read", "over"}, task : Ids, row : Row]]

ControlOK == /\ pc \in PCs
             /\ ctx \in BOOLEAN
             /\ run \in Run
             /\ result \in Results

\* TypeOK is its five parts, in this state and in the next.
LEMMA TypeParts ==
    /\ TypeOK <=> LedgerOK /\ LockOK /\ LocalOK /\ WorkerOK /\ ControlOK
    /\ TypeOK' <=> LedgerOK' /\ LockOK' /\ LocalOK' /\ WorkerOK' /\ ControlOK'
BY Zenon DEF TypeOK, LedgerOK, LockOK, LocalOK, WorkerOK, ControlOK

\* What an action leaves alone keeps its type.
LEMMA Kept ==
    /\ LedgerOK /\ UNCHANGED ledger => LedgerOK'
    /\ LockOK /\ UNCHANGED locks => LockOK'
    /\ LocalOK /\ UNCHANGED local => LocalOK'
    /\ WorkerOK /\ UNCHANGED worker => WorkerOK'
<1>1. LedgerOK /\ UNCHANGED ledger => LedgerOK'
  BY DEF LedgerOK, ledger
<1>2. LockOK /\ UNCHANGED locks => LockOK'
  BY DEF LockOK, locks
<1>3. LocalOK /\ UNCHANGED local => LocalOK'
  BY Zenon DEF LocalOK, local
<1>4. WorkerOK /\ UNCHANGED worker => WorkerOK'
  BY DEF WorkerOK
<1> QED BY <1>1, <1>2, <1>3, <1>4

\* What a pass reads of the ledger.
LEMMA ListedType == ASSUME LedgerOK, NEW T, T \subseteq Ids PROVE Listed(T) \subseteq Ids \X Nat
<1> SUFFICES ASSUME NEW t \in T PROVE <<t, rows[t].evidence>> \in Ids \X Nat
  BY DEF Listed
<1>1. rows[t] \in Row
  BY DEF LedgerOK
<1>2. rows[t].evidence \in Nat
  BY <1>1 DEF Row
<1> QED BY <1>2

\* Every way out of the queue leaves a well-typed, unlocked process.
LEMMA ReturnType ==
    ASSUME TypeOK, NEW res \in Results, Return(res)
    PROVE  LockOK' /\ LocalOK' /\ WorkerOK' /\ ControlOK'
<1> USE TypeParts
<1>1. LockOK'
  BY DEF Return, LockOK
<1>2. processed' \in BOOLEAN /\ ctx' \in BOOLEAN
  BY Zenon DEF Return
<1>3. scan' \subseteq Ids \X Nat /\ resume' \in {"top", "scan"} /\ snap' \in Row
  BY BlankType DEF Return
<1>4. LocalOK'
  BY <1>2, <1>3, Zenon DEF LocalOK
<1>5. WorkerOK'
  BY Kept DEF Return
<1>6. pc' \in PCs /\ run' \in Run /\ result' \in Results
  BY NoRunType DEF Return, ControlOK, PCs
<1>7. ControlOK'
  BY <1>2, <1>6, Zenon DEF ControlOK
<1> QED BY <1>1, <1>4, <1>5, <1>7

\* Going on after a retained failure.
LEMMA GoOnType ==
    ASSUME TypeOK, NEW t \in Ids, NEW b \in BOOLEAN, GoOn(t, b)
    PROVE  LockOK' /\ LocalOK' /\ WorkerOK' /\ ControlOK'
<1> USE TypeParts
<1>1. LockOK' /\ WorkerOK'
  BY Kept DEF GoOn
<1>2. processed' \in BOOLEAN
  BY Zenon DEF GoOn, LocalOK
<1>3. scan' \subseteq Ids \X Nat /\ resume' \in {"top", "scan"} /\ snap' \in Row
  BY DEF GoOn, Visited, LocalOK
<1>4. LocalOK'
  BY <1>2, <1>3, Zenon DEF LocalOK
<1>5. ctx' \in BOOLEAN
  BY Zenon DEF GoOn, ControlOK
<1>6. pc' \in PCs /\ run' \in Run /\ result' \in Results
  BY NoRunType DEF GoOn, ControlOK, PCs
<1>7. ControlOK'
  BY <1>5, <1>6, Zenon DEF ControlOK
<1> QED BY <1>1, <1>4, <1>7

\* The store's transaction keeps the ledger well typed.
LEMMA RepairType ==
    ASSUME TypeOK, NEW t \in Ids, NEW ev \in Evidence, CreateFailureRepair(t, ev)
    PROVE  LedgerOK'
<1>1. LedgerOK
  BY TypeParts
<1>2. CASE UNCHANGED ledger
  BY <1>1, <1>2, Kept
<1>3. CASE InsertFix(t, ev)
  <2> DEFINE n == fixes[t[1]] + 1
             fix == [Blank EXCEPT !.status = "pending", !.fixOf = t[2], !.answers = ev]
  <2>1. t[1] \in Roots /\ t[2] \in 0..MaxFixes /\ n \in 0..MaxFixes
    BY <1>1, <1>3 DEF InsertFix, LedgerOK, Ids
  <2>2. <<t[1], n>> \in Ids
    BY <2>1 DEF Ids
  <2>3. fix \in Row
    BY <2>1, BlankType DEF Blank, Row, Status
  <2> DEFINE closed == IF rows[t].status = "failed" THEN [rows EXCEPT ![t].fixedBy = n]
                                                    ELSE rows
  <2>4. closed \in [Ids -> Row]
    BY <1>1, <2>1 DEF LedgerOK, Row
  <2>5. rows' \in [Ids -> Row]
    <3>1. rows' = [closed EXCEPT ![<<t[1], n>>] = fix]
      BY <1>3 DEF InsertFix
    <3> HIDE DEF closed, fix
    <3> QED BY <2>3, <2>4, <3>1
  <2> QED BY <1>1, <1>3, <2>1, <2>5 DEF InsertFix, LedgerOK
<1> QED BY <1>2, <1>3 DEF CreateFailureRepair

\* finish() keeps the ledger well typed.
LEMMA FinishType ==
    ASSUME TypeOK, NEW o \in Outcome, NEW s \in Status, Finish(o, s)
    PROVE  LedgerOK'
<1>1. LedgerOK /\ run.task \in Ids
  BY TypeParts DEF ControlOK, Run
<1>2. rows' \in [Ids -> Row]
  <2> DEFINE row == [rows[run.task] EXCEPT
                        !.status = s, !.recapture = o,
                        !.evidence = IF o = "success" THEN 0 ELSE @]
  <2>1. rows[run.task] \in Row
    BY <1>1 DEF LedgerOK
  <2>2. row \in Row
    BY <2>1 DEF Row
  <2>3. rows' = [rows EXCEPT ![run.task] = row]
    BY <1>1, <2>1 DEF Finish, LedgerOK, Row
  <2> HIDE DEF row
  <2> QED BY <1>1, <2>2, <2>3 DEF LedgerOK
<1> QED BY <1>1, <1>2 DEF Finish, LedgerOK

\* A stopped attempt is an attempt.
LEMMA StopType == ASSUME TypeOK PROVE StopRun(run) \in Run
BY TypeParts DEF StopRun, ControlOK, Run, RunStatus

\* The attempt's own steps.
LEMMA AttemptType == ASSUME TypeOK, AttemptStep PROVE TypeOK'
<1> USE TypeParts
<1>1. ASSUME NEW event \in {"complete", "plain", "check", "bare"},
             NEW why \in Reasons \cup {"none"}, PipelineEnds(event, why)
      PROVE  TypeOK'
  <2>1. LedgerOK' /\ LockOK' /\ LocalOK' /\ WorkerOK'
    BY <1>1, Kept DEF PipelineEnds
  <2>2. ControlOK'
    BY <1>1 DEF PipelineEnds, ControlOK, Run, RunEvent
  <2> QED BY <2>1, <2>2
<1>2. CASE RecordFailure
  <2>1. LockOK' /\ LocalOK' /\ WorkerOK'
    BY <1>2, Kept DEF RecordFailure
  <2>2. run.task \in Ids /\ run.attempt \in Nat
    BY DEF ControlOK, Run
  <2>3. \/ UNCHANGED <<rows, steps>>
        \/ /\ rows' = [rows EXCEPT ![run.task].status = "failed",
                                   ![run.task].evidence = run.attempt]
           /\ \E d \in BOOLEAN :
                 steps' = steps \cup {[task |-> run.task, attempt |-> run.attempt,
                                       diagnosed |-> d]}
    BY <1>2, Zenon DEF RecordFailure
  <2>4. rows' \in [Ids -> Row]
    <3>1. CASE UNCHANGED rows
      BY <3>1 DEF LedgerOK
    <3>2. CASE rows' = [rows EXCEPT ![run.task].status = "failed",
                                    ![run.task].evidence = run.attempt]
      BY <2>2, <3>2 DEF LedgerOK, Row, Status
    <3> QED BY <2>3, <3>1, <3>2
  <2>4a. steps' \subseteq [task : Ids, attempt : Nat, diagnosed : BOOLEAN]
    BY <2>2, <2>3 DEF LedgerOK
  <2>5. LedgerOK'
    BY <1>2, <2>4, <2>4a DEF RecordFailure, LedgerOK
  <2>6. ControlOK'
    BY <1>2 DEF RecordFailure, ControlOK, Run, RunEvent
  <2> QED BY <2>1, <2>5, <2>6
<1>3. CASE ConsumeEvent
  <2>1. LedgerOK' /\ LockOK' /\ LocalOK' /\ WorkerOK'
    BY <1>3, Kept DEF ConsumeEvent
  <2>2. ControlOK'
    BY <1>3 DEF ConsumeEvent, ControlOK, Run, RunEvent, RunStatus
  <2> QED BY <2>1, <2>2
<1>4. CASE RunnerEnds
  <2>1. LedgerOK' /\ LockOK' /\ LocalOK' /\ WorkerOK'
    BY <1>4, Kept DEF RunnerEnds
  <2>2. ControlOK'
    BY <1>4 DEF RunnerEnds, ControlOK, Run, RunStatus
  <2> QED BY <2>1, <2>2
<1> QED BY <1>1, <1>2, <1>3, <1>4 DEF AttemptStep

\* One row written whole.
LEMMA RowWritten ==
    ASSUME LedgerOK, NEW t \in Ids, NEW row \in Row,
           rows' = [rows EXCEPT ![t] = row], UNCHANGED <<fixes, steps>>
    PROVE  LedgerOK'
BY DEF LedgerOK

\* One row whose status changes, alone or with its recapture outcome.
LEMMA StatusWritten ==
    ASSUME LedgerOK, NEW t \in Ids, NEW s \in Status,
           rows' = [rows EXCEPT ![t].status = s], UNCHANGED <<fixes, steps>>
    PROVE  LedgerOK'
<1>1. rows' \in [Ids -> Row]
  BY DEF LedgerOK, Row
<1> QED BY <1>1 DEF LedgerOK

\* One row whose status and recapture outcome change.
LEMMA OutcomeWritten ==
    ASSUME LedgerOK, NEW t \in Ids, NEW s \in Status, NEW o \in Outcome,
           rows' = [rows EXCEPT ![t].status = s, ![t].recapture = o],
           UNCHANGED <<fixes, steps>>
    PROVE  LedgerOK'
<1> DEFINE row == [rows[t] EXCEPT !.status = s, !.recapture = o]
<1>1. rows[t] \in Row
  BY DEF LedgerOK
<1>2. row \in Row
  BY <1>1 DEF Row
<1>3. rows' = [rows EXCEPT ![t] = row]
  OBVIOUS
<1> HIDE DEF row
<1> QED BY <1>2, <1>3, RowWritten

\* The queue's own steps.
LEMMA QueueType == ASSUME TypeOK, QueueStep PROVE TypeOK'
<1> USE TypeParts
<1> run.task \in Ids /\ rows[run.task] \in Row /\ run.attempt \in Nat /\ snap \in Row
  BY DEF ControlOK, Run, LedgerOK, LocalOK
<1>1. ASSUME NEW s \in scan, Reconcile(s[1])
      PROVE  TypeOK'
  <2> DEFINE t == s[1]
  <2>1. LockOK' /\ WorkerOK'
    BY <1>1, Kept DEF Reconcile
  <2>2. LedgerOK'
    <3>1. t \in Ids
      BY DEF LocalOK
    <3>2. rows[t].status \in Status
      BY <3>1 DEF LedgerOK, Row
    <3>3. ReconciledStatus(t) \in Status
      BY <3>2 DEF ReconciledStatus, Status
    <3> QED BY <1>1, <3>1, <3>3, StatusWritten DEF Reconcile
  <2>3. LocalOK'
    BY <1>1 DEF Reconcile, Visited, LocalOK
  <2>4. ControlOK'
    BY <1>1 DEF Reconcile, ControlOK, PCs
  <2> QED BY <2>1, <2>2, <2>3, <2>4
<1>2. CASE Reconciled
  <2>1. LedgerOK' /\ LockOK' /\ LocalOK' /\ WorkerOK'
    BY <1>2, Kept DEF Reconciled
  <2>2. ControlOK'
    BY <1>2 DEF Reconciled, ControlOK, PCs
  <2> QED BY <2>1, <2>2
<1>3. CASE Yield
  <2>1. LedgerOK'
    BY <1>3, Kept DEF Yield
  <2> QED BY <1>3, <2>1, ReturnType DEF Yield, Results
<1>4. CASE Pass
  <2>1. LedgerOK' /\ LockOK' /\ WorkerOK'
    BY <1>4, Kept DEF Pass
  <2>2. LocalOK'
    <3>1. scan' \subseteq Ids \X Nat
      BY <1>4, ListedType DEF Pass, Scoped
    <3>2. processed' \in BOOLEAN
      BY <1>4, Zenon DEF Pass
    <3>3. resume' \in {"top", "scan"} /\ snap' \in Row
      BY <1>4 DEF Pass, LocalOK
    <3> QED BY <3>1, <3>2, <3>3, Zenon DEF LocalOK
  <2>3. ControlOK'
    BY <1>4 DEF Pass, ControlOK, PCs
  <2> QED BY <2>1, <2>2, <2>3
<1>5. CASE PassDone
  <2>1. LedgerOK' /\ LockOK' /\ LocalOK' /\ WorkerOK'
    BY <1>5, Kept DEF PassDone
  <2>2. ControlOK'
    BY <1>5 DEF PassDone, ControlOK, PCs
  <2> QED BY <2>1, <2>2
<1>6. CASE PassCancelled
  <2>1. LedgerOK'
    BY <1>6, Kept DEF PassCancelled
  <2> QED BY <1>6, <2>1, ReturnType DEF PassCancelled, Results
<1>7. ASSUME NEW t \in Ids, RepairFromReceipt(t)
      PROVE  TypeOK'
  <2> DEFINE ev == [kind |-> "check", attempt |-> EvidenceOf(t), why |-> "none"]
  <2>1. EvidenceOf(t) \in Nat
    BY <1>7 DEF RepairFromReceipt, Retained, EvidenceOf, LocalOK, ControlOK, Run
  <2>2. ev \in Evidence
    BY <2>1 DEF Evidence
  <2>3. CASE CreateFailureRepair(t, ev) /\ GoOn(t, TRUE)
    BY <2>2, <2>3, RepairType, GoOnType
  <2>4. CASE Return("error") /\ UNCHANGED ledger
    BY <2>4, Kept, ReturnType DEF Results
  <2> QED BY <1>7, <2>3, <2>4 DEF RepairFromReceipt
<1>8. ASSUME NEW t \in Ids, RecaptureReview(t)
      PROVE  TypeOK'
  <2>1. \E o \in Outcome : rows' = [rows EXCEPT ![t].status = "needs_review",
                                               ![t].recapture = o]
    <3> DEFINE o == CASE t[1] \in Hitl -> "refused"
                      [] rows[t].attempts >= MaxOf(t) -> "exhausted"
                      [] OTHER -> "unresolved"
    <3>1. o \in Outcome
      BY DEF Outcome
    <3>2. rows' = [rows EXCEPT ![t].status = "needs_review", ![t].recapture = o]
      BY <1>8 DEF RecaptureReview
    <3> QED BY <3>1, <3>2
  <2>2. LedgerOK'
    BY <1>8, <2>1, OutcomeWritten DEF RecaptureReview, Status
  <2> QED BY <1>8, <2>2, ReturnType DEF RecaptureReview, Results
<1>9. ASSUME NEW t \in Ids, RecaptureWaits(t)
      PROVE  TypeOK'
  <2>1. LedgerOK'
    BY <1>9, Kept DEF RecaptureWaits
  <2>2. GoOn(t, FALSE) \/ Return("error")
    BY <1>9 DEF RecaptureWaits
  <2> QED BY <2>1, <2>2, GoOnType, ReturnType DEF Results
<1>10. ASSUME NEW t \in Ids, RecaptureClaim(t)
      PROVE  TypeOK'
  <2>1. LockOK' /\ WorkerOK'
    BY <1>10, Kept DEF RecaptureClaim
  <2>2. rows' \in [Ids -> Row]
    BY <1>10 DEF RecaptureClaim, LedgerOK, Row, Status, Outcome
  <2>3. LedgerOK'
    BY <1>10, <2>2 DEF RecaptureClaim, LedgerOK
  <2>4. LocalOK'
    BY <1>10 DEF RecaptureClaim, Visited, LocalOK
  <2>5. ControlOK'
    BY <1>10, NoRunType DEF RecaptureClaim, ControlOK, PCs, Run
  <2> QED BY <2>1, <2>3, <2>4, <2>5
<1>11. ASSUME NEW t \in Ids, Pick(t)
      PROVE  TypeOK'
  <2>1. LedgerOK' /\ LockOK' /\ WorkerOK'
    BY <1>11, Kept DEF Pick
  <2>2. LocalOK'
    BY <1>11 DEF Pick, LocalOK, LedgerOK
  <2>3. ControlOK'
    BY <1>11, NoRunType DEF Pick, ControlOK, PCs, Run
  <2> QED BY <2>1, <2>2, <2>3
<1>12. CASE Drained
  <2>1. LedgerOK'
    BY <1>12, Kept DEF Drained
  <2> QED BY <1>12, <2>1, ReturnType DEF Drained, Results
<1>13. CASE Claim
  <2>1. LockOK' /\ WorkerOK'
    BY <1>13, Kept DEF Claim
  <2>2. [snap EXCEPT !.status = "in_progress", !.attempts = @ + 1, !.evidence = 0] \in Row
    <3>1. snap.attempts + 1 \in Nat
      BY DEF Row
    <3> DEFINE n == snap.attempts + 1
    <3> HIDE DEF n
    <3>2. [snap EXCEPT !.status = "in_progress", !.attempts = n, !.evidence = 0] \in Row
      BY <3>1 DEF Row, Status, n
    <3> QED BY <3>2, Zenon DEF n
  <2>3. LedgerOK'
    BY <1>13, <2>2, RowWritten DEF Claim
  <2>4. LocalOK'
    BY <1>13, BlankType DEF Claim, LocalOK
  <2>5. ControlOK'
    BY <1>13 DEF Claim, ControlOK, PCs
  <2> QED BY <2>1, <2>3, <2>4, <2>5
<1>14. CASE Start
  <2>1. LedgerOK' /\ LockOK' /\ LocalOK' /\ WorkerOK'
    BY <1>14, Kept DEF Start
  <2>2. rows[run.task].attempts \in Nat /\ run.recap \in BOOLEAN
    BY DEF Row, ControlOK, Run
  <2>3. run' \in Run
    BY <1>14, <2>2, StartedType DEF Start
  <2>4. ControlOK'
    BY <1>14, <2>3 DEF Start, ControlOK, PCs
  <2> QED BY <2>1, <2>4
<1>15. CASE StartRefused
  <2>1. \E s \in Status, o \in Outcome :
           rows' = [rows EXCEPT ![run.task].status = s, ![run.task].recapture = o]
    <3>1. rows[run.task].recapture \in Outcome
      BY DEF Row
    <3> QED BY <1>15, <3>1 DEF StartRefused, Status, Outcome
  <2>2. LedgerOK'
    BY <1>15, <2>1, OutcomeWritten DEF StartRefused
  <2> QED BY <1>15, <2>2, ReturnType DEF StartRefused, Results
<1>16. CASE WaitOver
  <2>1. LedgerOK' /\ LockOK' /\ LocalOK' /\ WorkerOK'
    BY <1>16, Kept DEF WaitOver
  <2>2. ControlOK'
    BY <1>16 DEF WaitOver, ControlOK, PCs
  <2> QED BY <2>1, <2>2
<1>17. CASE WaitPaused
  <2>1. LedgerOK' /\ LockOK' /\ LocalOK' /\ WorkerOK'
    BY <1>17, Kept DEF WaitPaused
  <2>2. ControlOK'
    BY <1>17 DEF WaitPaused, ControlOK, PCs
  <2> QED BY <2>1, <2>2
<1>18. CASE StopPaused
  <2>1. LedgerOK' /\ LockOK' /\ LocalOK' /\ WorkerOK'
    BY <1>18, Kept DEF StopPaused
  <2>2. ControlOK'
    BY <1>18, StopType DEF StopPaused, ControlOK, PCs
  <2> QED BY <2>1, <2>2
<1>19. CASE PauseDrained
  <2>1. LockOK' /\ LocalOK' /\ WorkerOK'
    BY <1>19, Kept DEF PauseDrained
  <2>2. LedgerOK'
    <3>1. CASE rows' = rows
      BY <1>19, <3>1, Kept DEF PauseDrained, ledger
    <3>2. CASE rows' = [rows EXCEPT ![run.task].status = "needs_review"]
      BY <1>19, <3>2, StatusWritten DEF PauseDrained, Status
    <3> QED BY <1>19, <3>1, <3>2 DEF PauseDrained
  <2>3. ControlOK'
    BY <1>19 DEF PauseDrained, ControlOK, PCs
  <2> QED BY <2>1, <2>2, <2>3
<1>20. CASE LeaveInterrupted
  <2>1. LedgerOK'
    BY <1>20, Kept DEF LeaveInterrupted
  <2> QED BY <1>20, <2>1, ReturnType DEF LeaveInterrupted, Results
<1>21. CASE MarkFailedRead
  <2>1. LedgerOK' /\ LockOK' /\ WorkerOK'
    BY <1>21, Kept DEF MarkFailedRead
  <2>2. LocalOK'
    BY <1>21 DEF MarkFailedRead, LocalOK
  <2>3. ControlOK'
    BY <1>21 DEF MarkFailedRead, ControlOK, PCs
  <2> QED BY <2>1, <2>2, <2>3
<1>22. CASE MarkFailedWrite
  <2>1. LockOK' /\ WorkerOK'
    BY <1>22, Kept DEF MarkFailedWrite
  <2>2. [snap EXCEPT !.status = "failed"] \in Row
    BY DEF Row, Status
  <2>3. LedgerOK'
    BY <1>22, <2>2, RowWritten DEF MarkFailedWrite
  <2>4. LocalOK'
    BY <1>22, BlankType DEF MarkFailedWrite, LocalOK
  <2>5. ControlOK'
    BY <1>22, NoRunType DEF MarkFailedWrite, ControlOK, PCs
  <2> QED BY <2>1, <2>3, <2>4, <2>5
<1>23. CASE ProviderStop
  <2> DEFINE ev == [kind |-> "provider", attempt |-> rows[run.task].attempts,
                    why |-> run.why]
  <2>1. ev \in Evidence
    BY DEF Evidence, Row, ControlOK, Run
  <2>2. CASE CreateFailureRepair(run.task, ev) /\ GoOn(run.task, FALSE)
    BY <2>1, <2>2, RepairType, GoOnType
  <2>3. CASE Return("error") /\ UNCHANGED ledger
    BY <2>3, Kept, ReturnType DEF Results
  <2>4. CASE GoOn(run.task, FALSE) /\ UNCHANGED ledger
    BY <2>4, Kept, GoOnType
  <2> QED BY <1>23, <2>2, <2>3, <2>4 DEF ProviderStop
<1>24. CASE CompleteRead
  <2>1. LedgerOK'
    BY <1>24, Kept DEF CompleteRead
  <2>2. CASE rows[run.task].status = "failed"
    BY <1>24, <2>1, <2>2, ReturnType DEF CompleteRead, Results
  <2>3. CASE rows[run.task].status # "failed"
    <3>1. LockOK' /\ WorkerOK'
      BY <1>24, <2>3, Kept DEF CompleteRead
    <3>2. LocalOK'
      BY <1>24, <2>3, BlankType DEF CompleteRead, LocalOK
    <3>3. ControlOK'
      BY <1>24, <2>3, NoRunType DEF CompleteRead, ControlOK, PCs
    <3> QED BY <2>1, <3>1, <3>2, <3>3
  <2> QED BY <2>2, <2>3
<1>25. CASE CompleteWrite
  <2>1. LockOK' /\ WorkerOK'
    BY <1>25, Kept DEF CompleteWrite
  <2>2. [snap EXCEPT !.status = "done"] \in Row
    BY DEF Row, Status
  <2>3. LedgerOK'
    BY <1>25, <2>2, RowWritten DEF CompleteWrite
  <2>4. LocalOK'
    BY <1>25, BlankType DEF CompleteWrite, LocalOK
  <2>5. ControlOK'
    BY <1>25, NoRunType DEF CompleteWrite, ControlOK, PCs
  <2> QED BY <2>1, <2>3, <2>4, <2>5
<1>26. CASE CompleteRefused
  <2>1. LedgerOK'
    BY <1>26, Kept DEF CompleteRefused
  <2> QED BY <1>26, <2>1, ReturnType DEF CompleteRefused, Results
<1>27. CASE RecapturePassed
  <2>1. LedgerOK'
    BY <1>27, FinishType DEF RecapturePassed, Outcome, Status
  <2>2. LockOK' /\ WorkerOK'
    BY <1>27, Kept DEF RecapturePassed, RecaptureResumes
  <2>3. LocalOK'
    BY <1>27 DEF RecapturePassed, RecaptureResumes, LocalOK
  <2>4. ControlOK'
    BY <1>27, NoRunType DEF RecapturePassed, RecaptureResumes, ControlOK, LocalOK, PCs
  <2> QED BY <2>1, <2>2, <2>3, <2>4
<1>28. CASE RecaptureFailed
  <2>1. LedgerOK'
    BY <1>28, FinishType DEF RecaptureFailed, Outcome, Status
  <2>2. LockOK' /\ LocalOK' /\ WorkerOK'
    BY <1>28, Kept DEF RecaptureFailed
  <2>3. ControlOK'
    BY <1>28 DEF RecaptureFailed, ControlOK, PCs
  <2> QED BY <2>1, <2>2, <2>3
<1>29. CASE RecaptureRetry
  <2>1. LedgerOK'
    BY <1>29, Kept DEF RecaptureRetry
  <2>2. LockOK' /\ WorkerOK'
    BY <1>29, Kept DEF RecaptureRetry, RecaptureResumes
  <2>3. LocalOK'
    BY <1>29 DEF RecaptureRetry, RecaptureResumes, LocalOK
  <2>4. ControlOK'
    BY <1>29, NoRunType DEF RecaptureRetry, RecaptureResumes, ControlOK, LocalOK, PCs
  <2> QED BY <2>1, <2>2, <2>3, <2>4
<1>30. CASE RecaptureExhausted
  <2>1. LedgerOK'
    BY <1>30, FinishType DEF RecaptureExhausted, Outcome, Status
  <2> QED BY <1>30, <2>1, ReturnType DEF RecaptureExhausted, Results
<1>31. CASE RecaptureAbandoned
  <2>1. LedgerOK'
    BY <1>31, FinishType DEF RecaptureAbandoned, Outcome, Status
  <2> QED BY <1>31, <2>1, ReturnType DEF RecaptureAbandoned, Results
<1>32. CASE RecaptureDisowned
  <2>1. LedgerOK'
    BY <1>32, Kept DEF RecaptureDisowned
  <2> QED BY <1>32, <2>1, ReturnType DEF RecaptureDisowned, Results
<1> QED
  BY <1>1, <1>2, <1>3, <1>4, <1>5, <1>6, <1>7, <1>8, <1>9, <1>10, <1>11,
     <1>12, <1>13, <1>14, <1>15, <1>16, <1>17, <1>18, <1>19, <1>20, <1>21,
     <1>22, <1>23, <1>24, <1>25, <1>26, <1>27, <1>28, <1>29, <1>30, <1>31,
     <1>32
  DEF QueueStep

\* The steps of everyone else.
LEMMA EnvironmentType == ASSUME TypeOK, Environment PROVE TypeOK'
<1> USE TypeParts
<1>1. ASSUME NEW p \in Procs, Acquire(p) PROVE TypeOK'
  <2>1. LedgerOK' /\ WorkerOK'
    BY <1>1, Kept DEF Acquire
  <2>2. LockOK'
    BY <1>1 DEF Acquire, LockOK
  <2>3. LocalOK'
    <3>1. scan' \subseteq Ids \X Nat
      BY <1>1, ListedType DEF Acquire, Scoped
    <3> QED BY <1>1, <3>1 DEF Acquire, LocalOK
  <2>4. ctx' \in BOOLEAN
    BY <1>1, Zenon DEF Acquire
  <2>5. pc' \in PCs /\ run' \in Run /\ result' \in Results
    BY <1>1 DEF Acquire, ControlOK, PCs, Results
  <2> QED BY <2>1, <2>2, <2>3, <2>4, <2>5, Zenon DEF ControlOK
<1>2. ASSUME NEW p \in Procs, StartShared(p) \/ EndShared(p) PROVE TypeOK'
  <2>1. LedgerOK' /\ LocalOK' /\ WorkerOK'
    BY <1>2, Kept DEF StartShared, EndShared
  <2>2. LockOK'
    BY <1>2 DEF StartShared, EndShared, LockOK
  <2>3. ControlOK'
    BY <1>2 DEF StartShared, EndShared, ControlOK
  <2> QED BY <2>1, <2>2, <2>3
<1>3. CASE Crash
  <2>1. LedgerOK' /\ WorkerOK'
    BY <1>3, Kept DEF Crash
  <2>2. LockOK'
    BY <1>3 DEF Crash, LockOK
  <2>3. processed' \in BOOLEAN /\ ctx' \in BOOLEAN
    BY <1>3, Zenon DEF Crash
  <2>4. scan' \subseteq Ids \X Nat /\ resume' \in {"top", "scan"} /\ snap' \in Row
    BY <1>3, BlankType DEF Crash
  <2>5. pc' \in PCs /\ run' \in Run /\ result' \in Results
    BY <1>3, NoRunType DEF Crash, PCs, Results
  <2> QED BY <2>1, <2>2, <2>3, <2>4, <2>5, Zenon DEF LocalOK, ControlOK
<1>4. CASE CancelQueue
  <2>1. LedgerOK' /\ LockOK' /\ LocalOK' /\ WorkerOK'
    BY <1>4, Kept DEF CancelQueue
  <2>2. ctx' \in BOOLEAN
    BY <1>4, Zenon DEF CancelQueue
  <2>3. pc' \in PCs /\ run' \in Run /\ result' \in Results
    BY <1>4 DEF CancelQueue, ControlOK
  <2> QED BY <2>1, <2>2, <2>3, Zenon DEF ControlOK
<1>5. CASE OwnerStop \/ OwnerPause
  <2>1. LedgerOK' /\ LockOK' /\ LocalOK' /\ WorkerOK'
    BY <1>5, Kept DEF OwnerStop, OwnerPause
  <2>2. run' \in Run
    BY <1>5, StopType DEF OwnerStop, OwnerPause, ControlOK, Run, RunStatus
  <2>3. ControlOK'
    BY <1>5, <2>2 DEF OwnerStop, OwnerPause, ControlOK
  <2> QED BY <2>1, <2>3
<1>6. ASSUME NEW t \in Ids, NEW e \in FindingIds, Finding(t, e) PROVE TypeOK'
  <2>1. LockOK' /\ LocalOK' /\ WorkerOK'
    BY <1>6, Kept DEF Finding
  <2>2. [kind |-> "finding", attempt |-> 0, why |-> e] \in Evidence
    BY DEF Evidence
  <2>3. LedgerOK'
    BY <1>6, <2>2, RepairType DEF Finding
  <2>4. ControlOK'
    BY <1>6 DEF Finding, ControlOK
  <2> QED BY <2>1, <2>3, <2>4
<1>7. ASSUME NEW w \in Workers, NEW t \in Ids, WorkerRead(w, t) PROVE TypeOK'
  <2>1. LedgerOK' /\ LockOK' /\ LocalOK'
    BY <1>7, Kept DEF WorkerRead
  <2>2. rows[t] \in Row
    BY DEF LedgerOK
  <2>3. WorkerOK'
    BY <1>7, <2>2 DEF WorkerRead, WorkerOK
  <2>4. ControlOK'
    BY <1>7 DEF WorkerRead, ControlOK
  <2> QED BY <2>1, <2>3, <2>4
<1>8. ASSUME NEW w \in Workers, WorkerWrite(w) \/ WorkerRefused(w) PROVE TypeOK'
  <2>1. LockOK' /\ LocalOK'
    BY <1>8, Kept DEF WorkerWrite, WorkerRefused
  <2>2. worker[w].task \in Ids /\ worker[w].row \in Row
    BY DEF WorkerOK
  <2>3. WorkerOK'
    <3> DEFINE over == [worker[w] EXCEPT !.at = "over", !.row = Blank]
    <3>1. worker' = [worker EXCEPT ![w] = over]
      BY <1>8 DEF WorkerWrite, WorkerRefused, WorkerOK
    <3>2. over \in [at : {"idle", "read", "over"}, task : Ids, row : Row]
      BY BlankType DEF WorkerOK
    <3> HIDE DEF over
    <3> QED BY <3>1, <3>2 DEF WorkerOK
  <2>4. [worker[w].row EXCEPT !.status = "done"] \in Row
    BY <2>2 DEF Row, Status
  <2>5. LedgerOK'
    BY <1>8, <2>2, <2>4, Kept, RowWritten DEF WorkerWrite, WorkerRefused
  <2>6. ControlOK'
    BY <1>8 DEF WorkerWrite, WorkerRefused, ControlOK
  <2> QED BY <2>1, <2>3, <2>5, <2>6
<1> QED BY <1>1, <1>2, <1>3, <1>4, <1>5, <1>6, <1>7, <1>8 DEF Environment

\* A step that changes nothing.
LEMMA StutterType == ASSUME TypeOK, UNCHANGED vars PROVE TypeOK'
<1> USE TypeParts
<1>1. LedgerOK' /\ LockOK' /\ LocalOK' /\ WorkerOK'
  BY Kept DEF vars, ledger, locks, local
<1>2. ControlOK'
  BY DEF vars, ControlOK
<1> QED BY <1>1, <1>2

\* Every state the queue, its attempt, a crash, another process or another
\* release manager can reach has rows, locks and locals of their types.
THEOREM TypeCorrect == Spec => []TypeOK
<1>1. TypeOK /\ [Next]_vars => TypeOK'
  BY AttemptType, QueueType, EnvironmentType, StutterType DEF Next
<1> QED BY <1>1, InitType, PTL DEF Spec

----------------------------------------------------------------------------
(* The workspace has one writer *)

\* What makes OneWriter inductive: an attempt runs only while its queue waits
\* for it, and a queue that is anywhere in executeTaskQueue holds the lock.
Waiting == {"wait", "paused", "drain"}
Ownership == /\ run.live => pc \in Waiting
             /\ pc # "idle" => holder # NoProc
             /\ holder # NoProc => shared = {}

\* The strengthening implies the property.
LEMMA OwnershipGives == Ownership => OneWriter
BY DEF Ownership, OneWriter, Waiting

\* No way out of the queue is taken while its attempt runs.
LEMMA ReturnOwnership ==
    ASSUME TypeOK, Ownership, pc \notin Waiting, NEW res, Return(res)
    PROVE  Ownership'
<1>1. run' = NoRun
  BY DEF Ownership, Return
<1>2. ~NoRun.live
  BY DEF NoRun, Started
<1> QED BY <1>1, <1>2 DEF Ownership, Return

\* A step of the loop that leaves the locks alone and starts nothing.
LEMMA LoopOwnership ==
    ASSUME TypeOK, Ownership, pc # "idle", UNCHANGED locks,
           run'.live => pc' \in Waiting
    PROVE  Ownership'
BY DEF Ownership, locks

\* No attempt is not a running one, and going on after a failure starts none.
LEMMA NoRunDead == ~NoRun.live
BY DEF NoRun, Started

\* Going on with the next retained failure starts no attempt.
LEMMA GoOnOwnership ==
    ASSUME TypeOK, Ownership, pc # "idle", NEW t, NEW b, GoOn(t, b)
    PROVE  Ownership'
BY NoRunDead, LoopOwnership DEF GoOn, locks

\* No step of the queue leaves the lock while its attempt runs.
LEMMA QueueOwnership == ASSUME TypeOK, Ownership, QueueStep PROVE Ownership'
<1>1. ASSUME NEW s \in scan, Reconcile(s[1]) PROVE Ownership'
  BY <1>1, LoopOwnership DEF Reconcile, Ownership, Waiting, locks
<1>2. CASE Reconciled
  BY <1>2, LoopOwnership DEF Reconciled, Ownership, Waiting, locks
<1>3. CASE Yield
  BY <1>3, ReturnOwnership DEF Yield, Waiting
<1>4. CASE Pass
  BY <1>4, LoopOwnership DEF Pass, Ownership, Waiting, locks
<1>5. CASE PassDone
  BY <1>5, LoopOwnership DEF PassDone, Ownership, Waiting, locks
<1>6. CASE PassCancelled
  BY <1>6, ReturnOwnership DEF PassCancelled, Waiting
<1>7. ASSUME NEW t \in Ids, RepairFromReceipt(t) PROVE Ownership'
  BY <1>7, ReturnOwnership, GoOnOwnership DEF RepairFromReceipt, Retained, Waiting
<1>8. ASSUME NEW t \in Ids, RecaptureReview(t) PROVE Ownership'
  BY <1>8, ReturnOwnership DEF RecaptureReview, Waiting, Recapturable, Retained
<1>9. ASSUME NEW t \in Ids, RecaptureWaits(t) PROVE Ownership'
  BY <1>9, ReturnOwnership, GoOnOwnership DEF RecaptureWaits, Recapturable, Retained, Waiting
<1>10. ASSUME NEW t \in Ids, RecaptureClaim(t) PROVE Ownership'
  BY <1>10, LoopOwnership, NoRunDead DEF RecaptureClaim, Ownership, Waiting, locks, Recapturable, Retained
<1>11. ASSUME NEW t \in Ids, Pick(t) PROVE Ownership'
  BY <1>11, LoopOwnership, NoRunDead DEF Pick, Ownership, Waiting, locks
<1>12. CASE Drained
  BY <1>12, ReturnOwnership DEF Drained, Waiting
<1>13. CASE Claim
  BY <1>13, LoopOwnership DEF Claim, Ownership, Waiting, locks
<1>14. CASE Start
  BY <1>14, LoopOwnership DEF Start, Ownership, Waiting, locks, Started
<1>15. CASE StartRefused
  BY <1>15, ReturnOwnership DEF StartRefused, Waiting
<1>16. CASE WaitOver
  BY <1>16, LoopOwnership DEF WaitOver, Ownership, Waiting, locks
<1>17. CASE WaitPaused
  BY <1>17, LoopOwnership DEF WaitPaused, Ownership, Waiting, locks
<1>18. CASE StopPaused
  BY <1>18, LoopOwnership DEF StopPaused, Ownership, Waiting, locks, StopRun
<1>19. CASE PauseDrained
  BY <1>19, LoopOwnership DEF PauseDrained, Ownership, Waiting, locks
<1>20. CASE LeaveInterrupted
  BY <1>20, ReturnOwnership DEF LeaveInterrupted, Waiting
<1>21. CASE MarkFailedRead
  BY <1>21, LoopOwnership DEF MarkFailedRead, Ownership, Waiting, locks
<1>22. CASE MarkFailedWrite
  BY <1>22, LoopOwnership DEF MarkFailedWrite, Ownership, Waiting, locks
<1>23. CASE ProviderStop
  BY <1>23, ReturnOwnership, GoOnOwnership DEF ProviderStop, Waiting
<1>24. CASE CompleteRead
  <2>1. CASE rows[run.task].status = "failed"
    BY <1>24, <2>1, ReturnOwnership DEF CompleteRead, Waiting
  <2>2. CASE rows[run.task].status # "failed"
    BY <1>24, <2>2, LoopOwnership, NoRunDead DEF CompleteRead, Ownership, Waiting, locks
  <2> QED BY <2>1, <2>2
<1>25. CASE CompleteWrite
  BY <1>25, LoopOwnership, NoRunDead DEF CompleteWrite, Ownership, Waiting, locks
<1>26. CASE CompleteRefused
  BY <1>26, ReturnOwnership DEF CompleteRefused, Waiting
<1>27. CASE RecapturePassed
  BY <1>27, LoopOwnership, NoRunDead DEF RecapturePassed, Ownership, Waiting, locks, RecaptureResumes
<1>28. CASE RecaptureFailed
  BY <1>28, LoopOwnership DEF RecaptureFailed, Ownership, Waiting, locks
<1>29. CASE RecaptureRetry
  BY <1>29, LoopOwnership, NoRunDead DEF RecaptureRetry, Ownership, Waiting, locks, RecaptureResumes
<1>30. CASE RecaptureExhausted
  BY <1>30, ReturnOwnership DEF RecaptureExhausted, Waiting
<1>31. CASE RecaptureAbandoned
  BY <1>31, ReturnOwnership DEF RecaptureAbandoned, Waiting
<1>32. CASE RecaptureDisowned
  BY <1>32, ReturnOwnership DEF RecaptureDisowned, Waiting
<1> QED
  BY <1>1, <1>2, <1>3, <1>4, <1>5, <1>6, <1>7, <1>8, <1>9, <1>10, <1>11,
     <1>12, <1>13, <1>14, <1>15, <1>16, <1>17, <1>18, <1>19, <1>20, <1>21,
     <1>22, <1>23, <1>24, <1>25, <1>26, <1>27, <1>28, <1>29, <1>30, <1>31,
     <1>32
  DEF QueueStep

\* The attempt ends by itself; the environment starts one by no step, takes
\* the lock only when it is free and crashes with all its goroutines.
LEMMA AttemptOwnership == ASSUME TypeOK, Ownership, AttemptStep PROVE Ownership'
<1>1. UNCHANGED <<pc, holder, shared>> /\ (run'.live => run.live)
  <2>1. run \in Run
    BY TypeParts DEF ControlOK
  <2>2. ASSUME NEW event, NEW why, PipelineEnds(event, why)
        PROVE  UNCHANGED <<pc, holder, shared>> /\ (run'.live => run.live)
    BY <2>1, <2>2 DEF PipelineEnds, locks, Run
  <2>3. CASE RecordFailure
    BY <2>1, <2>3 DEF RecordFailure, locks, Run
  <2>4. CASE ConsumeEvent
    BY <2>1, <2>4 DEF ConsumeEvent, locks, Run
  <2>5. CASE RunnerEnds
    BY <2>1, <2>5 DEF RunnerEnds, locks, Run
  <2> QED BY <2>2, <2>3, <2>4, <2>5 DEF AttemptStep
<1> QED BY <1>1 DEF Ownership

\* Whoever else acts takes the lock only when it is free.
LEMMA EnvironmentOwnership == ASSUME TypeOK, Ownership, Environment PROVE Ownership'
<1>1. ASSUME NEW p \in Procs, Acquire(p) PROVE Ownership'
  BY <1>1 DEF Acquire, Ownership, Waiting
<1>2. ASSUME NEW p \in Procs, StartShared(p) \/ EndShared(p) PROVE Ownership'
  BY <1>2 DEF StartShared, EndShared, Ownership
<1>3. CASE Crash
  BY <1>3, NoRunDead DEF Crash, Ownership
<1>4. CASE CancelQueue
  BY <1>4 DEF CancelQueue, Ownership, locks
<1>5. CASE OwnerStop \/ OwnerPause
  <2>1. run \in Run
    BY TypeParts DEF ControlOK
  <2>2. UNCHANGED <<pc, holder, shared>> /\ (run'.live => run.live)
    BY <1>5, <2>1 DEF OwnerStop, OwnerPause, StopRun, locks, Run
  <2> QED BY <2>2 DEF Ownership
<1>6. ASSUME NEW t \in Ids, NEW e \in FindingIds, Finding(t, e) PROVE Ownership'
  BY <1>6 DEF Finding, Ownership, locks
<1>7. ASSUME NEW w \in Workers, NEW t \in Ids, WorkerRead(w, t) PROVE Ownership'
  BY <1>7 DEF WorkerRead, Ownership, locks
<1>8. ASSUME NEW w \in Workers, WorkerWrite(w) \/ WorkerRefused(w) PROVE Ownership'
  BY <1>8 DEF WorkerWrite, WorkerRefused, Ownership, locks
<1> QED BY <1>1, <1>2, <1>3, <1>4, <1>5, <1>6, <1>7, <1>8 DEF Environment

\* What makes OneWriter inductive holds of every reachable state.
LEMMA OwnershipAlways == Spec => []Ownership
<1>1. Init => Ownership
  BY NoRunDead DEF Init, Ownership
<1>2. TypeOK /\ Ownership /\ [Next]_vars => Ownership'
  <2>1. TypeOK /\ Ownership /\ UNCHANGED vars => Ownership'
    BY DEF vars, Ownership
  <2> QED BY <2>1, QueueOwnership, AttemptOwnership, EnvironmentOwnership DEF Next
<1> QED BY <1>1, <1>2, TypeCorrect, PTL DEF Spec

\* Whatever the ledger, the number of processes and the order of their steps,
\* an attempt runs only under its queue's exclusive lock and never beside a
\* one-task start: task_execution_lock.go with every return, stop, pause and
\* crash of executeTaskQueue.
THEOREM OneWriterAlways == Spec => []OneWriter
<1>1. Ownership => OneWriter
  BY OwnershipGives
<1> QED BY <1>1, OwnershipAlways, PTL

----------------------------------------------------------------------------
(* Attempts are bounded *)

\* What makes AttemptBudget inductive: the rows that a read-modify-write of the
\* queue or of another release manager holds are within the budget too, and the
\* one that is about to be claimed is below it.
Budgeted ==
    /\ AttemptBudget
    /\ pc = "claim" => snap.attempts < MaxOf(run.task)
    /\ pc \in {"mark", "complete"} => snap.attempts <= MaxOf(run.task)
    /\ \A w \in Workers : worker[w].at = "read" =>
          worker[w].row.attempts <= MaxOf(worker[w].task)

\* A budget is a number.
LEMMA MaxOfNat == ASSUME NEW t \in Ids PROVE MaxOf(t) \in Nat
BY DEF MaxOf, FixAttempts, IsFix, Ids

\* What the types say of the rows a step of the queue reads.
LEMMA RowFacts ==
    ASSUME TypeOK
    PROVE  /\ \A t \in Ids : rows[t] \in Row /\ rows[t].attempts \in Nat
           /\ run \in Run /\ run.task \in Ids /\ run.attempt \in Nat
           /\ snap \in Row /\ snap.attempts \in Nat
           /\ rows \in [Ids -> Row]
BY TypeParts DEF LedgerOK, ControlOK, LocalOK, Run, Row

\* A step that leaves the workers alone and reads no row.
LEMMA BudgetKept ==
    ASSUME Budgeted, AttemptBudget', UNCHANGED worker,
           pc' \notin {"claim", "mark", "complete"}
    PROVE  Budgeted'
BY DEF Budgeted

\* A step beside the queue that leaves the workers alone.
LEMMA BudgetBeside ==
    ASSUME Budgeted, AttemptBudget', UNCHANGED <<worker, pc, snap>>, run'.task = run.task
    PROVE  Budgeted'
BY DEF Budgeted

\* Rows whose attempt counts do not change.
SameAttempts == \A t \in Ids : rows'[t].attempts = rows[t].attempts

\* A step that adds no attempts.
LEMMA SameBudget == AttemptBudget /\ SameAttempts => AttemptBudget'
BY DEF AttemptBudget, SameAttempts, MaxOf, IsFix

\* A step that leaves the rows adds none.
LEMMA UnchangedAttempts == UNCHANGED rows => SameAttempts
BY DEF SameAttempts

\* A new fix has not run.
LEMMA RepairBudget ==
    ASSUME TypeOK, AttemptBudget, NEW t \in Ids, NEW ev, CreateFailureRepair(t, ev)
    PROVE  AttemptBudget'
<1>1. CASE UNCHANGED ledger
  BY <1>1, SameBudget, UnchangedAttempts DEF ledger
<1>2. CASE InsertFix(t, ev)
  <2> DEFINE n == fixes[t[1]] + 1
             fix == [Blank EXCEPT !.status = "pending", !.fixOf = t[2], !.answers = ev]
             closed == IF rows[t].status = "failed" THEN [rows EXCEPT ![t].fixedBy = n]
                                                    ELSE rows
  <2>1. rows' = [closed EXCEPT ![<<t[1], n>>] = fix]
    BY <1>2 DEF InsertFix
  <2>2. \A u \in Ids : closed[u].attempts = rows[u].attempts
    BY RowFacts DEF Row
  <2>3. DOMAIN closed = Ids
    BY RowFacts
  <2>4. fix.attempts = 0
    BY DEF Blank
  <2> HIDE DEF fix, closed
  <2>5. \A u \in Ids : rows'[u].attempts = rows[u].attempts \/ rows'[u].attempts = 0
    BY <2>1, <2>2, <2>3, <2>4
  <2> QED BY <2>5, MaxOfNat DEF AttemptBudget
<1> QED BY <1>1, <1>2 DEF CreateFailureRepair

\* One row, written with the attempts n.
LEMMA WrittenBudget ==
    ASSUME TypeOK, AttemptBudget, NEW t \in Ids, NEW row,
           rows' = [rows EXCEPT ![t] = row], row.attempts <= MaxOf(t)
    PROVE  AttemptBudget'
BY RowFacts DEF AttemptBudget

\* Status, outcome and receipt of a row do not change its attempts.
LEMMA StatusAttempts ==
    ASSUME TypeOK, NEW t \in Ids, NEW a, NEW b, NEW c,
           \/ rows' = [rows EXCEPT ![t].status = a]
           \/ rows' = [rows EXCEPT ![t].status = a, ![t].recapture = b]
           \/ rows' = [rows EXCEPT ![t].status = a, ![t].evidence = c]
           \/ rows' = [rows EXCEPT ![t].status = a, ![t].recapture = b, ![t].evidence = c]
    PROVE  SameAttempts
BY RowFacts DEF SameAttempts, Row

\* Nor does the end of an attempt.
LEMMA FinishAttempts ==
    ASSUME TypeOK, NEW o, NEW s, Finish(o, s)
    PROVE  SameAttempts
BY RowFacts DEF SameAttempts, Row, Finish

\* Every step of the queue keeps the budget.
LEMMA QueueBudget == ASSUME TypeOK, Budgeted, QueueStep PROVE Budgeted'
<1> USE BudgetKept, SameBudget, UnchangedAttempts
<1>b. AttemptBudget
  BY DEF Budgeted
<1>r. ASSUME AttemptBudget', NEW res, Return(res) PROVE Budgeted'
  BY <1>r DEF Return
<1>g. ASSUME AttemptBudget', NEW t, NEW x, GoOn(t, x), pc \notin {"claim", "mark", "complete"}
      PROVE  Budgeted'
  BY <1>g DEF GoOn
<1>1. ASSUME NEW s \in scan, Reconcile(s[1]) PROVE Budgeted'
  <2>1. s[1] \in Ids
    BY TypeParts DEF LocalOK
  <2> QED BY <1>b, <1>1, <2>1, StatusAttempts DEF Reconcile
<1>2. CASE Reconciled \/ Pass \/ PassDone
  BY <1>b, <1>2 DEF Reconciled, Pass, PassDone, ledger
<1>3. CASE Yield \/ PassCancelled \/ Drained \/ LeaveInterrupted \/ CompleteRefused
           \/ RecaptureDisowned
  <2>1. UNCHANGED rows /\ \E res : Return(res)
    BY <1>3 DEF Yield, PassCancelled, Drained, LeaveInterrupted, CompleteRefused,
                RecaptureDisowned, ledger
  <2> QED BY <1>b, <1>r, <2>1
<1>4. ASSUME NEW t \in Ids, RepairFromReceipt(t) PROVE Budgeted'
  BY <1>b, <1>r, <1>g, <1>4, RepairBudget DEF RepairFromReceipt, Retained, ledger
<1>5. ASSUME NEW t \in Ids, RecaptureReview(t) PROVE Budgeted'
  BY <1>b, <1>r, <1>5, StatusAttempts DEF RecaptureReview
<1>6. ASSUME NEW t \in Ids, RecaptureWaits(t) PROVE Budgeted'
  BY <1>b, <1>r, <1>g, <1>6 DEF RecaptureWaits, Recapturable, Retained, ledger
<1>7. ASSUME NEW t \in Ids, RecaptureClaim(t) PROVE Budgeted'
  <2>1. rows[t].attempts < MaxOf(t)
    BY <1>7 DEF RecaptureClaim, Eligible
  <2>2. /\ rows'[t].attempts = rows[t].attempts + 1
        /\ \A u \in Ids \ {t} : rows'[u] = rows[u]
    BY <1>7, RowFacts DEF RecaptureClaim, Row
  <2>3. AttemptBudget'
    BY <1>b, <2>1, <2>2, MaxOfNat, RowFacts DEF AttemptBudget
  <2> QED BY <1>7, <2>3 DEF RecaptureClaim
<1>8. ASSUME NEW t \in Ids, Pick(t) PROVE Budgeted'
  <2>1. rows[t].attempts < MaxOf(t)
    BY <1>8 DEF Pick, FirstRunnable, Runnable, Eligible
  <2>2. snap' = rows[t] /\ run'.task = t /\ pc' = "claim"
    BY <1>8, NoRunType DEF Pick, Run
  <2>3. AttemptBudget' /\ UNCHANGED worker
    BY <1>b, <1>8 DEF Pick, ledger
  <2>4. MaxOf(run'.task) = MaxOf(t)
    BY <2>2
  <2> QED BY <2>1, <2>2, <2>3, <2>4 DEF Budgeted
<1>9. CASE Claim
  <2> DEFINE row == [snap EXCEPT !.status = "in_progress", !.attempts = @ + 1, !.evidence = 0]
  <2>1. row.attempts = snap.attempts + 1
    BY RowFacts DEF Row
  <2>2. row.attempts <= MaxOf(run.task)
    BY <1>9, <2>1, MaxOfNat, RowFacts DEF Claim, Budgeted
  <2>3. rows' = [rows EXCEPT ![run.task] = row]
    BY <1>9 DEF Claim
  <2> HIDE DEF row
  <2>4. AttemptBudget'
    BY <1>b, <2>2, <2>3, WrittenBudget, RowFacts
  <2> QED BY <1>9, <2>4 DEF Claim
<1>10. CASE Start \/ WaitOver \/ WaitPaused \/ StopPaused
  BY <1>b, <1>10 DEF Start, WaitOver, WaitPaused, StopPaused, ledger
<1>11. CASE StartRefused
  <2>1. SameAttempts
    BY <1>11, RowFacts DEF StartRefused, SameAttempts, Row
  <2> QED BY <1>b, <1>r, <1>11, <2>1 DEF StartRefused
<1>12. CASE PauseDrained
  <2>1. SameAttempts
    BY <1>12, RowFacts DEF PauseDrained, SameAttempts, Row
  <2> QED BY <1>b, <1>12, <2>1 DEF PauseDrained
<1>13. CASE MarkFailedRead
  BY <1>b, <1>13, RowFacts DEF MarkFailedRead, ledger, Budgeted, AttemptBudget
<1>14. CASE MarkFailedWrite \/ CompleteWrite
  <2>1. PICK st : rows' = [rows EXCEPT ![run.task] = [snap EXCEPT !.status = st]]
    BY <1>14 DEF MarkFailedWrite, CompleteWrite
  <2>2. [snap EXCEPT !.status = st].attempts = snap.attempts
    BY RowFacts DEF Row
  <2>3. snap.attempts <= MaxOf(run.task)
    BY <1>14 DEF MarkFailedWrite, CompleteWrite, Budgeted
  <2>4. AttemptBudget'
    BY <1>b, <2>1, <2>2, <2>3, WrittenBudget, RowFacts
  <2> QED BY <1>14, <2>4 DEF MarkFailedWrite, CompleteWrite
<1>15. CASE ProviderStop
  <2>1. UNCHANGED ledger \/ \E ev : CreateFailureRepair(run.task, ev)
    BY <1>15 DEF ProviderStop
  <2>2. AttemptBudget'
    BY <1>b, <2>1, RepairBudget, RowFacts DEF ledger
  <2>3. pc = "disposition" /\ (GoOn(run.task, FALSE) \/ Return("error"))
    BY <1>15 DEF ProviderStop
  <2> QED BY <1>r, <1>g, <2>2, <2>3
<1>16. CASE CompleteRead
  <2>1. AttemptBudget'
    BY <1>b, <1>16 DEF CompleteRead, ledger
  <2>2. CASE \E res : Return(res)
    BY <1>r, <2>1, <2>2
  <2>3. CASE rows[run.task].status # "failed" /\ UNCHANGED worker
    <3>1. CASE rows[run.task].status = "done"
      BY <1>16, <2>1, <2>3, <3>1 DEF CompleteRead
    <3>2. CASE rows[run.task].status # "done"
      <4>1. snap' = rows[run.task] /\ run' = run /\ pc' = "complete"
        BY <1>16, <2>3, <3>2 DEF CompleteRead
      <4> QED BY <1>b, <2>1, <2>3, <4>1, RowFacts DEF Budgeted, AttemptBudget
    <3> QED BY <3>1, <3>2
  <2> QED BY <1>16, <2>2, <2>3 DEF CompleteRead
<1>17. CASE RecapturePassed \/ RecaptureFailed \/ RecaptureExhausted \/ RecaptureAbandoned
  <2>1. SameAttempts
    BY <1>17, FinishAttempts DEF RecapturePassed, RecaptureFailed, RecaptureExhausted,
       RecaptureAbandoned
  <2>2. pc' \in {"top", "scan", "exhaust", "idle"} /\ UNCHANGED worker
    BY <1>17, TypeParts DEF RecapturePassed, RecaptureFailed, RecaptureExhausted,
       RecaptureAbandoned, RecaptureResumes, Return, LocalOK
  <2> QED BY <1>b, <2>1, <2>2
<1>18. CASE RecaptureRetry
  BY <1>b, <1>18, TypeParts DEF RecaptureRetry, RecaptureResumes, LocalOK, ledger
<1> QED
  BY <1>1, <1>2, <1>3, <1>4, <1>5, <1>6, <1>7, <1>8, <1>9, <1>10, <1>11, <1>12, <1>13,
     <1>14, <1>15, <1>16, <1>17, <1>18
  DEF QueueStep

\* An attempt adds none to itself.
LEMMA AttemptBudgetStep == ASSUME TypeOK, Budgeted, AttemptStep PROVE Budgeted'
<1>1. UNCHANGED <<worker, pc, snap>> /\ run'.task = run.task
  <2>1. ASSUME NEW event, NEW why, PipelineEnds(event, why)
        PROVE  UNCHANGED <<worker, pc, snap>> /\ run'.task = run.task
    BY <2>1, RowFacts DEF PipelineEnds, local, Run
  <2>2. CASE RecordFailure
    BY <2>2, RowFacts DEF RecordFailure, local, Run
  <2>3. CASE ConsumeEvent
    BY <2>3, RowFacts DEF ConsumeEvent, local, Run
  <2>4. CASE RunnerEnds
    BY <2>4, RowFacts DEF RunnerEnds, local, Run
  <2> QED BY <2>1, <2>2, <2>3, <2>4 DEF AttemptStep
<1>2. SameAttempts
  <2>1. CASE RecordFailure
    BY <2>1, RowFacts DEF RecordFailure, SameAttempts, Row
  <2>2. CASE UNCHANGED ledger
    BY <2>2, UnchangedAttempts DEF ledger
  <2> QED BY <2>1, <2>2 DEF AttemptStep, PipelineEnds, ConsumeEvent, RunnerEnds
<1> QED BY <1>1, <1>2, SameBudget, BudgetBeside DEF Budgeted

\* What another manager writes back is within the budget.
LEMMA EnvironmentBudget == ASSUME TypeOK, Budgeted, Environment PROVE Budgeted'
<1>b. AttemptBudget
  BY DEF Budgeted
<1>1. ASSUME NEW p \in Procs, Acquire(p) PROVE Budgeted'
  BY <1>b, <1>1, SameBudget, UnchangedAttempts, BudgetKept DEF Acquire, ledger
<1>2. ASSUME NEW p \in Procs, StartShared(p) \/ EndShared(p) PROVE Budgeted'
  BY <1>b, <1>2, SameBudget, UnchangedAttempts, BudgetBeside
     DEF StartShared, EndShared, ledger, local
<1>3. CASE Crash
  BY <1>b, <1>3, SameBudget, UnchangedAttempts, BudgetKept DEF Crash, ledger
<1>4. CASE CancelQueue
  BY <1>b, <1>4, SameBudget, UnchangedAttempts, BudgetBeside DEF CancelQueue, ledger, local
<1>5. CASE OwnerStop \/ OwnerPause
  <2>1. run'.task = run.task
    BY <1>5, RowFacts DEF OwnerStop, OwnerPause, StopRun, Run
  <2> QED BY <1>b, <1>5, <2>1, SameBudget, UnchangedAttempts, BudgetBeside
          DEF OwnerStop, OwnerPause, ledger, local
<1>6. ASSUME NEW t \in Ids, NEW e \in FindingIds, Finding(t, e) PROVE Budgeted'
  BY <1>b, <1>6, RepairBudget, BudgetBeside DEF Finding, local
<1>7. ASSUME NEW w \in Workers, NEW t \in Ids, WorkerRead(w, t) PROVE Budgeted'
  <2>1. worker' = [worker EXCEPT ![w] = [at |-> "read", task |-> t, row |-> rows[t]]]
    BY <1>7 DEF WorkerRead
  <2>2. rows[t].attempts <= MaxOf(t)
    BY <1>b DEF AttemptBudget
  <2>3. \A x \in Workers : worker'[x].at = "read" =>
            worker'[x].row.attempts <= MaxOf(worker'[x].task)
    BY <2>1, <2>2, TypeParts DEF Budgeted, WorkerOK
  <2>4. UNCHANGED <<rows, pc, snap, run>>
    BY <1>7 DEF WorkerRead, ledger, local
  <2> QED BY <2>3, <2>4 DEF Budgeted, AttemptBudget
<1>8. ASSUME NEW w \in Workers, WorkerWrite(w) \/ WorkerRefused(w) PROVE Budgeted'
  <2> DEFINE t == worker[w].task
             row == [worker[w].row EXCEPT !.status = "done"]
  <2>1. t \in Ids /\ worker[w].row \in Row /\ worker[w].at = "read"
    BY <1>8, TypeParts DEF WorkerOK, WorkerWrite, WorkerRefused
  <2>2. row.attempts <= MaxOf(t)
    BY <2>1 DEF Budgeted, Row
  <2>3. \/ rows' = [rows EXCEPT ![t] = row]
        \/ UNCHANGED rows
    BY <1>8 DEF WorkerWrite, WorkerRefused, ledger
  <2> HIDE DEF t, row
  <2>4. AttemptBudget'
    BY <1>b, <2>1, <2>2, <2>3, WrittenBudget, SameBudget, UnchangedAttempts
  <2>5. \A x \in Workers : worker'[x].at = "read" => worker'[x] = worker[x]
    BY <1>8, TypeParts DEF WorkerWrite, WorkerRefused, WorkerOK
  <2>6. UNCHANGED <<pc, snap, run>>
    BY <1>8 DEF WorkerWrite, WorkerRefused, local
  <2> QED BY <2>4, <2>5, <2>6 DEF Budgeted
<1> QED BY <1>1, <1>2, <1>3, <1>4, <1>5, <1>6, <1>7, <1>8 DEF Environment

\* However often a queue crashes, a check is recaptured, a task is reopened or
\* another release manager writes back a row it read long ago, no task is
\* attempted more often than its max_attempts, for every ledger and number of
\* processes and managers.
THEOREM AttemptsWithinBudget == Spec => []AttemptBudget
<1>1. Init => Budgeted
  <2> SUFFICES ASSUME Init PROVE Budgeted
    OBVIOUS
  <2>1. \A t \in Ids : rows[t].attempts = 0
    BY DEF Init, Blank
  <2>2. AttemptBudget
    BY <2>1, MaxOfNat DEF AttemptBudget
  <2>3. \A w \in Workers : worker[w].at # "read"
    BY DEF Init
  <2>4. pc = "idle"
    BY DEF Init
  <2> QED BY <2>2, <2>3, <2>4 DEF Budgeted
<1>2. TypeOK /\ Budgeted /\ [Next]_vars => Budgeted'
  <2>1. Budgeted /\ UNCHANGED vars => Budgeted'
    BY SameBudget, UnchangedAttempts, BudgetBeside DEF vars, Budgeted
  <2> QED BY <2>1, QueueBudget, AttemptBudgetStep, EnvironmentBudget DEF Next
<1>3. Budgeted => AttemptBudget
  BY DEF Budgeted
<1> QED BY <1>1, <1>2, <1>3, TypeCorrect, PTL DEF Spec

----------------------------------------------------------------------------
(* Fixes and receipts of a ledger that the queue has for itself *)

\* Another release manager may complete a task whose failure the queue is about
\* to answer, or write back a row with an old receipt; then neither FixBudget
\* nor EvidenceIsNewest holds.  Without one, this makes them inductive.

\* Rows are filed in the order of their numbers and none is taken away.
Filed == \A t \in Ids : rows[t].status # "absent" <=> t[2] <= fixes[t[1]]

\* A receipt is of a filed task and of one of its attempts.
Receipts == \A s \in steps : /\ rows[s.task].status # "absent"
                             /\ s.attempt <= rows[s.task].attempts

\* EvidenceIsNewest, without the set of receipts.
Newest ==
    \A t \in Ids : rows[t].evidence # 0 =>
        /\ \E s \in steps : s.task = t /\ s.attempt = rows[t].evidence
        /\ \A s \in steps : s.task = t => s.attempt <= rows[t].evidence

\* The fixes of failures have the first numbers.
FailuresFirst ==
    \A t \in Ids : IsFix(t) /\ rows[t].answers.kind \in {"check", "provider"}
                       => t[2] <= MaxAttempts[t[1]]

RowsInv == Filed /\ Receipts /\ Newest /\ FailuresFirst

\* Where the queue has a task of its own, and where it recaptures one.
TaskPCs == {"claim", "start", "wait", "paused", "drain", "err", "mark", "disposition",
            "ok", "complete", "exhaust"}
RecapturePCs == {"start", "wait", "paused", "drain", "ok", "err", "exhaust"}

\* The queue's own task is there and not done, what a read-modify-write has
\* read of it is still so, and a failure that is dealt with is one.
TaskInv ==
    /\ pc \in TaskPCs => rows[run.task].status \notin {"absent", "done"}
    /\ pc \in {"claim", "mark", "complete"} => snap = rows[run.task]
    /\ pc = "disposition" => rows[run.task].status = "failed"

\* The tasks of the pass are failed, during a recapture of one of them too.
ScanInv ==
    /\ resume = "scan" => run.recap /\ pc \in RecapturePCs
    /\ pc = "scan" \/ resume = "scan" => \A s \in scan : rows[s[1]].status = "failed"
    /\ resume = "scan" => \A s \in scan : s[1] # run.task

QueueInv == RowsInv /\ TaskInv /\ ScanInv

\* Newest says what EvidenceIsNewest says.
LEMMA NewestIs == Newest <=> EvidenceIsNewest
BY DEF Newest, EvidenceIsNewest

\* A step that changes the row t and neither its answers nor, upwards, its
\* receipt, and takes no attempt back.
Touched(t) ==
    /\ UNCHANGED <<fixes, steps>>
    /\ \A u \in Ids \ {t} : rows'[u] = rows[u]
    /\ rows'[t].attempts >= rows[t].attempts
    /\ rows'[t].answers = rows[t].answers
    /\ rows'[t].evidence \in {0, rows[t].evidence}
    /\ rows'[t].status = "absent" <=> rows[t].status = "absent"

\* Such a step keeps what is said of the rows.
LEMMA TouchedRows ==
    ASSUME TypeOK, TypeOK', RowsInv, NEW t \in Ids, Touched(t)
    PROVE  RowsInv'
<1>1. /\ \A s \in steps : s.task \in Ids /\ s.attempt \in Nat
      /\ rows[t].attempts \in Nat /\ rows'[t].attempts \in Nat
  BY TypeParts DEF LedgerOK, Row
<1>2. Filed'
  BY DEF RowsInv, Filed, Touched
<1>3. Receipts'
  BY <1>1 DEF RowsInv, Receipts, Touched
<1>4. Newest'
  BY DEF RowsInv, Newest, Touched
<1>5. FailuresFirst'
  BY DEF RowsInv, FailuresFirst, Touched, IsFix
<1> QED BY <1>2, <1>3, <1>4, <1>5 DEF RowsInv

\* A step that leaves the ledger keeps it too.
LEMMA UnchangedRows == RowsInv /\ UNCHANGED ledger => RowsInv'
BY DEF RowsInv, Filed, Receipts, Newest, FailuresFirst, ledger, IsFix

\* A fix that is filed: failures within the budget, and no other row but the
\* one it closes changes.
LEMMA InsertedRows ==
    ASSUME TypeOK, TypeOK', RowsInv, NEW t \in Ids, NEW ev, InsertFix(t, ev),
           RepairAllowed(t), ev.kind \in {"check", "provider"} => rows[t].status = "failed"
    PROVE  /\ RowsInv'
           /\ \A u \in Ids : rows[u].status # "absent" => rows'[u].status = rows[u].status
           /\ rows[t].status # "failed" =>
                 \A u \in Ids : rows[u].status # "absent" => rows'[u] = rows[u]
<1> DEFINE r == t[1]
           n == fixes[r] + 1
           x == <<r, n>>
           fix == [Blank EXCEPT !.status = "pending", !.fixOf = t[2], !.answers = ev]
           closed == IF rows[t].status = "failed" THEN [rows EXCEPT ![t].fixedBy = n]
                                                  ELSE rows
<1>1. r \in Roots /\ t[2] \in 0..MaxFixes /\ n \in 1..MaxFixes /\ x \in Ids /\ fixes[r] \in Nat
  BY TypeParts DEF InsertFix, LedgerOK, Ids
<1>2. /\ rows' = [closed EXCEPT ![x] = fix] /\ fixes' = [fixes EXCEPT ![r] = n]
      /\ steps' = steps
  BY DEF InsertFix
<1>3. rows[x].status = "absent" /\ x # t
  BY <1>1 DEF RowsInv, Filed, RepairAllowed
<1>4. /\ fix.status = "pending" /\ fix.attempts = 0 /\ fix.evidence = 0 /\ fix.answers = ev
  BY DEF Blank
<1>5. /\ DOMAIN closed = Ids
      /\ \A u \in Ids : /\ closed[u].status = rows[u].status
                        /\ closed[u].attempts = rows[u].attempts
                        /\ closed[u].evidence = rows[u].evidence
                        /\ closed[u].answers = rows[u].answers
      /\ rows[t].status # "failed" => closed = rows
  BY RowFacts DEF Row
<1> HIDE DEF fix, closed, x
<1>6. /\ rows'[x] = fix
      /\ \A u \in Ids \ {x} : rows'[u] = closed[u]
  BY <1>1, <1>2, <1>5
<1>7. Filed'
  <2> SUFFICES ASSUME NEW u \in Ids
               PROVE  rows'[u].status # "absent" <=> u[2] <= fixes'[u[1]]
    BY DEF Filed
  <2>1. u = <<u[1], u[2]>> /\ u[1] \in Roots /\ u[2] \in 0..MaxFixes
    BY DEF Ids
  <2>2. fixes \in [Roots -> 0..MaxFixes]
    BY TypeParts DEF LedgerOK
  <2>3. CASE u = x
    BY <1>1, <1>2, <1>4, <1>6, <2>2, <2>3 DEF x
  <2>4. CASE u # x /\ u[1] = r
    <3>1. u[2] # n
      BY <2>1, <2>4 DEF x
    <3>2. rows'[u].status = rows[u].status
      BY <1>5, <1>6, <2>4
    <3>3. rows[u].status # "absent" <=> u[2] <= fixes[r]
      BY <2>4 DEF RowsInv, Filed
    <3> QED BY <1>1, <1>2, <2>1, <2>2, <2>4, <3>1, <3>2, <3>3
  <2>5. CASE u[1] # r
    <3>1. u # x
      BY <2>5 DEF x
    <3> QED BY <1>2, <1>5, <1>6, <2>1, <2>2, <2>5, <3>1 DEF RowsInv, Filed
  <2> QED BY <2>3, <2>4, <2>5
<1>8. Receipts'
  <2> SUFFICES ASSUME NEW s \in steps
               PROVE  rows'[s.task].status # "absent" /\ s.attempt <= rows'[s.task].attempts
    BY <1>2 DEF Receipts
  <2>1. rows[s.task].status # "absent" /\ s.attempt <= rows[s.task].attempts /\ s.task \in Ids
    BY TypeParts DEF RowsInv, Receipts, LedgerOK
  <2>2. s.task # x
    BY <1>3, <2>1
  <2> QED BY <1>5, <1>6, <2>1, <2>2
<1>9. Newest'
  <2> SUFFICES ASSUME NEW u \in Ids, rows'[u].evidence # 0
               PROVE  /\ \E s \in steps : s.task = u /\ s.attempt = rows'[u].evidence
                      /\ \A s \in steps : s.task = u => s.attempt <= rows'[u].evidence
    BY <1>2 DEF Newest
  <2>1. rows'[u].evidence = rows[u].evidence
    BY <1>4, <1>5, <1>6
  <2> QED BY <2>1 DEF RowsInv, Newest
<1>10. FailuresFirst'
  <2> SUFFICES ASSUME NEW u \in Ids, IsFix(u), rows'[u].answers.kind \in {"check", "provider"}
               PROVE  u[2] <= MaxAttempts[u[1]]
    BY DEF FailuresFirst, IsFix
  <2>1. CASE u = x
    <3>1. ev.kind \in {"check", "provider"}
      BY <1>4, <1>6, <2>1
    <3>2. fixes[r] < MaxAttempts[r]
      BY <3>1 DEF RepairAllowed
    <3>3. u[1] = r /\ u[2] = n
      BY <2>1 DEF x
    <3> QED BY <1>1, <3>2, <3>3
  <2>2. CASE u # x
    BY <1>5, <1>6, <2>2 DEF RowsInv, FailuresFirst
  <2> QED BY <2>1, <2>2
<1>11. \A u \in Ids : rows[u].status # "absent" =>
           /\ rows'[u].status = rows[u].status
           /\ rows[t].status # "failed" => rows'[u] = rows[u]
  BY <1>3, <1>5, <1>6
<1> QED BY <1>7, <1>8, <1>9, <1>10, <1>11 DEF RowsInv

\* The same of the whole transaction.
LEMMA RepairedRows ==
    ASSUME TypeOK, TypeOK', RowsInv, NEW t \in Ids, NEW ev, CreateFailureRepair(t, ev),
           ev.kind \in {"check", "provider"} => rows[t].status = "failed"
    PROVE  /\ RowsInv'
           /\ \A u \in Ids : rows[u].status # "absent" => rows'[u].status = rows[u].status
           /\ rows[t].status # "failed" =>
                 \A u \in Ids : rows[u].status # "absent" => rows'[u] = rows[u]
<1>1. CASE UNCHANGED ledger
  BY <1>1, UnchangedRows DEF ledger
<1>2. CASE InsertFix(t, ev) /\ RepairAllowed(t)
  BY <1>2, InsertedRows
<1> QED BY <1>1, <1>2 DEF CreateFailureRepair

\* Every way out of the queue forgets its task and its pass.
LEMMA ReturnControl == ASSUME NEW res, Return(res) PROVE TaskInv' /\ ScanInv'
BY DEF Return, TaskInv, ScanInv, TaskPCs

\* A new status, outcome or no receipt: the row is touched.
LEMMA StatusTouched ==
    ASSUME TypeOK, NEW t \in Ids, NEW a \in Status, NEW b, NEW c \in {0, rows[t].evidence},
           UNCHANGED <<fixes, steps>>,
           a = "absent" <=> rows[t].status = "absent",
           \/ rows' = [rows EXCEPT ![t].status = a]
           \/ rows' = [rows EXCEPT ![t].status = a, ![t].recapture = b]
           \/ rows' = [rows EXCEPT ![t].status = a, ![t].recapture = b, ![t].evidence = c]
    PROVE  Touched(t) /\ rows'[t].status = a
BY RowFacts DEF Touched, Row

\* finish() of a recapture.
LEMMA FinishTouched ==
    ASSUME TypeOK, NEW o, NEW s \in Status \ {"absent"}, Finish(o, s), Owned
    PROVE  Touched(run.task) /\ rows'[run.task].status = s
<1> DEFINE c == IF o = "success" THEN 0 ELSE rows[run.task].evidence
<1>1. /\ UNCHANGED <<fixes, steps>> /\ c \in {0, rows[run.task].evidence}
      /\ rows' = [rows EXCEPT ![run.task].status = s, ![run.task].recapture = o,
                              ![run.task].evidence = c]
  BY RowFacts DEF Finish
<1>2. s \in Status /\ (s = "absent" <=> rows[run.task].status = "absent")
  BY DEF Owned
<1> HIDE DEF c
<1> QED BY <1>1, <1>2, StatusTouched, RowFacts

\* A row that the queue writes back whole, as it has read it.
LEMMA WrittenTouched ==
    ASSUME TypeOK, NEW t \in Ids, snap = rows[t], NEW st \in Status \ {"absent"},
           rows[t].status # "absent", UNCHANGED <<fixes, steps>>,
           rows' = [rows EXCEPT ![t] = [snap EXCEPT !.status = st]]
    PROVE  Touched(t) /\ rows'[t].status = st
BY RowFacts DEF Touched, Row

\* Going on after a failure that was answered or skipped.
LEMMA GoOnControl ==
    ASSUME TypeOK, ScanInv, NEW t, NEW x, GoOn(t, x), pc \in {"scan", "disposition"},
           \A u \in Ids : rows[u].status # "absent" => rows'[u].status = rows[u].status
    PROVE  TaskInv' /\ ScanInv'
<1>1. \A s \in scan : s[1] \in Ids
  BY TypeParts DEF LocalOK
<1>2. /\ pc' \in {"scan", "top"} /\ (pc' = "scan" => pc = "scan")
      /\ scan' \subseteq scan /\ resume' = resume
  BY DEF GoOn, Visited
<1>3. resume' # "scan"
  BY <1>2 DEF ScanInv, RecapturePCs
<1>4. TaskInv'
  BY <1>2 DEF TaskInv, TaskPCs
<1>5. pc' = "scan" => \A s \in scan' : rows'[s[1]].status = "failed"
  BY <1>1, <1>2 DEF ScanInv
<1> QED BY <1>2, <1>3, <1>4, <1>5 DEF ScanInv

\* A recapture is over: back to where it was asked for.
LEMMA ResumesControl ==
    ASSUME TypeOK, ScanInv, RecaptureResumes, Touched(run.task) \/ UNCHANGED rows
    PROVE  TaskInv' /\ ScanInv'
<1>1. \A s \in scan : s[1] \in Ids
  BY TypeParts DEF LocalOK
<1>2. pc' = resume /\ resume' = "top" /\ scan' = scan /\ resume \in {"top", "scan"}
  BY TypeParts DEF RecaptureResumes, LocalOK
<1>3. TaskInv'
  BY <1>2 DEF TaskInv, TaskPCs
<1>4. pc' = "scan" => \A s \in scan' : rows'[s[1]].status = "failed"
  BY <1>1, <1>2 DEF ScanInv, Touched
<1> QED BY <1>2, <1>3, <1>4 DEF ScanInv

\* The queue goes on with its task in another place: what it writes, if it
\* does, is the row of its task.
LEMMA TaskControl ==
    ASSUME TypeOK, TypeOK', ScanInv, Touched(run.task) \/ UNCHANGED rows,
           pc \in RecapturePCs \/ resume # "scan",
           run'.task = run.task, run'.recap = run.recap,
           pc' \in RecapturePCs \cup {"mark", "complete", "disposition"},
           pc' \notin RecapturePCs => resume # "scan",
           scan' = scan, resume' = resume,
           rows'[run.task].status \notin {"absent", "done"},
           pc' \in {"mark", "complete"} => snap' = rows'[run.task],
           pc' = "disposition" => rows'[run.task].status = "failed"
    PROVE  TaskInv' /\ ScanInv'
<1>1. \A s \in scan : s[1] \in Ids
  BY TypeParts DEF LocalOK
<1>2. pc' # "claim" /\ pc' # "scan"
  BY DEF RecapturePCs
<1>3. TaskInv'
  BY <1>2 DEF TaskInv
<1>4. resume = "scan" => \A s \in scan : rows'[s[1]].status = "failed" /\ s[1] # run.task
  BY <1>1 DEF ScanInv, Touched
<1> QED BY <1>2, <1>3, <1>4 DEF ScanInv

\* The queue is where it neither has a task nor a pass.
LEMMA FreeControl ==
    ASSUME ScanInv, pc \notin RecapturePCs, resume' = resume,
           pc' \in {"reconcile", "top", "pick"}
    PROVE  TaskInv' /\ ScanInv'
BY DEF TaskInv, ScanInv, TaskPCs, RecapturePCs

\* Every step of the queue keeps the invariant.
LEMMA QueueAlone ==
    ASSUME TypeOK, TypeOK', Ownership, QueueInv, QueueStep
    PROVE  QueueInv'
<1> USE DEF QueueInv
<1>t. run.task \in Ids /\ rows[run.task] \in Row /\ rows \in [Ids -> Row]
  BY RowFacts
<1>r. ASSUME NEW res, Return(res), RowsInv' PROVE QueueInv'
  BY <1>r, ReturnControl
<1>u. UNCHANGED ledger => RowsInv' /\ UNCHANGED rows
  BY UnchangedRows DEF ledger
<1>1. ASSUME NEW s \in scan, Reconcile(s[1]) PROVE QueueInv'
  <2>1. s[1] \in Ids
    BY TypeParts DEF LocalOK
  <2>2. /\ ReconciledStatus(s[1]) \in Status
        /\ ReconciledStatus(s[1]) = "absent" <=> rows[s[1]].status = "absent"
    <3>1. rows[s[1]].status \in Status
      BY <2>1, RowFacts DEF Row
    <3> QED BY <3>1 DEF ReconciledStatus, Status
  <2>3. Touched(s[1])
    <3> DEFINE st == ReconciledStatus(s[1])
    <3>1. rows' = [rows EXCEPT ![s[1]].status = st] /\ UNCHANGED <<fixes, steps>>
      BY <1>1 DEF Reconcile
    <3> HIDE DEF st
    <3> QED BY <2>1, <2>2, <3>1, RowFacts DEF Touched, Row, st
  <2>4. pc' = "reconcile" /\ pc \notin RecapturePCs /\ resume' = resume
    BY <1>1 DEF Reconcile, RecapturePCs
  <2> QED BY <2>1, <2>3, <2>4, TouchedRows, FreeControl
<1>2. CASE Reconciled
  BY <1>u, <1>2, FreeControl DEF Reconciled, RecapturePCs, local
<1>3. CASE Yield \/ PassCancelled \/ Drained \/ LeaveInterrupted \/ CompleteRefused
           \/ RecaptureDisowned
  <2>1. UNCHANGED ledger /\ \E res : Return(res)
    BY <1>3 DEF Yield, PassCancelled, Drained, LeaveInterrupted, CompleteRefused,
                RecaptureDisowned
  <2> QED BY <1>u, <1>r, <2>1
<1>4. CASE Pass
  <2>1. RowsInv' /\ UNCHANGED rows
    BY <1>u, <1>4 DEF Pass
  <2>2. pc' = "scan" /\ resume' = resume /\ resume # "scan"
    BY <1>4 DEF Pass, ScanInv, RecapturePCs
  <2>3. \A s \in scan' : rows[s[1]].status = "failed"
    BY <1>4 DEF Pass, Listed
  <2> QED BY <2>1, <2>2, <2>3 DEF TaskInv, ScanInv, TaskPCs
<1>5. CASE PassDone
  BY <1>u, <1>5, FreeControl DEF PassDone, RecapturePCs, local
<1>6. ASSUME NEW t \in Ids, RepairFromReceipt(t) PROVE QueueInv'
  <2>1. pc \in {"scan", "disposition"} /\ rows[t].status = "failed"
    <3>1. CASE pc = "scan" /\ \E s \in scan : s[1] = t
      BY <3>1 DEF ScanInv
    <3>2. CASE pc = "disposition" /\ t = run.task
      BY <3>2 DEF TaskInv
    <3> QED BY <1>6, <3>1, <3>2 DEF RepairFromReceipt, Retained
  <2>2. CASE UNCHANGED ledger /\ Return("error")
    BY <1>u, <1>r, <2>2
  <2>3. ASSUME NEW ev, CreateFailureRepair(t, ev), GoOn(t, TRUE) PROVE QueueInv'
    BY <2>1, <2>3, RepairedRows, GoOnControl
  <2> QED BY <1>6, <2>2, <2>3 DEF RepairFromReceipt
<1>7. ASSUME NEW t \in Ids, RecaptureReview(t) PROVE QueueInv'
  <2>1. Touched(t)
    <3>1. rows[t].status = "failed"
      BY <1>7 DEF RecaptureReview, OwnsReceipt
    <3> QED BY <1>7, <3>1, StatusTouched DEF RecaptureReview, Status
  <2> QED BY <1>r, <1>7, <2>1, TouchedRows DEF RecaptureReview
<1>8. ASSUME NEW t \in Ids, RecaptureWaits(t) PROVE QueueInv'
  <2>1. pc \in {"scan", "disposition"} /\ UNCHANGED ledger
    BY <1>8 DEF RecaptureWaits, Recapturable, Retained
  <2>2. CASE Return("error")
    BY <1>u, <1>r, <2>1, <2>2
  <2>3. CASE GoOn(t, FALSE)
    BY <1>u, <2>1, <2>3, GoOnControl
  <2> QED BY <1>8, <2>2, <2>3 DEF RecaptureWaits
<1>9. ASSUME NEW t \in Ids, RecaptureClaim(t) PROVE QueueInv'
  <2>1. Touched(t) /\ rows'[t].status = "in_progress"
    BY <1>9, RowFacts DEF RecaptureClaim, OwnsReceipt, Touched, Row
  <2>2. run'.task = t /\ run'.recap = TRUE
    BY <1>9, NoRunType DEF RecaptureClaim, Run
  <2>3. /\ pc' = "start" /\ resume' = (IF pc = "scan" THEN "scan" ELSE "top")
        /\ \A s \in scan' : s \in scan /\ s[1] # t
    BY <1>9 DEF RecaptureClaim, Visited
  <2>4. \A s \in scan : s[1] \in Ids
    BY TypeParts DEF LocalOK
  <2>5. TaskInv'
    BY <2>1, <2>2, <2>3 DEF TaskInv
  <2>6. ScanInv'
    BY <2>1, <2>2, <2>3, <2>4 DEF ScanInv, RecapturePCs, Touched
  <2> QED BY <2>1, <2>5, <2>6, TouchedRows
<1>10. ASSUME NEW t \in Ids, Pick(t) PROVE QueueInv'
  <2>1. rows[t].status = "pending"
    BY <1>10 DEF Pick, FirstRunnable, Runnable
  <2>2. /\ snap' = rows[t] /\ run'.task = t /\ pc' = "claim" /\ resume' = resume
        /\ resume # "scan" /\ RowsInv' /\ UNCHANGED rows
    BY <1>u, <1>10, NoRunType DEF Pick, Run, ScanInv, RecapturePCs
  <2> QED BY <2>1, <2>2 DEF TaskInv, ScanInv
<1>11. CASE Claim
  <2>1. snap = rows[run.task] /\ rows[run.task].status # "absent" /\ resume # "scan"
    BY <1>11 DEF Claim, TaskInv, TaskPCs, ScanInv, RecapturePCs
  <2>2. Touched(run.task) /\ rows'[run.task].status = "in_progress"
    BY <1>t, <1>11, <2>1 DEF Claim, Touched, Row
  <2>3. /\ pc' = "start" /\ run' = run /\ scan' = scan /\ resume' = resume
    BY <1>11 DEF Claim
  <2> QED BY <1>t, <2>1, <2>2, <2>3, TouchedRows, TaskControl DEF RecapturePCs
<1>12. CASE Start \/ WaitOver \/ WaitPaused \/ StopPaused
  <2>1. RowsInv' /\ UNCHANGED rows
    BY <1>u, <1>12 DEF Start, WaitOver, WaitPaused, StopPaused
  <2>2. run'.task = run.task /\ run'.recap = run.recap
    <3>1. CASE Start
      BY <3>1 DEF Start, Started
    <3>2. CASE WaitOver \/ WaitPaused
      BY <3>2 DEF WaitOver, WaitPaused
    <3>3. CASE StopPaused
      <4>1. run \in Run
        BY RowFacts
      <4>2. run' = run \/ run' = [run EXCEPT !.status = "stopped", !.stopped = TRUE]
        BY <3>3 DEF StopPaused, StopRun
      <4> QED BY <4>1, <4>2 DEF Run
    <3> QED BY <1>12, <3>1, <3>2, <3>3
  <2>3. /\ pc \in RecapturePCs /\ pc' \in RecapturePCs
        /\ scan' = scan /\ resume' = resume
    BY <1>12 DEF Start, WaitOver, WaitPaused, StopPaused, RecapturePCs, local
  <2>4. rows'[run.task].status \notin {"absent", "done"}
    BY <2>1, <2>3 DEF TaskInv, TaskPCs, RecapturePCs
  <2> QED BY <2>1, <2>2, <2>3, <2>4, TaskControl DEF RecapturePCs
<1>13. CASE StartRefused
  <2>1. rows[run.task].status # "absent"
    BY <1>13 DEF StartRefused, TaskInv, TaskPCs
  <2>2. Touched(run.task)
    BY <1>t, <1>13, <2>1 DEF StartRefused, Touched, Row
  <2> QED BY <1>t, <1>r, <1>13, <2>2, TouchedRows DEF StartRefused
<1>14. CASE PauseDrained
  <2>1. rows[run.task].status \notin {"absent", "done"}
    BY <1>14 DEF PauseDrained, TaskInv, TaskPCs
  <2>2. Touched(run.task) /\ rows'[run.task].status \notin {"absent", "done"}
    <3>1. CASE UNCHANGED rows
      BY <1>14, <2>1, <3>1, RowFacts DEF PauseDrained, Touched
    <3>2. CASE rows' = [rows EXCEPT ![run.task].status = "needs_review"]
      BY <1>t, <1>14, <2>1, <3>2 DEF PauseDrained, Touched, Row
    <3> QED BY <1>14, <3>1, <3>2 DEF PauseDrained
  <2>3. /\ pc = "drain" /\ pc' = "err" /\ run' = run /\ scan' = scan /\ resume' = resume
    BY <1>14 DEF PauseDrained, local
  <2> QED BY <1>t, <2>2, <2>3, TouchedRows, TaskControl DEF RecapturePCs
<1>15. CASE MarkFailedRead
  <2>1. RowsInv' /\ UNCHANGED rows
    BY <1>u, <1>15 DEF MarkFailedRead
  <2>2. rows[run.task].status \notin {"absent", "done"} /\ resume # "scan"
    BY <1>15 DEF MarkFailedRead, TaskInv, TaskPCs, ScanInv
  <2>3. /\ pc' = "mark" /\ snap' = rows[run.task] /\ run' = run /\ scan' = scan
        /\ resume' = resume
    BY <1>15 DEF MarkFailedRead
  <2> QED BY <2>1, <2>2, <2>3, TaskControl DEF RecapturePCs
<1>16. CASE MarkFailedWrite
  <2>1. /\ snap = rows[run.task] /\ rows[run.task].status # "absent" /\ resume # "scan"
    BY <1>16 DEF MarkFailedWrite, TaskInv, TaskPCs, ScanInv, RecapturePCs
  <2>2. Touched(run.task) /\ rows'[run.task].status = "failed"
    <3>1. "failed" \in Status \ {"absent"}
      BY DEF Status
    <3> QED BY <1>t, <1>16, <2>1, <3>1, WrittenTouched DEF MarkFailedWrite
  <2>3. /\ pc' = "disposition" /\ run' = run /\ scan' = scan /\ resume' = resume
    BY <1>16 DEF MarkFailedWrite
  <2> QED BY <1>t, <2>1, <2>2, <2>3, TouchedRows, TaskControl
<1>17. CASE ProviderStop
  <2>1. pc = "disposition" /\ rows[run.task].status = "failed"
    BY <1>17 DEF ProviderStop, TaskInv
  <2>2. CASE Return("error") /\ UNCHANGED ledger
    BY <1>u, <1>r, <2>2
  <2>3. CASE GoOn(run.task, FALSE) /\ UNCHANGED ledger
    BY <1>u, <2>1, <2>3, GoOnControl
  <2>4. ASSUME NEW ev, CreateFailureRepair(run.task, ev), GoOn(run.task, FALSE)
        PROVE  QueueInv'
    BY <1>t, <2>1, <2>4, RepairedRows, GoOnControl
  <2> QED BY <1>17, <2>2, <2>3, <2>4 DEF ProviderStop
<1>18. CASE CompleteRead
  <2>1. RowsInv' /\ UNCHANGED rows
    BY <1>u, <1>18 DEF CompleteRead
  <2>2. rows[run.task].status \notin {"absent", "done"} /\ resume # "scan"
    BY <1>18 DEF CompleteRead, TaskInv, TaskPCs, ScanInv
  <2>3. CASE Return("error")
    BY <1>r, <2>1, <2>3
  <2>4. CASE /\ pc' = "complete" /\ snap' = rows[run.task] /\ run' = run /\ scan' = scan
             /\ resume' = resume
    BY <2>1, <2>2, <2>4, TaskControl DEF RecapturePCs
  <2> QED BY <1>18, <2>2, <2>3, <2>4 DEF CompleteRead
<1>19. CASE CompleteWrite
  <2>1. /\ snap = rows[run.task] /\ rows[run.task].status # "absent"
    BY <1>19 DEF CompleteWrite, TaskInv, TaskPCs
  <2>2. Touched(run.task)
    <3>1. "done" \in Status \ {"absent"}
      BY DEF Status
    <3> QED BY <1>t, <1>19, <2>1, <3>1, WrittenTouched DEF CompleteWrite
  <2>3. pc \notin RecapturePCs /\ pc' = "top" /\ resume' = resume
    BY <1>19 DEF CompleteWrite, RecapturePCs
  <2> QED BY <1>t, <2>2, <2>3, TouchedRows, FreeControl
<1>20. CASE RecapturePassed
  <2>1. Touched(run.task)
    BY <1>20, FinishTouched DEF RecapturePassed, Status
  <2> QED BY <1>t, <1>20, <2>1, TouchedRows, ResumesControl DEF RecapturePassed
<1>21. CASE RecaptureFailed
  <2>1. Touched(run.task) /\ rows'[run.task].status = "failed"
    BY <1>21, FinishTouched DEF RecaptureFailed, Status
  <2>2. /\ pc = "err" /\ pc' = "exhaust" /\ run' = run /\ scan' = scan /\ resume' = resume
    BY <1>21 DEF RecaptureFailed, local
  <2> QED BY <1>t, <2>1, <2>2, TouchedRows, TaskControl DEF RecapturePCs
<1>22. CASE RecaptureRetry
  BY <1>u, <1>22, ResumesControl DEF RecaptureRetry
<1>23. CASE RecaptureExhausted \/ RecaptureAbandoned
  <2>1. Touched(run.task)
    BY <1>23, FinishTouched DEF RecaptureExhausted, RecaptureAbandoned, Status
  <2>2. \E res : Return(res)
    BY <1>23 DEF RecaptureExhausted, RecaptureAbandoned
  <2> QED BY <1>t, <1>r, <2>1, <2>2, TouchedRows
<1> QED
  BY <1>1, <1>2, <1>3, <1>4, <1>5, <1>6, <1>7, <1>8, <1>9, <1>10, <1>11, <1>12, <1>13,
     <1>14, <1>15, <1>16, <1>17, <1>18, <1>19, <1>20, <1>21, <1>22, <1>23
  DEF QueueStep

\* A step beside the queue that leaves its task, its pass and the ledger alone.
LEMMA BesideControl ==
    ASSUME QueueInv, UNCHANGED <<pc, scan, resume, snap, rows>>, run'.task = run.task,
           run'.recap = run.recap
    PROVE  TaskInv' /\ ScanInv'
BY DEF QueueInv, TaskInv, ScanInv

\* The attempt's own steps: a receipt is written in one transaction with the
\* row, by the attempt that still owns it.
LEMMA AttemptAlone ==
    ASSUME TypeOK, TypeOK', Ownership, QueueInv, AttemptStep
    PROVE  QueueInv'
<1> DEFINE t == run.task
<1>1. CASE UNCHANGED ledger
  <2>1. RowsInv' /\ UNCHANGED rows
    BY <1>1, UnchangedRows DEF QueueInv, ledger
  <2>2. UNCHANGED <<pc, scan, resume, snap>> /\ run'.task = run.task /\ run'.recap = run.recap
    <3>1. ASSUME NEW event, NEW why, PipelineEnds(event, why)
          PROVE  /\ UNCHANGED <<pc, scan, resume, snap>>
                 /\ run'.task = run.task /\ run'.recap = run.recap
      BY <3>1, RowFacts DEF PipelineEnds, local, Run
    <3>2. CASE RecordFailure
      BY <3>2, RowFacts DEF RecordFailure, local, Run
    <3>3. CASE ConsumeEvent
      BY <3>3, RowFacts DEF ConsumeEvent, local, Run
    <3>4. CASE RunnerEnds
      BY <3>4, RowFacts DEF RunnerEnds, local, Run
    <3> QED BY <3>1, <3>2, <3>3, <3>4 DEF AttemptStep
  <2> QED BY <2>1, <2>2, BesideControl DEF QueueInv
<1>2. CASE RecordFailure /\ rows[t].status = "in_progress" /\ rows[t].attempts = run.attempt
  <2>1. /\ t \in Ids /\ rows \in [Ids -> Row] /\ rows[t] \in Row /\ run.attempt \in Nat
    BY RowFacts
  <2>2. /\ rows' = [rows EXCEPT ![t].status = "failed", ![t].evidence = run.attempt]
        /\ fixes' = fixes
    BY <1>2 DEF RecordFailure
  <2>3. PICK d : steps' = steps \cup {[task |-> t, attempt |-> run.attempt, diagnosed |-> d]}
    BY <1>2 DEF RecordFailure
  <2>4. /\ rows'[t].status = "failed" /\ rows'[t].evidence = run.attempt
        /\ rows'[t].attempts = run.attempt /\ rows'[t].answers = rows[t].answers
        /\ \A u \in Ids \ {t} : rows'[u] = rows[u]
    BY <1>2, <2>1, <2>2 DEF Row
  <2>5. \A s \in steps : s.task \in Ids /\ s.attempt \in Nat
    BY TypeParts DEF LedgerOK
  <2>6. Filed'
    BY <1>2, <2>2, <2>4 DEF QueueInv, RowsInv, Filed
  <2>7. Receipts'
    BY <1>2, <2>1, <2>3, <2>4, <2>5 DEF QueueInv, RowsInv, Receipts
  <2>8. Newest'
    <3> DEFINE x == [task |-> t, attempt |-> run.attempt, diagnosed |-> d]
    <3>1. x \in steps' /\ x.task = t /\ x.attempt = run.attempt
      BY <2>3
    <3>2. \A s \in steps' : s.task = t => s.attempt <= run.attempt
      BY <1>2, <2>1, <2>3 DEF QueueInv, RowsInv, Receipts
    <3>3. ASSUME NEW u \in Ids \ {t}, rows'[u].evidence # 0
          PROVE  /\ \E s \in steps' : s.task = u /\ s.attempt = rows'[u].evidence
                 /\ \A s \in steps' : s.task = u => s.attempt <= rows'[u].evidence
      <4>1. rows[u] = rows'[u] /\ u # t
        BY <2>4
      <4> QED BY <2>3, <3>3, <4>1 DEF QueueInv, RowsInv, Newest
    <3> HIDE DEF x
    <3> QED BY <2>4, <3>1, <3>2, <3>3 DEF Newest
  <2>9. FailuresFirst'
    BY <2>4 DEF QueueInv, RowsInv, FailuresFirst, IsFix
  <2>10. /\ pc \in Waiting /\ UNCHANGED <<pc, scan, resume, snap>>
         /\ run'.task = t /\ run'.recap = run.recap
    BY <1>2, RowFacts DEF RecordFailure, Ownership, local, Run
  <2>11. \A s \in scan : s[1] \in Ids
    BY TypeParts DEF LocalOK
  <2>12. TaskInv'
    BY <2>4, <2>10 DEF TaskInv, Waiting
  <2>13. ScanInv'
    BY <2>4, <2>10, <2>11 DEF QueueInv, ScanInv, Waiting
  <2> QED BY <2>6, <2>7, <2>8, <2>9, <2>12, <2>13 DEF QueueInv, RowsInv
<1> QED BY <1>1, <1>2 DEF AttemptStep, PipelineEnds, RecordFailure, ConsumeEvent, RunnerEnds,
        ledger

\* The steps of everyone else, when nobody else has a release manager.
LEMMA EnvironmentAlone ==
    ASSUME TypeOK, TypeOK', Ownership, QueueInv, Environment, Workers = {}
    PROVE  QueueInv'
<1>u. UNCHANGED ledger => RowsInv' /\ UNCHANGED rows
  BY UnchangedRows DEF ledger, QueueInv
<1>1. ASSUME NEW p \in Procs, Acquire(p) PROVE QueueInv'
  <2>1. pc = "idle"
    BY <1>1 DEF Acquire, Ownership
  <2> QED BY <1>u, <1>1, <2>1, FreeControl DEF Acquire, QueueInv, RecapturePCs
<1>2. ASSUME NEW p \in Procs, StartShared(p) \/ EndShared(p) PROVE QueueInv'
  BY <1>u, <1>2, BesideControl DEF StartShared, EndShared, QueueInv, local
<1>3. CASE Crash
  BY <1>u, <1>3 DEF Crash, QueueInv, TaskInv, ScanInv, TaskPCs
<1>4. CASE CancelQueue
  BY <1>u, <1>4, BesideControl DEF CancelQueue, QueueInv, local
<1>5. CASE OwnerStop \/ OwnerPause
  <2>1. run'.task = run.task /\ run'.recap = run.recap
    BY <1>5, RowFacts DEF OwnerStop, OwnerPause, StopRun, Run
  <2> QED BY <1>u, <1>5, <2>1, BesideControl DEF OwnerStop, OwnerPause, QueueInv, local
<1>6. ASSUME NEW t \in Ids, NEW e \in FindingIds, Finding(t, e) PROVE QueueInv'
  <2> DEFINE ev == [kind |-> "finding", attempt |-> 0, why |-> e]
  <2>1. /\ rows[t].status = "done" /\ CreateFailureRepair(t, ev)
        /\ UNCHANGED <<pc, scan, resume, snap, run>>
    BY <1>6 DEF Finding, local
  <2>2. ev.kind \notin {"check", "provider"}
    OBVIOUS
  <2> HIDE DEF ev
  <2>3. RowsInv' /\ \A u \in Ids : rows[u].status # "absent" => rows'[u] = rows[u]
    BY <2>1, <2>2, RepairedRows DEF QueueInv
  <2>4. run.task \in Ids /\ \A s \in scan : s[1] \in Ids
    BY RowFacts, TypeParts DEF LocalOK
  <2>5. TaskInv'
    BY <2>1, <2>3, <2>4 DEF QueueInv, TaskInv, TaskPCs
  <2>6. ScanInv'
    BY <2>1, <2>3, <2>4 DEF QueueInv, ScanInv
  <2> QED BY <2>3, <2>5, <2>6 DEF QueueInv
<1> QED BY <1>1, <1>2, <1>3, <1>4, <1>5, <1>6 DEF Environment

----------------------------------------------------------------------------
\* An empty ledger has no fixes and no receipts, and its queue is idle.
LEMMA QueueInvInit == Init => QueueInv
<1> SUFFICES ASSUME Init PROVE QueueInv
  OBVIOUS
<1>1. /\ fixes = [r \in Roots |-> 0] /\ steps = {} /\ pc = "idle" /\ resume = "top"
  BY DEF Init
<1>2. ASSUME NEW t \in Ids
      PROVE  /\ IsFix(t) => rows[t] = Blank
             /\ ~IsFix(t) => rows[t].status \in {"done", "pending"}
             /\ rows[t].evidence = 0 /\ rows[t].answers = Blank.answers
  <2>1. CASE IsFix(t)
    BY <2>1 DEF Init, Blank
  <2>2. CASE ~IsFix(t)
    BY <2>2 DEF Init, Blank
  <2> QED BY <2>1, <2>2
<1>3. Blank.status = "absent" /\ Blank.answers.kind = "none"
  BY DEF Blank, NoEvidence
<1>4. Filed
  <2> SUFFICES ASSUME NEW t \in Ids
               PROVE  rows[t].status # "absent" <=> t[2] <= fixes[t[1]]
    BY DEF Filed
  <2>1. t[1] \in Roots /\ t[2] \in Nat
    BY DEF Ids
  <2>2. fixes[t[1]] = 0
    BY <1>1, <2>1
  <2> QED BY <1>2, <1>3, <2>1, <2>2 DEF IsFix
<1>5. Receipts /\ Newest
  BY <1>1, <1>2 DEF Receipts, Newest
<1>6. FailuresFirst
  BY <1>2, <1>3 DEF FailuresFirst
<1>7. TaskInv /\ ScanInv
  BY <1>1 DEF TaskInv, ScanInv, TaskPCs
<1> QED BY <1>4, <1>5, <1>6, <1>7 DEF QueueInv, RowsInv

\* A step of nobody.
LEMMA StutterAlone == QueueInv /\ UNCHANGED vars => QueueInv'
<1> SUFFICES ASSUME QueueInv, UNCHANGED vars PROVE QueueInv'
  OBVIOUS
<1>1. RowsInv'
  BY UnchangedRows DEF vars, ledger, QueueInv
<1>2. TaskInv' /\ ScanInv'
  BY DEF vars, local, QueueInv, TaskInv, ScanInv
<1> QED BY <1>1, <1>2 DEF QueueInv

\* The invariant holds of every ledger that no other release manager writes.
LEMMA QueueInvAlways == Spec => [](Workers = {} => QueueInv)
<1>1. Init => (Workers = {} => QueueInv)
  BY QueueInvInit
<1>2. /\ TypeOK /\ TypeOK' /\ Ownership /\ (Workers = {} => QueueInv) /\ [Next]_vars
      => (Workers = {} => QueueInv)'
  BY StutterAlone, QueueAlone, AttemptAlone, EnvironmentAlone DEF Next
<1> QED BY <1>1, <1>2, TypeCorrect, OwnershipAlways, PTL DEF Spec

\* The numbers of the fixes that answer failures are among the first
\* max_attempts, so there are no more of them than that.
LEMMA FailuresFirstBounds == FailuresFirst => FixBudget
<1> SUFFICES ASSUME FailuresFirst, NEW r \in Roots
             PROVE  Cardinality(FailureFixes(r)) <= MaxAttempts[r]
  BY DEF FixBudget
<1>1. MaxAttempts[r] \in Nat
  BY TaskQueueAssumption
<1>2. FailureFixes(r) \subseteq 1..MaxAttempts[r]
  <2> SUFFICES ASSUME NEW n \in FailureFixes(r) PROVE n \in 1..MaxAttempts[r]
    OBVIOUS
  <2>1. n \in 1..MaxFixes /\ rows[<<r, n>>].answers.kind \in {"check", "provider"}
    BY DEF FailureFixes
  <2>2. <<r, n>> \in Ids /\ IsFix(<<r, n>>) /\ n \in Nat
    BY <2>1, TaskQueueAssumption DEF Ids, IsFix
  <2>3. n <= MaxAttempts[r]
    BY <2>1, <2>2 DEF FailuresFirst
  <2> QED BY <1>1, <2>1, <2>3
<1>3. IsFiniteSet(1..MaxAttempts[r]) /\ Cardinality(1..MaxAttempts[r]) = MaxAttempts[r]
  BY <1>1, FS_Interval
<1> QED BY <1>2, <1>3, FS_Subset

\* As long as no other release manager writes the ledger behind the queue's
\* back, the fixes that CreateFailureRepair files for failed checks and
\* providers, of a task or of its earlier fixes, never outnumber the task's
\* max_attempts: whatever the queue, its attempts, its crashes and the findings
\* of reviewers do. (With such a manager the bound is lost, as TLC shows.)
THEOREM FixesWithinBudget == Spec => [](Workers = {} => FixBudget)
<1>1. (Workers = {} => QueueInv) => (Workers = {} => FixBudget)
  BY FailuresFirstBounds DEF QueueInv, RowsInv
<1> QED BY <1>1, QueueInvAlways, PTL

\* Under the same condition the receipt that a task is bound to is one that was
\* written for it, and the last of them: neither a recapture, nor a crash
\* between the receipt and the row, nor a late event of an attempt restores an
\* older binding.
THEOREM EvidenceStaysNewest == Spec => [](Workers = {} => EvidenceIsNewest)
<1>1. (Workers = {} => QueueInv) => (Workers = {} => EvidenceIsNewest)
  BY NewestIs DEF QueueInv, RowsInv
<1> QED BY <1>1, QueueInvAlways, PTL

----------------------------------------------------------------------------
(* Chains of fixes.  Delivered follows fixed_by from a task to its fix and on;  *)
(* what the recursion computes is shown by induction over the numbers of the    *)
(* fixes, which rests on the least element of a set of numbers.                 *)

\* A set of numbers has a least one.
LEMMA LeastNumber ==
    ASSUME NEW T, T \subseteq Nat, T # {}
    PROVE  \E n \in T : \A m \in T : n <= m
<1> DEFINE R == OpToRel(<, Nat)
<1>1. IsWellFoundedOn(R, Nat)
  BY NatLessThanWellFounded
<1>2. \A i, j \in Nat : <<i, j>> \in R <=> i < j
  BY DEF OpToRel
<1> HIDE DEF R
<1>3. PICK n \in T : \A m \in T : ~ (<<m, n>> \in R)
  BY <1>1, WFMin
<1>4. \A m \in T : n <= m
  <2> TAKE m \in T
  <2>1. m \in Nat /\ n \in Nat
    OBVIOUS
  <2>2. ~ (m < n)
    BY <1>2, <1>3, <2>1
  <2> QED BY <2>1, <2>2
<1> QED BY <1>4

\* Induction upwards.
LEMMA Upwards ==
    ASSUME NEW T, 0 \in T, \A n \in Nat : n \in T => n + 1 \in T
    PROVE  Nat \subseteq T
<1> SUFFICES ASSUME Nat \ T # {} PROVE FALSE
  OBVIOUS
<1>1. PICK n \in Nat \ T : \A m \in Nat \ T : n <= m
  BY LeastNumber
<1> QED BY <1>1

\* Induction downwards from a last number.
LEMMA Downwards ==
    ASSUME NEW N \in Nat, NEW T,
           \A n \in 0..N : (n + 1)..N \subseteq T => n \in T
    PROVE  0..N \subseteq T
<1> DEFINE S == {k \in 0..N : N - k \notin T}
<1> SUFFICES ASSUME NEW x \in 0..N, x \notin T PROVE FALSE
  OBVIOUS
<1>1. N - x \in S /\ S \subseteq Nat
  OBVIOUS
<1>2. PICK k \in S : \A m \in S : k <= m
  <2> HIDE DEF S
  <2> QED BY <1>1, LeastNumber
<1>3. ASSUME NEW m \in (N - k + 1)..N PROVE m \in T
  <2>1. N - m \in 0..N /\ N - m < k /\ N - (N - m) = m
    OBVIOUS
  <2>2. N - m \notin S
    BY <1>2, <2>1
  <2> QED BY <2>1, <2>2
<1>4. N - k \in 0..N /\ N - k \notin T
  OBVIOUS
<1> QED BY <1>3, <1>4

\* Membership in G, handed down along the links f of L.
IsChain(D, N, G, L, f) == D = [n \in 0..N |-> n \in G \/ (n \in L /\ D[f[n]])]

\* Links that lead upwards end: membership that is handed down along them has a
\* solution, built from the last number downwards.
LEMMA ChainExists ==
    ASSUME NEW N \in Nat, NEW G, NEW L, NEW f,
           \A n \in 0..N : n \in L => f[n] \in (n + 1)..N
    PROVE  \E D : IsChain(D, N, G, L, f)
<1> DEFINE T == {k \in Nat : k <= N =>
                    \E D : D = [n \in (N - k)..N |-> n \in G \/ (n \in L /\ D[f[n]])]}
<1>1. 0 \in T
  <2> DEFINE D == [n \in N..N |-> n \in G]
  <2>1. D = [n \in N..N |-> n \in G \/ (n \in L /\ D[f[n]])]
    OBVIOUS
  <2>2. N - 0 = N
    OBVIOUS
  <2> HIDE DEF D
  <2> QED BY <2>1, <2>2
<1>2. ASSUME NEW k \in Nat, k \in T PROVE k + 1 \in T
  <2> SUFFICES ASSUME k + 1 <= N
               PROVE  \E D : D = [n \in (N - (k + 1))..N |->
                                     n \in G \/ (n \in L /\ D[f[n]])]
    OBVIOUS
  <2>1. PICK D : D = [n \in (N - k)..N |-> n \in G \/ (n \in L /\ D[f[n]])]
    BY <1>2
  <2> DEFINE lo == N - (k + 1)
             E == [n \in lo..N |-> n \in G \/ (n \in L /\ D[f[n]])]
  <2>2. /\ \A n \in lo..N : n \in L => f[n] \in (N - k)..N
        /\ \A m \in (N - k)..N : m \in lo..N
    OBVIOUS
  <2> HIDE DEF lo
  <2>3. \A m \in (N - k)..N : E[m] = D[m]
    BY <2>1, <2>2
  <2>4. \A n \in lo..N : (n \in G \/ (n \in L /\ D[f[n]])) = (n \in G \/ (n \in L /\ E[f[n]]))
    BY <2>2, <2>3, Zenon
  <2>5. E = [n \in lo..N |-> n \in G \/ (n \in L /\ E[f[n]])]
    BY <2>4, Zenon
  <2> HIDE DEF E
  <2> QED BY <2>5 DEF lo
<1> HIDE DEF T
<1>3. N \in T
  BY <1>1, <1>2, Upwards
<1> QED BY <1>3 DEF T, IsChain

\* Delivered of the rows rw, so that the lemmas serve this state and the next.
DeliveredOf(rw, t) ==
    LET D[n \in 0..MaxFixes] ==
            LET row == rw[<<t[1], n>>]
            IN  \/ row.status = "done"
                \/ row.status = "failed" /\ row.fixedBy # 0 /\ D[row.fixedBy]
    IN  D[t[2]]

\* Every fix is filed after the task it closes.
Upward(rw) == /\ rw \in [Ids -> Row]
              /\ \A t \in Ids : rw[t].fixedBy # 0 => t[2] < rw[t].fixedBy

\* Delivered is DeliveredOf the rows.
LEMMA DeliveredNow ==
    ASSUME NEW t
    PROVE  /\ Delivered(t) = DeliveredOf(rows, t)
           /\ Delivered(t)' = DeliveredOf(rows', t)
BY Zenon DEF Delivered, DeliveredOf

\* The equation that Delivered is meant to be, for chains that lead upwards.
LEMMA DeliveredUnfolds ==
    ASSUME NEW rw, Upward(rw), NEW r \in Roots, NEW n \in 0..MaxFixes
    PROVE  LET row == rw[<<r, n>>]
           IN  DeliveredOf(rw, <<r, n>>) <=>
                   \/ row.status = "done"
                   \/ /\ row.status = "failed" /\ row.fixedBy # 0
                      /\ DeliveredOf(rw, <<r, row.fixedBy>>)
<1> DEFINE G == {m \in 0..MaxFixes : rw[<<r, m>>].status = "done"}
           L == {m \in 0..MaxFixes : /\ rw[<<r, m>>].status = "failed"
                                     /\ rw[<<r, m>>].fixedBy # 0}
           f == [m \in 0..MaxFixes |-> rw[<<r, m>>].fixedBy]
           Eq(D) == D = [m \in 0..MaxFixes |->
                            \/ rw[<<r, m>>].status = "done"
                            \/ /\ rw[<<r, m>>].status = "failed"
                               /\ rw[<<r, m>>].fixedBy # 0
                               /\ D[rw[<<r, m>>].fixedBy]]
<1>1. \A m \in 0..MaxFixes : m \in L => f[m] \in (m + 1)..MaxFixes
  <2> TAKE m \in 0..MaxFixes
  <2> HAVE m \in L
  <2>1. <<r, m>> \in Ids
    BY DEF Ids
  <2>2. rw[<<r, m>>].fixedBy \in 0..MaxFixes
    BY <2>1 DEF Upward, Row
  <2>3. m < rw[<<r, m>>].fixedBy
    BY <2>1 DEF Upward
  <2> QED BY <2>2, <2>3
<1>2. PICK D : IsChain(D, MaxFixes, G, L, f)
  <2> HIDE DEF G, L, f
  <2> QED BY <1>1, ChainExists
<1>3. Eq(D)
  <2>1. \A m \in 0..MaxFixes :
           (m \in G \/ (m \in L /\ D[f[m]]))
             = (\/ rw[<<r, m>>].status = "done"
                \/ /\ rw[<<r, m>>].status = "failed" /\ rw[<<r, m>>].fixedBy # 0
                   /\ D[rw[<<r, m>>].fixedBy])
    BY Zenon
  <2> HIDE DEF G, L, f
  <2> QED BY <1>2, <2>1, Zenon DEF IsChain
<1> DEFINE C == CHOOSE E : Eq(E)
<1>4. Eq(C)
  <2> HIDE DEF Eq
  <2> QED BY <1>3
<1>5. \A m : DeliveredOf(rw, <<r, m>>) = C[m]
  BY DEF DeliveredOf
<1> HIDE DEF C
<1>6. C[n] <=> \/ rw[<<r, n>>].status = "done"
               \/ /\ rw[<<r, n>>].status = "failed" /\ rw[<<r, n>>].fixedBy # 0
                  /\ C[rw[<<r, n>>].fixedBy]
  BY <1>4, Zenon
<1> QED BY <1>5, <1>6, Zenon

\* Delivered rows stay delivered while no done row and no closed row changes.
LEMMA DeliveredKept ==
    ASSUME NEW rw, NEW rv, Upward(rw), Upward(rv), NEW r \in Roots,
           \A t \in Ids : rw[t].status = "done" \/ rw[t].fixedBy # 0 => rv[t] = rw[t]
    PROVE  \A n \in 0..MaxFixes : DeliveredOf(rw, <<r, n>>) => DeliveredOf(rv, <<r, n>>)
<1> DEFINE T == {n \in 0..MaxFixes : DeliveredOf(rw, <<r, n>>) => DeliveredOf(rv, <<r, n>>)}
<1>1. ASSUME NEW n \in 0..MaxFixes, (n + 1)..MaxFixes \subseteq T PROVE n \in T
  <2> SUFFICES ASSUME DeliveredOf(rw, <<r, n>>) PROVE DeliveredOf(rv, <<r, n>>)
    OBVIOUS
  <2> DEFINE row == rw[<<r, n>>]
             k == row.fixedBy
  <2>1. <<r, n>> \in Ids
    BY DEF Ids
  <2>2. \/ row.status = "done"
        \/ row.status = "failed" /\ k # 0 /\ DeliveredOf(rw, <<r, k>>)
    BY DeliveredUnfolds
  <2>3. rv[<<r, n>>] = row
    BY <2>1, <2>2
  <2>4. k # 0 => k \in (n + 1)..MaxFixes
    <3>1. k \in 0..MaxFixes
      BY <2>1 DEF Upward, Row
    <3>2. k # 0 => n < k
      BY <2>1 DEF Upward
    <3> QED BY <3>1, <3>2
  <2>5. k # 0 => (DeliveredOf(rw, <<r, k>>) => DeliveredOf(rv, <<r, k>>))
    BY <1>1, <2>4
  <2> HIDE DEF row, k
  <2>6. \/ rv[<<r, n>>].status = "done"
        \/ /\ rv[<<r, n>>].status = "failed" /\ rv[<<r, n>>].fixedBy # 0
           /\ DeliveredOf(rv, <<r, rv[<<r, n>>].fixedBy>>)
    BY <2>2, <2>3, <2>5 DEF row, k
  <2> QED BY <2>6, DeliveredUnfolds
<1> HIDE DEF T
<1>2. 0..MaxFixes \subseteq T
  BY <1>1, Downwards
<1> QED BY <1>2, Zenon DEF T

----------------------------------------------------------------------------
(* What a step does to the ledger *)

\* A closed row is a failed one, closed with a later fix that is filed.
Links == \A t \in Ids : rows[t].fixedBy # 0 =>
            /\ rows[t].status = "failed"
            /\ t[2] < rows[t].fixedBy
            /\ rows[t].fixedBy <= fixes[t[1]]

\* What DependenciesDelivered asks for a task that ran.
DepsMet(t) == /\ \A d \in Deps[t[1]] : Delivered(<<d, 0>>)
              /\ \A r \in Roots : StoryOf[r] \in StoryDeps[StoryOf[t[1]]]
                                     => Delivered(<<r, 0>>)

\* The ways of an open row, other than being taken.
Ways(t, next) ==
    \/ next = rows[t].status /\ next # "done"
    \/ rows[t].status = "in_progress" /\ next \in {"pending", "failed", "needs_review", "done"}
    \/ rows[t].status = "failed" /\ next = "pending" /\ rows[t].attempts < MaxOf(t)
    \/ rows[t].status = "failed" /\ next = "needs_review"
    \/ rows[t].status = "needs_review" /\ next = "failed"

\* An open task is settled or reconsidered ...
Moved(t) ==
    /\ UNCHANGED fixes
    /\ \A u \in Ids \ {t} : rows'[u] = rows[u]
    /\ rows'[t].attempts = rows[t].attempts
    /\ rows[t].fixedBy = 0 /\ rows'[t].fixedBy = 0
    /\ Ways(t, rows'[t].status)

\* ... or taken, when nothing runs and its dependencies are delivered ...
Taken(t) ==
    /\ UNCHANGED fixes
    /\ \A u \in Ids \ {t} : rows'[u] = rows[u]
    /\ rows[t].attempts < MaxOf(t) /\ rows'[t].attempts = rows[t].attempts + 1
    /\ rows[t].fixedBy = 0 /\ rows'[t].fixedBy = 0
    /\ rows[t].status \in {"pending", "failed"} /\ rows'[t].status = "in_progress"
    /\ \A u \in Ids : rows[u].status # "in_progress"
    /\ DepsMet(t)

\* ... or it gets a fix.
Fixed(t) == RepairAllowed(t) /\ \E ev \in Evidence : InsertFix(t, ev)

\* Every step is one of these, or leaves the tasks alone.
Kind == UNCHANGED <<rows, fixes>> \/ \E t \in Ids : Moved(t) \/ Taken(t) \/ Fixed(t)

\* What a new fix changes.
LEMMA FixedRows ==
    ASSUME TypeOK, Filed, Links, NEW t \in Ids, Fixed(t)
    PROVE  \E n \in 1..MaxFixes :
              /\ n = fixes[t[1]] + 1 /\ fixes' = [fixes EXCEPT ![t[1]] = n]
              /\ <<t[1], n>> \in Ids /\ <<t[1], n>> # t /\ t[2] < n
              /\ rows[<<t[1], n>>].status = "absent" /\ rows[<<t[1], n>>].fixedBy = 0
              /\ rows'[<<t[1], n>>].status = "pending" /\ rows'[<<t[1], n>>].fixedBy = 0
              /\ rows'[<<t[1], n>>].attempts = 0
              /\ rows'[t].status = rows[t].status /\ rows'[t].attempts = rows[t].attempts
              /\ rows[t].status = "failed" => rows'[t].fixedBy = n
              /\ rows[t].status # "failed" => rows'[t] = rows[t]
              /\ \A u \in Ids \ {t, <<t[1], n>>} : rows'[u] = rows[u]
<1>1. PICK ev \in Evidence : InsertFix(t, ev)
  BY DEF Fixed
<1> DEFINE n == fixes[t[1]] + 1
           x == <<t[1], n>>
           fix == [Blank EXCEPT !.status = "pending", !.fixOf = t[2], !.answers = ev]
           closed == IF rows[t].status = "failed" THEN [rows EXCEPT ![t].fixedBy = n]
                                                  ELSE rows
<1>2. t[1] \in Roots /\ t[2] \in 0..MaxFixes /\ fixes[t[1]] \in 0..MaxFixes
  BY TypeParts DEF LedgerOK, Ids
<1>3. n \in 1..MaxFixes /\ x \in Ids
  BY <1>1, <1>2 DEF InsertFix, Ids
<1>4. rows[t].status # "absent"
  BY DEF Fixed, RepairAllowed
<1>5. t[2] < n /\ rows[x].status = "absent" /\ x # t
  BY <1>2, <1>3, <1>4 DEF Filed
<1>6. rows[x].fixedBy = 0
  BY <1>3, <1>5 DEF Links
<1>7. /\ rows' = [closed EXCEPT ![x] = fix] /\ fixes' = [fixes EXCEPT ![t[1]] = n]
  BY <1>1 DEF InsertFix
<1>8. fix.status = "pending" /\ fix.fixedBy = 0 /\ fix.attempts = 0
  BY DEF Blank
<1>9. /\ DOMAIN closed = Ids
      /\ closed[t].status = rows[t].status /\ closed[t].attempts = rows[t].attempts
      /\ rows[t].status = "failed" => closed[t].fixedBy = n
      /\ rows[t].status # "failed" => closed[t] = rows[t]
      /\ \A u \in Ids \ {t} : closed[u] = rows[u]
  BY RowFacts DEF Row
<1> HIDE DEF fix, closed
<1>10. rows'[x] = fix /\ \A u \in Ids \ {x} : rows'[u] = closed[u]
  BY <1>3, <1>7, <1>9
<1> QED BY <1>3, <1>5, <1>6, <1>7, <1>8, <1>9, <1>10

\* Links stay links.
LEMMA KindLinks == ASSUME TypeOK, TypeOK', Filed, Links, Kind PROVE Links'
<1>1. CASE UNCHANGED <<rows, fixes>>
  BY <1>1 DEF Links
<1>2. ASSUME NEW t \in Ids, Moved(t) \/ Taken(t) PROVE Links'
  BY <1>2 DEF Moved, Taken, Links
<1>3. ASSUME NEW t \in Ids, Fixed(t) PROVE Links'
  <2>1. PICK n \in 1..MaxFixes :
              /\ n = fixes[t[1]] + 1 /\ fixes' = [fixes EXCEPT ![t[1]] = n]
              /\ <<t[1], n>> \in Ids /\ <<t[1], n>> # t /\ t[2] < n
              /\ rows'[<<t[1], n>>].fixedBy = 0
              /\ rows'[t].status = rows[t].status
              /\ rows[t].status = "failed" => rows'[t].fixedBy = n
              /\ rows[t].status # "failed" => rows'[t] = rows[t]
              /\ \A u \in Ids \ {t, <<t[1], n>>} : rows'[u] = rows[u]
    BY <1>3, FixedRows
  <2> SUFFICES ASSUME NEW u \in Ids, rows'[u].fixedBy # 0
               PROVE  /\ rows'[u].status = "failed" /\ u[2] < rows'[u].fixedBy
                      /\ rows'[u].fixedBy <= fixes'[u[1]]
    BY DEF Links
  <2>2. /\ fixes \in [Roots -> 0..MaxFixes] /\ fixes' \in [Roots -> 0..MaxFixes]
        /\ u[1] \in Roots /\ t[1] \in Roots
    BY TypeParts DEF LedgerOK, Ids
  <2>3. fixes[u[1]] <= fixes'[u[1]] /\ fixes'[t[1]] = n
    BY <2>1, <2>2
  <2>4. CASE u = t /\ rows[t].status = "failed"
    BY <2>1, <2>3, <2>4
  <2>5. CASE rows'[u] = rows[u]
    <3>1. rows[u].fixedBy \in 0..MaxFixes
      BY RowFacts DEF Row
    <3> QED BY <2>2, <2>3, <2>5, <3>1 DEF Links
  <2> QED BY <2>1, <2>4, <2>5
<1> QED BY <1>1, <1>2, <1>3 DEF Kind

\* No step changes a row that is done or closed.
LEMMA KindFrozen ==
    ASSUME TypeOK, Filed, Links, Kind
    PROVE  \A u \in Ids : rows[u].status = "done" \/ rows[u].fixedBy # 0 => rows'[u] = rows[u]
<1>1. CASE UNCHANGED <<rows, fixes>>
  BY <1>1
<1>2. ASSUME NEW t \in Ids, Moved(t) \/ Taken(t)
      PROVE  \A u \in Ids : rows[u].status = "done" \/ rows[u].fixedBy # 0 => rows'[u] = rows[u]
  BY <1>2 DEF Moved, Taken, Ways
<1>3. ASSUME NEW t \in Ids, Fixed(t)
      PROVE  \A u \in Ids : rows[u].status = "done" \/ rows[u].fixedBy # 0 => rows'[u] = rows[u]
  <2>1. rows[t].fixedBy = 0
    BY <1>3 DEF Fixed, RepairAllowed
  <2>2. PICK n \in 1..MaxFixes :
              /\ rows[<<t[1], n>>].status = "absent" /\ rows[<<t[1], n>>].fixedBy = 0
              /\ rows[t].status # "failed" => rows'[t] = rows[t]
              /\ \A u \in Ids \ {t, <<t[1], n>>} : rows'[u] = rows[u]
    BY <1>3, FixedRows
  <2> QED BY <2>1, <2>2
<1> QED BY <1>1, <1>2, <1>3 DEF Kind

\* Linked rows are what the lemmas about chains ask for.
LEMMA LinksUpward == /\ TypeOK /\ Links => Upward(rows)
                     /\ TypeOK' /\ Links' => Upward(rows')
<1>1. TypeOK /\ Links => Upward(rows)
  BY TypeParts DEF Links, Upward, LedgerOK
<1>2. TypeOK' /\ Links' => Upward(rows')
  BY TypeParts DEF Links, Upward, LedgerOK
<1> QED BY <1>1, <1>2

\* What is delivered stays delivered.
LEMMA KindDelivered ==
    ASSUME TypeOK, TypeOK', Filed, Links, Kind, NEW r \in Roots, NEW n \in 0..MaxFixes,
           Delivered(<<r, n>>)
    PROVE  Delivered(<<r, n>>)'
<1>1. Upward(rows) /\ Upward(rows')
  BY KindLinks, LinksUpward
<1>2. DeliveredOf(rows, <<r, n>>) => DeliveredOf(rows', <<r, n>>)
  BY <1>1, KindFrozen, DeliveredKept
<1> QED BY <1>2, DeliveredNow

\* So are the dependencies of a task.
LEMMA KindDepsMet ==
    ASSUME TypeOK, TypeOK', Filed, Links, Kind, NEW t \in Ids, DepsMet(t)
    PROVE  DepsMet(t)'
<1>1. t[1] \in Roots /\ Deps[t[1]] \subseteq Roots /\ 0 \in 0..MaxFixes
  BY DEF Ids
<1>2. \A r \in Roots : Delivered(<<r, 0>>) => Delivered(<<r, 0>>)'
  BY <1>1, KindDelivered
<1>3. \A d \in Deps[t[1]] : Delivered(<<d, 0>>)'
  BY <1>1, <1>2 DEF DepsMet
<1>4. \A r \in Roots : StoryOf[r] \in StoryDeps[StoryOf[t[1]]] => Delivered(<<r, 0>>)'
  BY <1>2 DEF DepsMet
<1> QED BY <1>3, <1>4 DEF DepsMet

\* DependenciesDelivered, by the name used here.
LEMMA DependenciesAre ==
    /\ DependenciesDelivered <=> \A t \in Ids : rows[t].attempts > 0 => DepsMet(t)
    /\ DependenciesDelivered' <=> \A t \in Ids : rows'[t].attempts > 0 => DepsMet(t)'
BY Zenon DEF DependenciesDelivered, DepsMet

\* Only a task that is taken runs for the first time.
LEMMA KindDependencies ==
    ASSUME TypeOK, TypeOK', Filed, Links, Kind, DependenciesDelivered
    PROVE  DependenciesDelivered'
<1> SUFFICES ASSUME NEW u \in Ids, rows'[u].attempts > 0, ~DepsMet(u) PROVE FALSE
  BY DependenciesAre, KindDepsMet
<1>1. ~(rows[u].attempts > 0)
  BY DependenciesAre
<1>2. CASE UNCHANGED <<rows, fixes>>
  BY <1>1, <1>2
<1>3. ASSUME NEW t \in Ids, Moved(t) PROVE FALSE
  BY <1>1, <1>3 DEF Moved
<1>4. ASSUME NEW t \in Ids, Taken(t) PROVE FALSE
  <2>1. u = t
    BY <1>1, <1>4 DEF Taken
  <2> QED BY <1>4, <2>1 DEF Taken
<1>5. ASSUME NEW t \in Ids, Fixed(t) PROVE FALSE
  <2>1. PICK n \in 1..MaxFixes :
              /\ rows'[<<t[1], n>>].attempts = 0
              /\ rows'[t].attempts = rows[t].attempts
              /\ \A v \in Ids \ {t, <<t[1], n>>} : rows'[v] = rows[v]
    BY <1>5, FixedRows
  <2> QED BY <1>1, <2>1
<1> QED BY <1>2, <1>3, <1>4, <1>5 DEF Kind

----------------------------------------------------------------------------
(* Where the queue is, and what its task is *)

\* The status of the queue's own task; an attempt that ended well left no
\* failure behind.
StatusInv ==
    /\ pc = "claim" => rows[run.task].status = "pending"
    /\ pc \in {"start", "ok", "complete"} => rows[run.task].status = "in_progress"
    /\ pc \in Waiting =>
          /\ rows[run.task].status \in {"in_progress", "failed"}
          /\ run.event \notin {"plain", "consumed"} \/ run.status = "complete"
                => rows[run.task].status = "in_progress"
          /\ run.event # "consumed" => run.status # "complete"
    /\ pc \in {"err", "mark"} =>
          rows[run.task].status \in {"in_progress", "failed", "needs_review"}
    /\ pc \in {"disposition", "exhaust"} => rows[run.task].status = "failed"

\* The tasks the queue deals with are of its scope and not closed.
OpenInv ==
    /\ pc \in TaskPCs => rows[run.task].fixedBy = 0 /\ run.task[1] \in Scope
    /\ \A s \in scan : s[1][1] \in Scope
    /\ pc = "scan" \/ resume = "scan" => \A s \in scan : rows[s[1]].fixedBy = 0

\* A task in progress is the queue's own, or one that a dead queue left behind
\* and that is not reconciled yet.
RunningInv ==
    \A t \in Ids : rows[t].status = "in_progress" =>
        /\ t[1] \in Scope
        /\ \/ pc = "idle"
           \/ pc = "reconcile" /\ \E s \in scan : s[1] = t
           \/ pc \in TaskPCs /\ run.task = t

\* What was read of a task before it is claimed still holds.
ClaimInv == pc = "claim" => /\ rows[run.task].attempts < MaxOf(run.task)
                            /\ DepsMet(run.task)

ControlInv == StatusInv /\ OpenInv /\ RunningInv /\ ClaimInv

\* A step of an open row that writes some of its columns.
LEMMA StatusMoved ==
    ASSUME TypeOK, NEW t \in Ids, NEW a, NEW b, NEW c, rows[t].fixedBy = 0, Ways(t, a),
           UNCHANGED fixes,
           \/ rows' = [rows EXCEPT ![t].status = a]
           \/ rows' = [rows EXCEPT ![t].status = a, ![t].recapture = b]
           \/ rows' = [rows EXCEPT ![t].status = a, ![t].evidence = c]
           \/ rows' = [rows EXCEPT ![t].status = a, ![t].recapture = b, ![t].evidence = c]
    PROVE  Moved(t) /\ rows'[t].status = a
<1>1. /\ \A u \in Ids \ {t} : rows'[u] = rows[u]
      /\ rows'[t].attempts = rows[t].attempts /\ rows'[t].fixedBy = 0
      /\ rows'[t].status = a
  BY RowFacts DEF Row
<1> QED BY <1>1 DEF Moved

\* A row written whole, as it was read.
LEMMA WrittenMoved ==
    ASSUME TypeOK, NEW t \in Ids, NEW a, rows[t].fixedBy = 0, Ways(t, a),
           snap = rows[t], UNCHANGED fixes,
           rows' = [rows EXCEPT ![t] = [snap EXCEPT !.status = a]]
    PROVE  Moved(t) /\ rows'[t].status = a
<1>1. /\ \A u \in Ids \ {t} : rows'[u] = rows[u]
      /\ rows'[t].attempts = rows[t].attempts /\ rows'[t].fixedBy = 0
      /\ rows'[t].status = a
  BY RowFacts DEF Row
<1> QED BY <1>1 DEF Moved

\* finish() of a recapture.
LEMMA FinishMoved ==
    ASSUME TypeOK, NEW o, NEW a, Finish(o, a), rows[run.task].fixedBy = 0,
           Ways(run.task, a)
    PROVE  Moved(run.task) /\ rows'[run.task].status = a
<1> DEFINE c == IF o = "success" THEN 0 ELSE rows[run.task].evidence
<1>1. /\ UNCHANGED fixes /\ run.task \in Ids
      /\ rows' = [rows EXCEPT ![run.task].status = a, ![run.task].recapture = o,
                              ![run.task].evidence = c]
  BY RowFacts DEF Finish
<1> HIDE DEF c
<1> QED BY <1>1, StatusMoved

\* A task that is eligible has its dependencies delivered.
LEMMA EligibleMet ==
    ASSUME TypeOK, Filed, NEW t \in Ids, Eligible(t)
    PROVE  DepsMet(t) /\ rows[t].attempts < MaxOf(t) /\ rows[t].fixedBy = 0
<1>1. ASSUME NEW r \in Roots, StoryOf[r] \in StoryDeps[StoryOf[t[1]]]
      PROVE  Delivered(<<r, 0>>)
  <2>1. <<r, 0>> \in Ids /\ fixes[r] \in Nat
    BY TypeParts DEF Ids, LedgerOK
  <2>2. rows[<<r, 0>>].status # "absent"
    BY <2>1 DEF Filed
  <2>3. <<r, 0>> \in InStory(StoryOf[r])
    BY <2>1, <2>2 DEF InStory, Exists
  <2> QED BY <1>1, <2>3 DEF Eligible
<1> QED BY <1>1 DEF Eligible, DepsMet

\* The failure that a pass or a disposition looks at is an open one.
LEMMA RetainedOpen ==
    ASSUME TypeOK, QueueInv, ControlInv, NEW t \in Ids, Retained(t)
    PROVE  /\ pc \in {"scan", "disposition"} /\ rows[t].status = "failed"
           /\ rows[t].fixedBy = 0 /\ t[1] \in Scope
           /\ \A u \in Ids : rows[u].status # "in_progress"
<1>1. CASE pc = "scan" /\ \E s \in scan : s[1] = t
  BY <1>1 DEF QueueInv, ScanInv, ControlInv, OpenInv, RunningInv, TaskPCs
<1>2. CASE pc = "disposition" /\ t = run.task
  BY <1>2 DEF QueueInv, TaskInv, ControlInv, OpenInv, RunningInv, TaskPCs
<1> QED BY <1>1, <1>2 DEF Retained

\* The transaction of the store is a step of its kind.
LEMMA RepairKind ==
    ASSUME NEW t \in Ids, NEW ev \in Evidence, CreateFailureRepair(t, ev)
    PROVE  UNCHANGED <<rows, fixes>> \/ Fixed(t)
BY DEF CreateFailureRepair, Fixed, ledger

\* No task is taken by a step.
Still == \A u \in Ids : rows'[u].status = "in_progress" => rows[u].status = "in_progress"

\* Only Taken takes one.
LEMMA StillUntaken ==
    ASSUME TypeOK, Filed, Links, NEW t \in Ids, UNCHANGED rows \/ Moved(t) \/ Fixed(t)
    PROVE  Still
<1>1. CASE UNCHANGED rows
  BY <1>1 DEF Still
<1>2. CASE Moved(t)
  BY <1>2 DEF Moved, Still, Ways
<1>3. CASE Fixed(t)
  <2>1. PICK n \in 1..MaxFixes :
              /\ rows'[<<t[1], n>>].status = "pending"
              /\ rows'[t].status = rows[t].status
              /\ \A u \in Ids \ {t, <<t[1], n>>} : rows'[u] = rows[u]
    BY <1>3, FixedRows
  <2> QED BY <2>1 DEF Still
<1> QED BY <1>1, <1>2, <1>3

\* A queue that returned has neither a task nor a pass.
LEMMA ReturnInv == ASSUME ControlInv, Still, NEW res, Return(res) PROVE ControlInv'
<1>1. pc' = "idle" /\ scan' = {} /\ resume' = "top"
  BY DEF Return
<1>2. StatusInv' /\ OpenInv' /\ ClaimInv'
  BY <1>1 DEF StatusInv, OpenInv, ClaimInv, Waiting, TaskPCs
<1>3. RunningInv'
  BY <1>1 DEF ControlInv, RunningInv, Still
<1> QED BY <1>2, <1>3 DEF ControlInv

\* The queue is where it has no task and nothing runs.
LEMMA FreeInv ==
    ASSUME OpenInv, \A u \in Ids : rows'[u].status # "in_progress",
           pc' \in {"top", "pick"}, resume' # "scan", scan' \subseteq scan
    PROVE  ControlInv'
<1>1. StatusInv' /\ OpenInv' /\ ClaimInv'
  BY DEF StatusInv, OpenInv, ClaimInv, Waiting, TaskPCs
<1>2. RunningInv'
  BY DEF RunningInv
<1> QED BY <1>1, <1>2 DEF ControlInv

\* A failure was dealt with and its pass goes on.
LEMMA GoOnInv ==
    ASSUME TypeOK, QueueInv, Links, ControlInv, NEW t \in Ids, NEW x, GoOn(t, x),
           pc \in {"scan", "disposition"}, \A u \in Ids : rows[u].status # "in_progress",
           UNCHANGED rows \/ Fixed(t)
    PROVE  ControlInv'
<1>1. Filed
  BY DEF QueueInv, RowsInv
<1>2. \A u \in Ids : rows'[u].status # "in_progress"
  BY <1>1, StillUntaken DEF Still
<1>3. /\ pc' = (IF pc = "disposition" THEN "top" ELSE pc)
      /\ scan' = {s \in scan : s[1] # t} /\ resume' = resume
  BY DEF GoOn, Visited
<1>4. resume # "scan"
  BY DEF QueueInv, ScanInv, RecapturePCs
<1>5. CASE pc = "disposition"
  BY <1>2, <1>3, <1>4, <1>5, FreeInv DEF ControlInv
<1>6. CASE pc = "scan"
  <2>1. ASSUME NEW s \in scan' PROVE rows'[s[1]].fixedBy = 0
    <3>1. s \in scan /\ s[1] # t /\ s[1] \in Ids
      BY <1>3, TypeParts DEF LocalOK
    <3>2. rows[s[1]].status = "failed" /\ rows[s[1]].fixedBy = 0
      BY <1>6, <3>1 DEF QueueInv, ScanInv, ControlInv, OpenInv
    <3>3. rows'[s[1]] = rows[s[1]]
      <4>1. CASE UNCHANGED rows
        BY <4>1
      <4>2. CASE Fixed(t)
        <5>1. PICK n \in 1..MaxFixes :
                 /\ rows[<<t[1], n>>].status = "absent"
                 /\ \A u \in Ids \ {t, <<t[1], n>>} : rows'[u] = rows[u]
          BY <1>1, <4>2, FixedRows
        <5> QED BY <3>1, <3>2, <5>1
      <4> QED BY <4>1, <4>2
    <3> QED BY <3>2, <3>3
  <2>2. pc' = "scan" /\ scan' \subseteq scan /\ resume' # "scan"
    BY <1>3, <1>4, <1>6
  <2>3. OpenInv'
    BY <2>1, <2>2 DEF ControlInv, OpenInv, TaskPCs
  <2>4. StatusInv' /\ ClaimInv'
    BY <2>2 DEF StatusInv, ClaimInv, Waiting
  <2>5. RunningInv'
    BY <1>2 DEF RunningInv
  <2> QED BY <2>3, <2>4, <2>5 DEF ControlInv
<1> QED BY <1>5, <1>6

\* The rows of the pass that a recapture interrupted.
LEMMA PassKept ==
    ASSUME TypeOK, QueueInv, ControlInv, resume = "scan",
           UNCHANGED rows \/ Moved(run.task), NEW s \in scan
    PROVE  rows'[s[1]].fixedBy = 0
<1>1. s[1] \in Ids /\ s[1] # run.task /\ rows[s[1]].fixedBy = 0
  BY TypeParts DEF LocalOK, QueueInv, ScanInv, ControlInv, OpenInv
<1> QED BY <1>1 DEF Moved

\* The queue goes on with its task in another place.
LEMMA TaskInvKept ==
    ASSUME TypeOK, QueueInv, Links, ControlInv, UNCHANGED rows \/ Moved(run.task),
           run'.task = run.task, pc \in TaskPCs, pc' \in TaskPCs \ {"claim"},
           scan' = scan, resume' = resume, StatusInv'
    PROVE  ControlInv'
<1>1. Still /\ run.task \in Ids
  BY StillUntaken, RowFacts DEF QueueInv, RowsInv
<1>2. rows'[run.task].fixedBy = 0
  BY DEF Moved, ControlInv, OpenInv
<1>3. pc' # "scan"
  BY DEF TaskPCs
<1>4. OpenInv'
  BY <1>2, <1>3, PassKept DEF ControlInv, OpenInv
<1>5. RunningInv'
  <2> SUFFICES ASSUME NEW u \in Ids, rows'[u].status = "in_progress"
               PROVE  u[1] \in Scope /\ run.task = u
    BY DEF RunningInv
  <2>1. rows[u].status = "in_progress"
    BY <1>1 DEF Still
  <2> QED BY <2>1 DEF ControlInv, RunningInv, TaskPCs
<1> QED BY <1>4, <1>5 DEF ControlInv, ClaimInv

\* A recapture is over.
LEMMA ResumesInv ==
    ASSUME TypeOK, QueueInv, Links, ControlInv, UNCHANGED rows \/ Moved(run.task),
           pc \in TaskPCs, RecaptureResumes, rows'[run.task].status # "in_progress"
    PROVE  ControlInv'
<1>1. Still /\ run.task \in Ids
  BY StillUntaken, RowFacts DEF QueueInv, RowsInv
<1>2. \A u \in Ids : rows'[u].status # "in_progress"
  <2> SUFFICES ASSUME NEW u \in Ids, rows'[u].status = "in_progress" PROVE FALSE
    OBVIOUS
  <2>1. rows[u].status = "in_progress"
    BY <1>1 DEF Still
  <2> QED BY <2>1 DEF ControlInv, RunningInv, TaskPCs
<1>3. pc' = resume /\ resume' = "top" /\ scan' = scan /\ resume \in {"top", "scan"}
  BY TypeParts DEF RecaptureResumes, LocalOK
<1>4. OpenInv'
  BY <1>3, PassKept DEF ControlInv, OpenInv, TaskPCs
<1>5. StatusInv' /\ ClaimInv' /\ RunningInv'
  BY <1>2, <1>3 DEF StatusInv, ClaimInv, RunningInv, Waiting
<1> QED BY <1>4, <1>5 DEF ControlInv

\* Every step of the queue is of a kind, and keeps the invariant.
LEMMA QueueChain ==
    ASSUME TypeOK, TypeOK', Ownership, QueueInv, Links, ControlInv, QueueStep
    PROVE  Kind /\ ControlInv'
<1>t. /\ run.task \in Ids /\ rows[run.task] \in Row /\ rows \in [Ids -> Row]
      /\ rows[run.task].status \in Status
  BY RowFacts DEF Row
<1>f. Filed
  BY DEF QueueInv, RowsInv
<1>o. pc \in TaskPCs => rows[run.task].fixedBy = 0
  BY DEF ControlInv, OpenInv
<1>u. UNCHANGED ledger => Kind /\ UNCHANGED rows /\ Still
  BY <1>t, <1>f, StillUntaken DEF Kind, ledger
<1>m. ASSUME NEW t \in Ids, Moved(t) PROVE Kind /\ Still
  BY <1>f, <1>m, StillUntaken DEF Kind
<1>r. ASSUME NEW res, Return(res), Still PROVE ControlInv'
  BY <1>r, ReturnInv
<1>n. ASSUME pc \in {"top", "scan", "pick"} PROVE \A u \in Ids : rows[u].status # "in_progress"
  BY <1>n DEF ControlInv, RunningInv, TaskPCs
<1>1. ASSUME NEW s \in scan, Reconcile(s[1]) PROVE Kind /\ ControlInv'
  <2> DEFINE t == s[1]
             a == ReconciledStatus(t)
  <2>1. t \in Ids /\ rows[t] \in Row /\ rows[t].attempts \in Nat
    BY TypeParts, RowFacts DEF LocalOK
  <2>2. /\ rows' = [rows EXCEPT ![t].status = a] /\ UNCHANGED fixes
        /\ pc = "reconcile" /\ pc' = "reconcile" /\ scan' = {x \in scan : x[1] # t}
        /\ resume' = resume
    BY <1>1 DEF Reconcile, Visited
  <2>3. \/ a = rows[t].status
        \/ rows[t].fixedBy = 0 /\ Ways(t, a)
    BY <2>1 DEF ReconciledStatus, Ways, Links
  <2>4. rows[t].status = "in_progress" => a # "in_progress"
    BY DEF ReconciledStatus
  <2> HIDE DEF a
  <2>5. UNCHANGED rows \/ Moved(t)
    <3>1. CASE a = rows[t].status
      BY <2>1, <2>2, <3>1, RowFacts DEF Row
    <3>2. CASE rows[t].fixedBy = 0 /\ Ways(t, a)
      BY <2>1, <2>2, <3>2, StatusMoved
    <3> QED BY <2>3, <3>1, <3>2
  <2>6. Kind /\ Still
    BY <1>f, <1>m, <2>1, <2>2, <2>5, StillUntaken DEF Kind
  <2>7. rows'[t].status = a
    BY <2>1, <2>2, <1>t DEF Row
  <2>8. resume # "scan"
    BY <2>2 DEF QueueInv, ScanInv, RecapturePCs
  <2>9. StatusInv' /\ OpenInv' /\ ClaimInv'
    BY <2>2, <2>8 DEF StatusInv, ControlInv, OpenInv, ClaimInv, Waiting, TaskPCs
  <2>10. RunningInv'
    <3> SUFFICES ASSUME NEW v \in Ids, rows'[v].status = "in_progress"
                 PROVE  v[1] \in Scope /\ \E x \in scan' : x[1] = v
      BY <2>2 DEF RunningInv
    <3>1. rows[v].status = "in_progress"
      BY <2>6 DEF Still
    <3>2. v[1] \in Scope /\ \E x \in scan : x[1] = v
      BY <2>2, <3>1 DEF ControlInv, RunningInv, TaskPCs
    <3>3. v # t
      <4>1. a = "in_progress" => rows[t].status = "in_progress"
        BY <2>6, <2>7, <2>1 DEF Still
      <4> QED BY <2>4, <2>7, <4>1
    <3> QED BY <2>2, <3>2, <3>3
  <2> QED BY <2>6, <2>9, <2>10 DEF ControlInv
<1>2. CASE Reconciled
  <2>1. \A u \in Ids : rows[u].status # "in_progress"
    BY <1>2 DEF Reconciled, ControlInv, RunningInv, TaskPCs
  <2>2. resume # "scan"
    BY <1>2 DEF Reconciled, QueueInv, ScanInv, RecapturePCs
  <2> QED BY <1>u, <1>2, <2>1, <2>2, FreeInv DEF Reconciled, ControlInv, local
<1>3. CASE Yield \/ PassCancelled \/ Drained \/ LeaveInterrupted \/ CompleteRefused
           \/ RecaptureDisowned
  <2>1. UNCHANGED ledger /\ \E res : Return(res)
    BY <1>3 DEF Yield, PassCancelled, Drained, LeaveInterrupted, CompleteRefused,
                RecaptureDisowned
  <2> QED BY <1>u, <1>r, <2>1
<1>4. CASE Pass
  <2>1. Kind /\ UNCHANGED rows /\ pc' = "scan" /\ resume' = resume /\ resume # "scan"
    BY <1>u, <1>4 DEF Pass, QueueInv, ScanInv, RecapturePCs
  <2>2. \A s \in scan' : rows[s[1]].fixedBy = 0 /\ s[1][1] \in Scope
    BY <1>4 DEF Pass, Listed, Scoped
  <2>3. StatusInv' /\ OpenInv' /\ ClaimInv'
    BY <2>1, <2>2 DEF StatusInv, OpenInv, ClaimInv, Waiting, TaskPCs
  <2>4. RunningInv'
    BY <1>n, <1>4, <2>1 DEF RunningInv, Pass
  <2> QED BY <2>1, <2>3, <2>4 DEF ControlInv
<1>5. CASE PassDone
  <2>1. resume # "scan"
    BY <1>5 DEF PassDone, QueueInv, ScanInv, RecapturePCs
  <2> QED BY <1>u, <1>n, <1>5, <2>1, FreeInv DEF PassDone, ControlInv, local
<1>6. ASSUME NEW t \in Ids, RepairFromReceipt(t) PROVE Kind /\ ControlInv'
  <2> DEFINE ev == [kind |-> "check", attempt |-> EvidenceOf(t), why |-> "none"]
  <2>1. /\ pc \in {"scan", "disposition"}
        /\ \A u \in Ids : rows[u].status # "in_progress"
    BY <1>6, RetainedOpen DEF RepairFromReceipt
  <2>2. EvidenceOf(t) \in Nat
    BY <1>6, TypeParts DEF RepairFromReceipt, Retained, EvidenceOf, LocalOK, ControlOK, Run
  <2>3. ev \in Evidence
    BY <2>2 DEF Evidence
  <2>4. CASE UNCHANGED ledger /\ Return("error")
    BY <1>u, <1>r, <2>4
  <2>5. CASE CreateFailureRepair(t, ev) /\ GoOn(t, TRUE)
    <3> HIDE DEF ev
    <3>1. UNCHANGED <<rows, fixes>> \/ Fixed(t)
      BY <2>3, <2>5, RepairKind
    <3> QED BY <2>1, <2>5, <3>1, GoOnInv DEF Kind
  <2> QED BY <1>6, <2>4, <2>5 DEF RepairFromReceipt
<1>7. ASSUME NEW t \in Ids, RecaptureReview(t) PROVE Kind /\ ControlInv'
  <2>1. rows[t].status = "failed" /\ rows[t].fixedBy = 0
    BY <1>7, RetainedOpen DEF RecaptureReview, Recapturable
  <2>2. Ways(t, "needs_review")
    BY <2>1 DEF Ways
  <2>3. Moved(t)
    BY <1>7, <2>1, <2>2, StatusMoved DEF RecaptureReview
  <2> QED BY <1>m, <1>r, <1>7, <2>3 DEF RecaptureReview
<1>8. ASSUME NEW t \in Ids, RecaptureWaits(t) PROVE Kind /\ ControlInv'
  <2>1. /\ pc \in {"scan", "disposition"} /\ UNCHANGED ledger
        /\ \A u \in Ids : rows[u].status # "in_progress"
    BY <1>8, RetainedOpen DEF RecaptureWaits, Recapturable
  <2>2. CASE Return("error")
    BY <1>u, <1>r, <2>1, <2>2
  <2>3. CASE GoOn(t, FALSE)
    BY <1>u, <2>1, <2>3, GoOnInv
  <2> QED BY <1>8, <2>2, <2>3 DEF RecaptureWaits
<1>9. ASSUME NEW t \in Ids, RecaptureClaim(t) PROVE Kind /\ ControlInv'
  <2>1. /\ pc \in {"scan", "disposition"} /\ rows[t].status = "failed"
        /\ t[1] \in Scope /\ \A u \in Ids : rows[u].status # "in_progress"
    BY <1>9, RetainedOpen DEF RecaptureClaim, Recapturable
  <2>2. DepsMet(t) /\ rows[t].attempts < MaxOf(t) /\ rows[t].fixedBy = 0
    BY <1>f, <1>9, EligibleMet DEF RecaptureClaim
  <2>3. /\ \A u \in Ids \ {t} : rows'[u] = rows[u]
        /\ rows'[t].attempts = rows[t].attempts + 1 /\ rows'[t].fixedBy = rows[t].fixedBy
        /\ rows'[t].status = "in_progress" /\ UNCHANGED fixes
    BY <1>t, <1>9, RowFacts DEF RecaptureClaim, Row
  <2>4. Taken(t)
    BY <2>1, <2>2, <2>3 DEF Taken
  <2>5. run'.task = t
    BY <1>9, NoRunType DEF RecaptureClaim, Run
  <2>6. /\ pc' = "start" /\ resume' = (IF pc = "scan" THEN "scan" ELSE "top")
        /\ scan' = {s \in scan : s[1] # t}
    BY <1>9 DEF RecaptureClaim, Visited
  <2>7. \A s \in scan : s[1] \in Ids
    BY TypeParts DEF LocalOK
  <2>8. StatusInv' /\ ClaimInv'
    BY <2>3, <2>5, <2>6 DEF StatusInv, ClaimInv, Waiting
  <2>9. RunningInv'
    BY <2>1, <2>3, <2>5, <2>6 DEF RunningInv, TaskPCs
  <2>10. OpenInv'
    BY <2>1, <2>2, <2>3, <2>5, <2>6, <2>7 DEF ControlInv, OpenInv
  <2> QED BY <2>4, <2>8, <2>9, <2>10 DEF Kind, ControlInv
<1>10. ASSUME NEW t \in Ids, Pick(t) PROVE Kind /\ ControlInv'
  <2>1. rows[t].status = "pending" /\ Eligible(t) /\ t[1] \in Scope
    BY <1>10 DEF Pick, FirstRunnable, Runnable, Scoped
  <2>2. DepsMet(t) /\ rows[t].attempts < MaxOf(t) /\ rows[t].fixedBy = 0
    BY <1>f, <2>1, EligibleMet
  <2>3. /\ run'.task = t /\ pc' = "claim" /\ resume' = resume /\ scan' = scan
        /\ resume # "scan" /\ Kind /\ UNCHANGED rows
    BY <1>u, <1>10, NoRunType DEF Pick, Run, QueueInv, ScanInv, RecapturePCs
  <2>4. StatusInv'
    BY <2>1, <2>3 DEF StatusInv, Waiting
  <2>5. OpenInv'
    BY <2>1, <2>2, <2>3 DEF ControlInv, OpenInv
  <2>6. RunningInv'
    BY <1>n, <1>10, <2>3 DEF RunningInv, Pick
  <2>7. DepsMet(t)' /\ MaxOf(t)' = MaxOf(t)
    BY <2>2, <2>3, <1>f, KindDepsMet DEF MaxOf, IsFix
  <2>8. DepsMet(run.task)'
    BY <2>3, <2>7 DEF DepsMet
  <2>9. ClaimInv'
    BY <2>2, <2>3, <2>8 DEF ClaimInv
  <2> QED BY <2>3, <2>4, <2>5, <2>6, <2>9 DEF ControlInv
<1>11. CASE Claim
  <2> DEFINE t == run.task
  <2>1. /\ snap = rows[t] /\ rows[t].status = "pending" /\ rows[t].attempts < MaxOf(t)
        /\ DepsMet(t) /\ rows[t].fixedBy = 0 /\ t[1] \in Scope /\ pc = "claim"
    BY <1>11 DEF Claim, QueueInv, TaskInv, TaskPCs, ControlInv, StatusInv, ClaimInv, OpenInv
  <2>2. \A u \in Ids : rows[u].status # "in_progress"
    BY <2>1 DEF ControlInv, RunningInv
  <2>3. /\ \A u \in Ids \ {t} : rows'[u] = rows[u]
        /\ rows'[t].attempts = rows[t].attempts + 1 /\ rows'[t].fixedBy = rows[t].fixedBy
        /\ rows'[t].status = "in_progress" /\ UNCHANGED fixes
    BY <1>t, <1>11, <2>1 DEF Claim, Row
  <2>4. Taken(t)
    BY <2>1, <2>2, <2>3 DEF Taken
  <2>5. /\ pc' = "start" /\ run' = run /\ scan' = scan /\ resume' = resume
        /\ resume # "scan"
    BY <1>11 DEF Claim, QueueInv, ScanInv, RecapturePCs
  <2>6. StatusInv' /\ ClaimInv'
    BY <2>3, <2>5 DEF StatusInv, ClaimInv, Waiting
  <2>7. OpenInv'
    BY <2>1, <2>3, <2>5 DEF ControlInv, OpenInv
  <2>8. RunningInv'
    BY <2>1, <2>2, <2>3, <2>5 DEF RunningInv, TaskPCs
  <2> QED BY <1>t, <2>4, <2>6, <2>7, <2>8 DEF Kind, ControlInv
<1>12. CASE Start \/ WaitOver \/ WaitPaused \/ StopPaused
  <2>1. Kind /\ UNCHANGED rows
    BY <1>u, <1>12 DEF Start, WaitOver, WaitPaused, StopPaused
  <2>2. /\ scan' = scan /\ resume' = resume
        /\ pc \in TaskPCs /\ pc' \in TaskPCs \ {"claim"}
    BY <1>12 DEF Start, WaitOver, WaitPaused, StopPaused, TaskPCs, local
  <2>3. run'.task = run.task /\ StatusInv'
    <3>1. CASE Start
      <4>1. /\ run'.task = run.task /\ run'.event = "none" /\ run'.status = "running"
            /\ pc' = "wait" /\ pc = "start"
        BY <3>1 DEF Start, Started
      <4> QED BY <2>1, <4>1 DEF ControlInv, StatusInv, Waiting
    <3>2. CASE WaitOver \/ WaitPaused
      BY <2>1, <3>2 DEF WaitOver, WaitPaused, ControlInv, StatusInv, Waiting
    <3>3. CASE StopPaused
      <4>1. run \in Run /\ pc = "paused" /\ pc' = "drain"
        BY <3>3, RowFacts DEF StopPaused
      <4>2. run' = run \/ run' = [run EXCEPT !.status = "stopped", !.stopped = TRUE]
        BY <3>3 DEF StopPaused, StopRun
      <4>3. /\ run'.task = run.task /\ run'.event = run.event
            /\ run'.status = "complete" => run.status = "complete"
        BY <4>1, <4>2 DEF Run
      <4> QED BY <2>1, <4>1, <4>3 DEF ControlInv, StatusInv, Waiting
    <3> QED BY <1>12, <3>1, <3>2, <3>3
  <2> QED BY <2>1, <2>2, <2>3, TaskInvKept
<1>13. CASE StartRefused
  <2> DEFINE a == IF run.recap THEN "needs_review" ELSE "failed"
             b == IF run.recap THEN "refused" ELSE rows[run.task].recapture
  <2>1. rows[run.task].status = "in_progress" /\ pc \in TaskPCs
    BY <1>13 DEF StartRefused, ControlInv, StatusInv, TaskPCs
  <2>2. /\ rows' = [rows EXCEPT ![run.task].status = a, ![run.task].recapture = b]
        /\ UNCHANGED fixes
    BY <1>t, <1>13 DEF StartRefused, Row
  <2>3. Ways(run.task, a)
    BY <2>1 DEF Ways
  <2> HIDE DEF a, b
  <2>4. Moved(run.task)
    BY <1>t, <1>o, <2>1, <2>2, <2>3, StatusMoved
  <2> QED BY <1>t, <1>m, <1>r, <1>13, <2>4 DEF StartRefused
<1>14. CASE PauseDrained
  <2>1. /\ rows[run.task].status \in {"in_progress", "failed"} /\ pc \in TaskPCs
        /\ pc = "drain" /\ pc' = "err" /\ run' = run /\ scan' = scan /\ resume' = resume
    BY <1>14 DEF PauseDrained, ControlInv, StatusInv, TaskPCs, Waiting, local
  <2>2. /\ UNCHANGED rows \/ Moved(run.task)
        /\ rows'[run.task].status \in {"in_progress", "failed", "needs_review"}
    <3>1. CASE UNCHANGED rows
      BY <2>1, <3>1
    <3>2. CASE /\ rows' = [rows EXCEPT ![run.task].status = "needs_review"]
               /\ rows[run.task].status = "in_progress"
      <4>1. Ways(run.task, "needs_review")
        BY <3>2 DEF Ways
      <4> QED BY <1>t, <1>o, <1>14, <2>1, <3>2, <4>1, StatusMoved DEF PauseDrained
    <3> QED BY <1>14, <3>1, <3>2 DEF PauseDrained
  <2>3. StatusInv'
    BY <2>1, <2>2 DEF StatusInv, Waiting
  <2>4. Kind
    BY <1>t, <1>m, <1>14, <2>2 DEF Kind, PauseDrained
  <2> QED BY <2>1, <2>2, <2>3, <2>4, TaskInvKept DEF TaskPCs
<1>15. CASE MarkFailedRead
  <2>1. Kind /\ UNCHANGED rows
    BY <1>u, <1>15 DEF MarkFailedRead
  <2>2. /\ pc' = "mark" /\ run' = run /\ scan' = scan /\ resume' = resume /\ pc = "err"
    BY <1>15 DEF MarkFailedRead
  <2>3. StatusInv'
    BY <2>1, <2>2 DEF ControlInv, StatusInv, Waiting
  <2> QED BY <2>1, <2>2, <2>3, TaskInvKept DEF TaskPCs
<1>16. CASE MarkFailedWrite
  <2>1. /\ snap = rows[run.task] /\ pc \in TaskPCs
        /\ rows[run.task].status \in {"in_progress", "failed", "needs_review"}
    BY <1>16 DEF MarkFailedWrite, QueueInv, TaskInv, TaskPCs, ControlInv, StatusInv
  <2>2. Ways(run.task, "failed")
    BY <2>1 DEF Ways
  <2>3. Moved(run.task) /\ rows'[run.task].status = "failed"
    BY <1>t, <1>o, <1>16, <2>1, <2>2, WrittenMoved DEF MarkFailedWrite
  <2>4. /\ pc' = "disposition" /\ run' = run /\ scan' = scan /\ resume' = resume
    BY <1>16 DEF MarkFailedWrite
  <2>5. StatusInv'
    BY <2>3, <2>4 DEF StatusInv, Waiting
  <2> QED BY <1>t, <1>m, <2>1, <2>3, <2>4, <2>5, TaskInvKept DEF TaskPCs
<1>17. CASE ProviderStop
  <2> DEFINE ev == [kind |-> "provider", attempt |-> rows[run.task].attempts,
                    why |-> run.why]
  <2>1. /\ pc = "disposition" /\ \A u \in Ids : rows[u].status # "in_progress"
    BY <1>17 DEF ProviderStop, ControlInv, RunningInv, StatusInv, TaskPCs
  <2>2. ev \in Evidence
    BY <1>t, TypeParts DEF Evidence, Row, ControlOK, Run
  <2>3. CASE Return("error") /\ UNCHANGED ledger
    BY <1>u, <1>r, <2>3
  <2>4. CASE GoOn(run.task, FALSE) /\ UNCHANGED ledger
    BY <1>t, <1>u, <2>1, <2>4, GoOnInv
  <2>5. CASE CreateFailureRepair(run.task, ev) /\ GoOn(run.task, FALSE)
    <3> HIDE DEF ev
    <3>1. UNCHANGED <<rows, fixes>> \/ Fixed(run.task)
      BY <1>t, <2>2, <2>5, RepairKind
    <3> QED BY <1>t, <2>1, <2>5, <3>1, GoOnInv DEF Kind
  <2> QED BY <1>17, <2>3, <2>4, <2>5 DEF ProviderStop
<1>18. CASE CompleteRead
  <2>1. Kind /\ UNCHANGED rows /\ Still
    BY <1>u, <1>18 DEF CompleteRead
  <2>2. rows[run.task].status = "in_progress" /\ pc = "ok"
    BY <1>18 DEF CompleteRead, ControlInv, StatusInv
  <2>3. pc' = "complete" /\ run' = run /\ scan' = scan /\ resume' = resume
    BY <1>18, <2>2 DEF CompleteRead
  <2>4. StatusInv'
    BY <2>1, <2>2, <2>3 DEF StatusInv, Waiting
  <2> QED BY <2>1, <2>2, <2>3, <2>4, TaskInvKept DEF TaskPCs
<1>19. CASE CompleteWrite
  <2>1. /\ snap = rows[run.task] /\ pc \in TaskPCs /\ rows[run.task].status = "in_progress"
    BY <1>19 DEF CompleteWrite, QueueInv, TaskInv, TaskPCs, ControlInv, StatusInv
  <2>2. Ways(run.task, "done")
    BY <2>1 DEF Ways
  <2>3. Moved(run.task) /\ rows'[run.task].status = "done"
    BY <1>t, <1>o, <1>19, <2>1, <2>2, WrittenMoved DEF CompleteWrite
  <2>4. Kind /\ Still
    BY <1>t, <1>m, <2>3
  <2>5. \A u \in Ids : rows'[u].status # "in_progress"
    <3> SUFFICES ASSUME NEW u \in Ids, rows'[u].status = "in_progress" PROVE FALSE
      OBVIOUS
    <3>1. rows[u].status = "in_progress"
      BY <2>4 DEF Still
    <3> QED BY <2>1, <2>3, <3>1 DEF ControlInv, RunningInv, TaskPCs
  <2>6. pc' = "top" /\ resume' = resume /\ resume # "scan" /\ scan' = scan
    BY <1>19 DEF CompleteWrite, QueueInv, ScanInv, RecapturePCs
  <2> QED BY <2>4, <2>5, <2>6, FreeInv DEF ControlInv
<1>20. CASE RecapturePassed
  <2>1. rows[run.task].status = "in_progress" /\ pc \in TaskPCs
    BY <1>20 DEF RecapturePassed, ControlInv, StatusInv, TaskPCs
  <2>2. Ways(run.task, "pending")
    BY <2>1 DEF Ways
  <2>3. Moved(run.task) /\ rows'[run.task].status = "pending"
    BY <1>o, <1>20, <2>1, <2>2, FinishMoved DEF RecapturePassed
  <2> QED BY <1>t, <1>m, <1>20, <2>1, <2>3, ResumesInv DEF RecapturePassed
<1>21. CASE RecaptureFailed
  <2>1. rows[run.task].status \in {"in_progress", "failed"} /\ pc \in TaskPCs
    BY <1>21 DEF RecaptureFailed, Owned, TaskPCs
  <2>2. Ways(run.task, "failed")
    BY <2>1 DEF Ways
  <2>3. Moved(run.task) /\ rows'[run.task].status = "failed"
    BY <1>o, <1>21, <2>1, <2>2, FinishMoved DEF RecaptureFailed
  <2>4. /\ pc' = "exhaust" /\ run' = run /\ scan' = scan /\ resume' = resume
    BY <1>21 DEF RecaptureFailed, local
  <2>5. StatusInv'
    BY <2>3, <2>4 DEF StatusInv, Waiting
  <2> QED BY <1>t, <1>m, <2>1, <2>3, <2>4, <2>5, TaskInvKept DEF TaskPCs
<1>22. CASE RecaptureRetry
  <2>1. rows[run.task].status = "failed" /\ pc \in TaskPCs
    BY <1>22 DEF RecaptureRetry, ControlInv, StatusInv, TaskPCs
  <2> QED BY <1>u, <1>22, <2>1, ResumesInv DEF RecaptureRetry
<1>23. CASE RecaptureExhausted \/ RecaptureAbandoned
  <2>1. rows[run.task].status \in {"in_progress", "failed"} /\ pc \in TaskPCs
    BY <1>23 DEF RecaptureExhausted, RecaptureAbandoned, Owned, TaskPCs
  <2>2. Ways(run.task, "needs_review")
    BY <2>1 DEF Ways
  <2>3. /\ \E o : Finish(o, "needs_review")
        /\ \E res : Return(res)
    BY <1>23 DEF RecaptureExhausted, RecaptureAbandoned
  <2>4. Moved(run.task)
    BY <1>o, <2>1, <2>2, <2>3, FinishMoved
  <2> QED BY <1>t, <1>m, <1>r, <2>3, <2>4
<1> QED
  BY <1>1, <1>2, <1>3, <1>4, <1>5, <1>6, <1>7, <1>8, <1>9, <1>10, <1>11, <1>12, <1>13,
     <1>14, <1>15, <1>16, <1>17, <1>18, <1>19, <1>20, <1>21, <1>22, <1>23
  DEF QueueStep

\* A step beside the queue, which leaves its place and its task alone.
LEMMA BesideInv ==
    ASSUME TypeOK, TypeOK', QueueInv, Links, ControlInv, Kind, Still,
           UNCHANGED <<pc, scan, resume>>, run'.task = run.task,
           \A u \in Ids : rows[u].status # "absent" => rows'[u].fixedBy = rows[u].fixedBy,
           pc = "claim" => rows'[run.task] = rows[run.task],
           StatusInv'
    PROVE  ControlInv'
<1>1. Filed /\ run.task \in Ids
  BY RowFacts DEF QueueInv, RowsInv
<1>2. pc \in TaskPCs => rows[run.task].status # "absent"
  BY DEF QueueInv, TaskInv
<1>3. \A s \in scan : s[1] \in Ids
  BY TypeParts DEF LocalOK
<1>4. pc = "scan" \/ resume = "scan" => \A s \in scan : rows[s[1]].status # "absent"
  BY DEF QueueInv, ScanInv
<1>5. OpenInv'
  BY <1>1, <1>2, <1>3, <1>4 DEF ControlInv, OpenInv
<1>6. RunningInv'
  BY DEF ControlInv, RunningInv, Still
<1>7. DepsMet(run.task) => DepsMet(run.task)'
  <2> SUFFICES ASSUME DepsMet(run.task) PROVE DepsMet(run.task)'
    OBVIOUS
  <2>1. PICK t \in Ids : t = run.task
    BY <1>1
  <2>2. DepsMet(t)'
    BY <1>1, <2>1, KindDepsMet
  <2> QED BY <2>1, <2>2 DEF DepsMet
<1>8. ClaimInv'
  BY <1>7 DEF ControlInv, ClaimInv, MaxOf, IsFix
<1> QED BY <1>5, <1>6, <1>8 DEF ControlInv

\* The attempt's own steps.
LEMMA AttemptChain ==
    ASSUME TypeOK, TypeOK', Ownership, QueueInv, Links, ControlInv, AttemptStep
    PROVE  Kind /\ ControlInv'
<1>f. Filed /\ run \in Run /\ run.task \in Ids
  BY RowFacts DEF QueueInv, RowsInv
<1>w. run.live => pc \in Waiting
  BY DEF Ownership
<1>1. ASSUME NEW event, NEW why, PipelineEnds(event, why) PROVE Kind /\ ControlInv'
  <2>1. Kind /\ Still /\ UNCHANGED <<rows, pc, scan, resume>>
    BY <1>f, <1>1, StillUntaken DEF PipelineEnds, Kind, ledger, local
  <2>2. /\ run'.task = run.task /\ run'.status = run.status /\ run.event = "none"
        /\ run.live
    BY <1>f, <1>1 DEF PipelineEnds, Run
  <2>3. StatusInv'
    BY <1>w, <2>1, <2>2 DEF ControlInv, StatusInv, Waiting
  <2> QED BY <2>1, <2>2, <2>3, BesideInv
<1>2. CASE RecordFailure
  <2>1. /\ pc \in Waiting /\ UNCHANGED <<pc, scan, resume, fixes>> /\ run'.task = run.task
        /\ run'.status = run.status /\ run'.event = "plain"
        /\ run.event \in {"check", "bare"}
    BY <1>f, <1>w, <1>2 DEF RecordFailure, Run, local
  <2>2. rows[run.task].status = "in_progress" /\ rows[run.task].fixedBy = 0
    BY <2>1 DEF ControlInv, StatusInv, OpenInv, Waiting, TaskPCs
  <2>3. /\ UNCHANGED rows \/ Moved(run.task)
        /\ rows'[run.task].status \in {"in_progress", "failed"}
    <3>1. CASE UNCHANGED rows
      BY <2>2, <3>1
    <3>2. CASE rows' = [rows EXCEPT ![run.task].status = "failed",
                                    ![run.task].evidence = run.attempt]
      <4>1. Ways(run.task, "failed")
        BY <2>2 DEF Ways
      <4> QED BY <1>f, <2>1, <2>2, <3>2, <4>1, StatusMoved
    <3> QED BY <1>2, <3>1, <3>2 DEF RecordFailure
  <2>4. Kind /\ Still
    BY <1>f, <2>1, <2>3, StillUntaken DEF Kind
  <2>5. \A u \in Ids : rows'[u].fixedBy = rows[u].fixedBy
    BY <2>3 DEF Moved
  <2>6. StatusInv'
    BY <2>1, <2>2, <2>3 DEF ControlInv, StatusInv, Waiting
  <2> QED BY <2>1, <2>4, <2>5, <2>6, BesideInv DEF Waiting
<1>3. CASE ConsumeEvent
  <2>1. Kind /\ Still /\ UNCHANGED <<rows, pc, scan, resume>>
    BY <1>f, <1>3, StillUntaken DEF ConsumeEvent, Kind, ledger, local
  <2>2. /\ run'.task = run.task /\ run'.event = "consumed"
        /\ run'.status = "complete" => run.event = "complete"
    BY <1>f, <1>3 DEF ConsumeEvent, Run
  <2>3. StatusInv'
    BY <2>1, <2>2 DEF ControlInv, StatusInv, Waiting
  <2> QED BY <2>1, <2>2, <2>3, BesideInv
<1>4. CASE RunnerEnds
  <2>1. Kind /\ Still /\ UNCHANGED <<rows, pc, scan, resume>>
    BY <1>f, <1>4, StillUntaken DEF RunnerEnds, Kind, ledger, local
  <2>2. /\ run'.task = run.task /\ run'.event = run.event
        /\ run'.status = "complete" => run.status = "complete"
    BY <1>f, <1>4 DEF RunnerEnds, Run
  <2>3. StatusInv'
    BY <2>1, <2>2 DEF ControlInv, StatusInv, Waiting
  <2> QED BY <2>1, <2>2, <2>3, BesideInv
<1> QED BY <1>1, <1>2, <1>3, <1>4 DEF AttemptStep

\* The steps of everyone else, when nobody else has a release manager.
LEMMA EnvironmentChain ==
    ASSUME TypeOK, TypeOK', Ownership, QueueInv, Links, ControlInv, Environment, Workers = {}
    PROVE  Kind /\ ControlInv'
<1>f. Filed /\ run \in Run /\ run.task \in Ids
  BY RowFacts DEF QueueInv, RowsInv
<1>u. UNCHANGED ledger => Kind /\ Still /\ UNCHANGED rows
  BY <1>f, StillUntaken DEF Kind, ledger
<1>1. ASSUME NEW p \in Procs, Acquire(p) PROVE Kind /\ ControlInv'
  <2>1. Kind /\ UNCHANGED rows /\ pc = "idle" /\ pc' = "reconcile" /\ resume' = resume
    BY <1>u, <1>1 DEF Acquire, Ownership
  <2>2. scan' = Listed(Scoped) /\ resume # "scan"
    BY <1>1, <2>1 DEF Acquire, QueueInv, ScanInv, RecapturePCs
  <2>3. \A s \in scan' : s[1][1] \in Scope
    BY <2>2 DEF Listed, Scoped
  <2>4. \A t \in Ids : rows[t].status = "in_progress" => t[1] \in Scope
    BY DEF ControlInv, RunningInv
  <2>5. ASSUME NEW t \in Ids, rows[t].status = "in_progress"
        PROVE  \E s \in scan' : s[1] = t
    <3>1. t \in Scoped
      BY <2>4, <2>5 DEF Scoped, Exists
    <3>2. <<t, rows[t].evidence>> \in scan'
      BY <2>2, <3>1 DEF Listed
    <3> QED BY <3>2
  <2>6. RunningInv'
    BY <2>1, <2>4, <2>5 DEF RunningInv
  <2>7. StatusInv' /\ OpenInv' /\ ClaimInv'
    BY <2>1, <2>2, <2>3 DEF StatusInv, OpenInv, ClaimInv, Waiting, TaskPCs
  <2> QED BY <2>1, <2>6, <2>7 DEF ControlInv
<1>2. ASSUME NEW p \in Procs, StartShared(p) \/ EndShared(p) PROVE Kind /\ ControlInv'
  <2>1. Kind /\ Still /\ UNCHANGED <<rows, pc, scan, resume, run>>
    BY <1>u, <1>2 DEF StartShared, EndShared, local
  <2>2. StatusInv'
    BY <2>1 DEF ControlInv, StatusInv
  <2> QED BY <2>1, <2>2, BesideInv
<1>3. CASE Crash
  <2>1. Kind /\ Still /\ UNCHANGED rows /\ pc' = "idle" /\ scan' = {} /\ resume' = "top"
    BY <1>u, <1>3 DEF Crash
  <2>2. StatusInv' /\ OpenInv' /\ ClaimInv'
    BY <2>1 DEF StatusInv, OpenInv, ClaimInv, Waiting, TaskPCs
  <2>3. RunningInv'
    BY <2>1 DEF ControlInv, RunningInv
  <2> QED BY <2>1, <2>2, <2>3 DEF ControlInv
<1>4. CASE CancelQueue
  <2>1. Kind /\ Still /\ UNCHANGED <<rows, pc, scan, resume, run>>
    BY <1>u, <1>4 DEF CancelQueue, local
  <2>2. StatusInv'
    BY <2>1 DEF ControlInv, StatusInv
  <2> QED BY <2>1, <2>2, BesideInv
<1>5. CASE OwnerStop \/ OwnerPause
  <2>1. Kind /\ Still /\ UNCHANGED <<rows, pc, scan, resume>>
    BY <1>u, <1>5 DEF OwnerStop, OwnerPause, local
  <2>2. /\ run'.task = run.task /\ run'.event = run.event
        /\ run'.status = "complete" => run.status = "complete"
    BY <1>f, <1>5 DEF OwnerStop, OwnerPause, StopRun, Run
  <2>3. StatusInv'
    BY <2>1, <2>2 DEF ControlInv, StatusInv, Waiting
  <2> QED BY <2>1, <2>2, <2>3, BesideInv
<1>6. ASSUME NEW t \in Ids, NEW e \in FindingIds, Finding(t, e) PROVE Kind /\ ControlInv'
  <2> DEFINE ev == [kind |-> "finding", attempt |-> 0, why |-> e]
  <2>1. /\ rows[t].status = "done" /\ CreateFailureRepair(t, ev)
        /\ UNCHANGED <<pc, scan, resume, run>>
    BY <1>6 DEF Finding, local
  <2>2. ev \in Evidence
    BY DEF Evidence
  <2> HIDE DEF ev
  <2>3. UNCHANGED <<rows, fixes>> \/ Fixed(t)
    BY <2>1, <2>2, RepairKind
  <2>4. Kind /\ Still
    BY <1>f, <2>3, StillUntaken DEF Kind
  <2>5. \A u \in Ids : rows[u].status # "absent" => rows'[u] = rows[u]
    <3>1. CASE UNCHANGED <<rows, fixes>>
      BY <3>1
    <3>2. CASE Fixed(t)
      <4>1. PICK n \in 1..MaxFixes :
               /\ rows[<<t[1], n>>].status = "absent"
               /\ rows[t].status # "failed" => rows'[t] = rows[t]
               /\ \A u \in Ids \ {t, <<t[1], n>>} : rows'[u] = rows[u]
        BY <1>f, <3>2, FixedRows
      <4> QED BY <2>1, <4>1
    <3> QED BY <2>3, <3>1, <3>2
  <2>6. pc \in TaskPCs => rows'[run.task] = rows[run.task]
    BY <1>f, <2>5 DEF QueueInv, TaskInv
  <2>7. StatusInv'
    BY <2>1, <2>6 DEF ControlInv, StatusInv, TaskPCs, Waiting
  <2> QED BY <2>1, <2>4, <2>5, <2>6, <2>7, BesideInv DEF TaskPCs
<1> QED BY <1>1, <1>2, <1>3, <1>4, <1>5, <1>6 DEF Environment

\* A step of nobody.
LEMMA StutterChain ==
    ASSUME TypeOK, TypeOK', QueueInv, Links, ControlInv, UNCHANGED vars
    PROVE  Kind /\ ControlInv'
<1>1. Kind /\ Still /\ UNCHANGED <<rows, pc, scan, resume, run>>
  BY DEF vars, Kind, Still
<1>2. StatusInv'
  BY <1>1 DEF ControlInv, StatusInv
<1> QED BY <1>1, <1>2, BesideInv

\* The ledger before the first queue has no links and nothing runs.
LEMMA ChainInit == Init => Links /\ ControlInv /\ DependenciesDelivered
<1> SUFFICES ASSUME Init PROVE Links /\ ControlInv /\ DependenciesDelivered
  OBVIOUS
<1>1. /\ pc = "idle" /\ scan = {} /\ resume = "top"
  BY DEF Init
<1>2. \A t \in Ids : /\ rows[t].fixedBy = 0 /\ rows[t].attempts = 0
                     /\ rows[t].status # "in_progress"
  BY DEF Init, Blank
<1>3. Links /\ StatusInv /\ OpenInv /\ RunningInv /\ ClaimInv
  BY <1>1, <1>2 DEF Links, StatusInv, OpenInv, RunningInv, ClaimInv, Waiting, TaskPCs
<1>4. DependenciesDelivered
  BY <1>2, DependenciesAre
<1> QED BY <1>3, <1>4 DEF ControlInv

\* All that is known of a ledger that no other release manager writes.
Alone == Workers = {} => QueueInv /\ Links /\ ControlInv /\ DependenciesDelivered

\* One step of it.
LEMMA AloneStep ==
    ASSUME TypeOK, TypeOK', Ownership, QueueInv, Links, ControlInv, [Next]_vars, Workers = {}
    PROVE  Kind /\ Links' /\ ControlInv' /\ (DependenciesDelivered => DependenciesDelivered')
<1>1. Kind /\ ControlInv'
  BY QueueChain, AttemptChain, EnvironmentChain, StutterChain DEF Next
<1>2. Filed
  BY DEF QueueInv, RowsInv
<1> QED BY <1>1, <1>2, KindLinks, KindDependencies

\* Alone holds of every reachable state.
LEMMA AloneAlways == Spec => []Alone
<1>1. Init => Alone
  BY QueueInvInit, ChainInit DEF Alone
<1>2. TypeOK /\ TypeOK' /\ Ownership /\ Alone /\ (Workers = {} => QueueInv)' /\ [Next]_vars => Alone'
  BY AloneStep DEF Alone
<1> QED BY <1>1, <1>2, TypeCorrect, OwnershipAlways, QueueInvAlways, PTL DEF Spec

\* A task that was ever attempted, in whatever order queues, recaptures, fixes
\* and crashes came about, had all its dependencies and those of its story
\* delivered, directly or through a chain of fixes of any length, and they are
\* still delivered (runnableTasks, as long as the queue has the ledger for
\* itself).
THEOREM DependenciesAlwaysDelivered == Spec => [](Workers = {} => DependenciesDelivered)
<1>1. Alone => (Workers = {} => DependenciesDelivered)
  BY DEF Alone
<1> QED BY <1>1, AloneAlways, PTL

\* A boundary that is clear is delivered: every chain of the scope ends in a
\* row that is done.
LEMMA ClearDelivered ==
    ASSUME TypeOK, Filed, Links, BoundaryClear, NEW t \in Scoped
    PROVE  Delivered(t)
<1> DEFINE r == t[1]
           T == {n \in 0..MaxFixes : rows[<<r, n>>].status # "absent" =>
                                        DeliveredOf(rows, <<r, n>>)}
<1>1. /\ t \in Ids /\ r \in Roots /\ t[2] \in 0..MaxFixes /\ t = <<r, t[2]>>
      /\ rows[t].status # "absent" /\ r \in Scope
  BY DEF Scoped, Ids, Exists
<1>2. Upward(rows) /\ fixes[r] \in 0..MaxFixes
  BY <1>1, LinksUpward, TypeParts DEF LedgerOK
<1>3. ASSUME NEW n \in 0..MaxFixes, (n + 1)..MaxFixes \subseteq T PROVE n \in T
  <2> SUFFICES ASSUME rows[<<r, n>>].status # "absent" PROVE DeliveredOf(rows, <<r, n>>)
    OBVIOUS
  <2> DEFINE k == rows[<<r, n>>].fixedBy
  <2>1. <<r, n>> \in Scoped /\ <<r, n>> \in Ids
    BY <1>1 DEF Scoped, Ids, Exists
  <2>2. \/ rows[<<r, n>>].status = "done"
        \/ rows[<<r, n>>].status = "failed" /\ k # 0
    BY <2>1 DEF BoundaryClear
  <2>3. k # 0 => DeliveredOf(rows, <<r, k>>)
    <3> SUFFICES ASSUME k # 0 PROVE DeliveredOf(rows, <<r, k>>)
      OBVIOUS
    <3>1. k \in 0..MaxFixes
      BY <2>1, RowFacts DEF Row
    <3>2. n < k /\ k <= fixes[r]
      BY <2>1 DEF Links
    <3>3. k \in (n + 1)..MaxFixes
      BY <3>1, <3>2
    <3>4. <<r, k>> \in Ids
      BY <1>1, <3>1 DEF Ids
    <3>5. rows[<<r, k>>].status # "absent"
      BY <3>2, <3>4 DEF Filed
    <3> HIDE DEF k
    <3> QED BY <1>3, <3>3, <3>5
  <2> HIDE DEF k
  <2> QED BY <1>1, <1>2, <2>2, <2>3, DeliveredUnfolds DEF k
<1> HIDE DEF T
<1>4. 0..MaxFixes \subseteq T
  BY <1>3, Downwards
<1>5. DeliveredOf(rows, <<r, t[2]>>)
  BY <1>1, <1>4 DEF T
<1> QED BY <1>1, <1>5, DeliveredNow

\* Only Drained returns "complete".
LEMMA OnlyDrainedCompletes ==
    ASSUME TypeOK, [Next]_vars, pc # "idle", pc' = "idle", result' = "complete"
    PROVE  BoundaryClear
<1>r. ASSUME NEW res, Return(res) PROVE res = "complete"
  BY <1>r DEF Return
<1>1. CASE QueueStep
  <2>1. ASSUME NEW s \in scan, Reconcile(s[1]) PROVE FALSE
    BY <2>1 DEF Reconcile
  <2>2. CASE Reconciled \/ Pass \/ PassDone
    BY <2>2 DEF Reconciled, Pass, PassDone
  <2>3. CASE Yield \/ PassCancelled \/ LeaveInterrupted \/ CompleteRefused \/ RecaptureDisowned
    BY <1>r, <2>3 DEF Yield, PassCancelled, LeaveInterrupted, CompleteRefused,
       RecaptureDisowned
  <2>4. CASE Drained
    BY <1>r, <2>4 DEF Drained
  <2>5. ASSUME NEW t \in Ids, \/ RepairFromReceipt(t) \/ RecaptureReview(t)
                              \/ RecaptureWaits(t) \/ RecaptureClaim(t) \/ Pick(t)
        PROVE  FALSE
    <3>1. ASSUME NEW b, GoOn(t, b) PROVE FALSE
      BY <3>1 DEF GoOn
    <3> QED BY <1>r, <2>5, <3>1 DEF RepairFromReceipt, RecaptureReview, RecaptureWaits,
               RecaptureClaim, Pick
  <2>6. CASE Claim \/ Start \/ WaitOver \/ WaitPaused \/ StopPaused \/ PauseDrained
             \/ MarkFailedRead \/ MarkFailedWrite \/ CompleteWrite \/ RecaptureFailed
    BY <2>6 DEF Claim, Start, WaitOver, WaitPaused, StopPaused, PauseDrained,
       MarkFailedRead, MarkFailedWrite, CompleteWrite, RecaptureFailed
  <2>7. CASE StartRefused \/ RecaptureExhausted \/ RecaptureAbandoned
    BY <1>r, <2>7 DEF StartRefused, RecaptureExhausted, RecaptureAbandoned
  <2>8. CASE ProviderStop
    <3>1. Return("error") \/ GoOn(run.task, FALSE)
      BY <2>8 DEF ProviderStop
    <3> QED BY <1>r, <3>1 DEF GoOn
  <2>9. CASE CompleteRead
    <3>1. Return("error") \/ pc' \in {"top", "complete"}
      BY <2>9 DEF CompleteRead
    <3> QED BY <1>r, <3>1
  <2>10. CASE RecapturePassed \/ RecaptureRetry
    BY <2>10, TypeParts DEF RecapturePassed, RecaptureRetry, RecaptureResumes, LocalOK
  <2> QED BY <1>1, <2>1, <2>2, <2>3, <2>4, <2>5, <2>6, <2>7, <2>8, <2>9, <2>10 DEF QueueStep
<1>2. CASE AttemptStep \/ UNCHANGED vars
  BY <1>2 DEF AttemptStep, PipelineEnds, RecordFailure, ConsumeEvent, RunnerEnds, vars
<1>3. CASE Environment
  BY <1>3 DEF Environment, Acquire, StartShared, EndShared, Crash, CancelQueue, OwnerStop,
     OwnerPause, Finding, WorkerRead, WorkerWrite, WorkerRefused
<1> QED BY <1>1, <1>2, <1>3 DEF Next

\* A queue that returns without an error delivered every task of its scope, for
\* every ledger and every length of fix chains: what retainedTaskBoundary looks
\* at row by row (done, or failed and closed) is enough, because every chain
\* leads to later fixes that are filed, of the same scope, and so ends.
THEOREM CompletionMeansDelivered == Workers = {} /\ Spec => CompleteMeansDelivered
<1>1. TypeOK /\ Alone /\ Workers = {} /\ [Next]_vars
        => [pc # "idle" /\ pc' = "idle" /\ result' = "complete"
               => \A t \in Scoped : Delivered(t)]_vars
  BY ClearDelivered, OnlyDrainedCompletes DEF Alone, QueueInv, RowsInv
<1>2. Workers = {} => (Workers = {})'
  OBVIOUS
<1> QED BY <1>1, <1>2, TypeCorrect, AloneAlways, PTL DEF Spec, CompleteMeansDelivered

----------------------------------------------------------------------------
(* The queue keeps the promise of the backlog *)

\* A delivered task is fulfilled: a set that holds it and the heirs of its
\* members, and no delivered task, would have a last fix whose heir it lacks.
LEMMA DeliveredFulfilled ==
    ASSUME TypeOK, Links, NEW r \in Roots, Delivered(<<r, 0>>)
    PROVE  Backlog!Fulfilled(<<r, 0>>)
<1> SUFFICES ASSUME NEW S \in SUBSET Ids, <<r, 0>> \in S,
                    \A u \in S : HeirOf(u) \in S,
                    \A u \in S : StateOf(rows[u]) # "delivered"
             PROVE  FALSE
  BY DEF Backlog!Fulfilled
<1> DEFINE T == {n \in 0..MaxFixes : ~(<<r, n>> \in S /\ DeliveredOf(rows, <<r, n>>))}
<1>1. ASSUME NEW n \in 0..MaxFixes, (n + 1)..MaxFixes \subseteq T PROVE n \in T
  <2> SUFFICES ASSUME <<r, n>> \in S, DeliveredOf(rows, <<r, n>>) PROVE FALSE
    OBVIOUS
  <2> DEFINE k == rows[<<r, n>>].fixedBy
  <2>1. rows[<<r, n>>].status # "done"
    BY DEF StateOf
  <2>2. k # 0 /\ DeliveredOf(rows, <<r, k>>)
    BY <2>1, LinksUpward, DeliveredUnfolds
  <2>3. k \in 0..MaxFixes /\ n < k
    BY <2>2, RowFacts DEF Row, Links
  <2>4. <<r, k>> \in S
    BY <2>2 DEF HeirOf
  <2>5. k \in T
    BY <1>1, <2>3
  <2> QED BY <2>2, <2>4, <2>5
<1> HIDE DEF T
<1>2. 0..MaxFixes \subseteq T
  BY <1>1, Downwards
<1>3. 0 \in T
  BY <1>2
<1> QED BY <1>3, DeliveredNow DEF T

\* What the backlog's reader sees, of rows rw.
SeenOf(rw) == [t \in Ids |-> StateOf(rw[t])]
TakenOf(rw) == [t \in Ids |-> rw[t].attempts]
HeirsOf(rw) == [t \in Ids |-> IF rw[t].fixedBy = 0 THEN t ELSE <<t[1], rw[t].fixedBy>>]

\* The backlog's actions in these words: a task that is taken when nothing runs
\* and what it waits for is fulfilled.
LEMMA BacklogTake ==
    ASSUME NEW t \in Ids,
           SeenOf(rows)[t] \in {"open", "failed"}, TakenOf(rows)[t] < MaxOf(t),
           \A u \in Ids : SeenOf(rows)[u] # "running",
           \A d \in Deps[t[1]] : Backlog!Fulfilled(<<d, 0>>),
           SeenOf(rows') = [SeenOf(rows) EXCEPT ![t] = "running"],
           TakenOf(rows') = [TakenOf(rows) EXCEPT ![t] = @ + 1],
           HeirsOf(rows') = HeirsOf(rows)
    PROVE  Backlog!Take(t)
BY DEF Backlog!Take, Backlog!Goes, SeenOf, TakenOf, HeirsOf, HeirOf

\* An execution that ends is settled.
LEMMA BacklogSettle ==
    ASSUME NEW t \in Ids, NEW next \in {"open", "failed", "review", "delivered"},
           SeenOf(rows)[t] = "running",
           SeenOf(rows') = [SeenOf(rows) EXCEPT ![t] = next],
           TakenOf(rows') = TakenOf(rows), HeirsOf(rows') = HeirsOf(rows)
    PROVE  Backlog!Settle(t)
BY DEF Backlog!Settle, Backlog!Goes, SeenOf, TakenOf, HeirsOf, HeirOf

\* A failure, or a review, that is looked at again is reconsidered.
LEMMA BacklogReconsider ==
    ASSUME NEW t \in Ids, NEW next,
           \/ SeenOf(rows)[t] = "failed" /\ TakenOf(rows)[t] < MaxOf(t) /\ next = "open"
           \/ SeenOf(rows)[t] = "failed" /\ next = "review"
           \/ SeenOf(rows)[t] = "review" /\ next = "failed",
           SeenOf(rows') = [SeenOf(rows) EXCEPT ![t] = next],
           TakenOf(rows') = TakenOf(rows), HeirsOf(rows') = HeirsOf(rows)
    PROVE  Backlog!Reconsider(t)
BY DEF Backlog!Reconsider, Backlog!Goes, SeenOf, TakenOf, HeirsOf, HeirOf

\* A new task that takes the place of u, or adds to it, follows it.
LEMMA BacklogFollow ==
    ASSUME NEW t \in Ids, NEW u \in Ids,
           SeenOf(rows)[t] = "absent", SeenOf(rows)[u] \in {"failed", "delivered"},
           SeenOf(rows') = [SeenOf(rows) EXCEPT ![t] = "open",
                                                ![u] = IF @ = "failed" THEN "closed" ELSE @],
           HeirsOf(rows') = IF SeenOf(rows)[u] = "failed"
                              THEN [HeirsOf(rows) EXCEPT ![u] = t] ELSE HeirsOf(rows),
           TakenOf(rows') = TakenOf(rows)
    PROVE  Backlog!Follow(t, u)
BY DEF Backlog!Follow, SeenOf, TakenOf, HeirsOf, HeirOf

\* Any of these that shows is a step of the backlog.
LEMMA BacklogStep ==
    ASSUME NEW t \in Ids, SeenOf(rows')[t] # SeenOf(rows)[t],
           \/ Backlog!Take(t) \/ Backlog!Settle(t) \/ Backlog!Reconsider(t)
           \/ \E u \in Ids : Backlog!Follow(t, u)
    PROVE  Backlog!Next
BY DEF Backlog!Next, SeenOf

\* What does not show is none.
LEMMA BacklogStutter ==
    ASSUME SeenOf(rows') = SeenOf(rows), TakenOf(rows') = TakenOf(rows),
           HeirsOf(rows') = HeirsOf(rows)
    PROVE  UNCHANGED Backlog!taskVars
BY DEF Backlog!taskVars, SeenOf, TakenOf, HeirsOf, HeirOf

\* The backlog starts with its tasks absent, open or delivered.
LEMMA BacklogInit == Init => Backlog!Init
BY DEF Init, Backlog!Init, StateOf, HeirOf, Blank, Row, Ids

\* Settling or reconsidering an open task is settling or reconsidering it.
LEMMA MovedBacklog ==
    ASSUME TypeOK, TypeOK', NEW t \in Ids, Moved(t)
    PROVE  Backlog!Next \/ UNCHANGED Backlog!taskVars
<1> DEFINE next == StateOf(rows'[t])
<1>1. /\ \A u \in Ids \ {t} : rows'[u] = rows[u]
      /\ rows'[t].attempts = rows[t].attempts
      /\ rows[t].fixedBy = 0 /\ rows'[t].fixedBy = 0
  BY DEF Moved
<1>2. SeenOf(rows') = [SeenOf(rows) EXCEPT ![t] = next]
  BY <1>1 DEF SeenOf
<1>3. TakenOf(rows') = TakenOf(rows) /\ HeirsOf(rows') = HeirsOf(rows)
  BY <1>1 DEF TakenOf, HeirsOf
<1>4. SeenOf(rows)[t] = StateOf(rows[t]) /\ TakenOf(rows)[t] = rows[t].attempts
  BY DEF SeenOf, TakenOf
<1>5. CASE rows'[t].status = rows[t].status
  <2>1. next = SeenOf(rows)[t]
    BY <1>1, <1>4, <1>5 DEF StateOf
  <2>2. SeenOf(rows') = SeenOf(rows)
    BY <1>1, <2>1, <1>4 DEF SeenOf
  <2> QED BY <1>3, <2>2, BacklogStutter
<1>6. CASE rows'[t].status # rows[t].status
  <2>1. \/ /\ SeenOf(rows)[t] = "running" /\ next \in {"open", "failed", "review", "delivered"}
        \/ SeenOf(rows)[t] = "failed" /\ TakenOf(rows)[t] < MaxOf(t) /\ next = "open"
        \/ SeenOf(rows)[t] = "failed" /\ next = "review"
        \/ SeenOf(rows)[t] = "review" /\ next = "failed"
    BY <1>1, <1>4, <1>6 DEF Moved, Ways, StateOf
  <2>2. SeenOf(rows')[t] = next /\ SeenOf(rows)[t] # next
    BY <2>1 DEF SeenOf
  <2> HIDE DEF next
  <2>3. Backlog!Settle(t) \/ Backlog!Reconsider(t)
    BY <1>2, <1>3, <2>1, BacklogSettle, BacklogReconsider
  <2> QED BY <2>2, <2>3, BacklogStep
<1> QED BY <1>5, <1>6

\* Taking a task is taking it: what it waits for is fulfilled.
LEMMA TakenBacklog ==
    ASSUME TypeOK, TypeOK', Links, NEW t \in Ids, Taken(t)
    PROVE  Backlog!Next
<1>1. /\ \A u \in Ids \ {t} : rows'[u] = rows[u]
      /\ rows'[t].attempts = rows[t].attempts + 1 /\ rows[t].attempts < MaxOf(t)
      /\ rows[t].fixedBy = 0 /\ rows'[t].fixedBy = 0
      /\ rows[t].status \in {"pending", "failed"} /\ rows'[t].status = "in_progress"
      /\ \A u \in Ids : rows[u].status # "in_progress"
  BY DEF Taken
<1>2. StateOf(rows[t]) \in {"open", "failed"} /\ StateOf(rows'[t]) = "running"
  BY <1>1 DEF StateOf
<1>3. SeenOf(rows') = [SeenOf(rows) EXCEPT ![t] = "running"]
  BY <1>1, <1>2 DEF SeenOf
<1>4. /\ TakenOf(rows') = [TakenOf(rows) EXCEPT ![t] = @ + 1]
      /\ HeirsOf(rows') = HeirsOf(rows)
  BY <1>1 DEF TakenOf, HeirsOf
<1>5. /\ SeenOf(rows)[t] \in {"open", "failed"} /\ SeenOf(rows')[t] = "running"
      /\ TakenOf(rows)[t] < MaxOf(t)
  BY <1>1, <1>2 DEF SeenOf, TakenOf
<1>6. \A u \in Ids : SeenOf(rows)[u] # "running"
  BY <1>1, RowFacts DEF SeenOf, StateOf, Row, Status
<1>7. \A d \in Deps[t[1]] : Backlog!Fulfilled(<<d, 0>>)
  <2>1. Deps[t[1]] \subseteq Roots
    BY DEF Ids
  <2> QED BY <2>1, DeliveredFulfilled DEF Taken, DepsMet
<1>8. Backlog!Take(t)
  BY <1>3, <1>4, <1>5, <1>6, <1>7, BacklogTake
<1> QED BY <1>5, <1>8, BacklogStep

\* A task that is not there yet was never taken.
Fresh == \A t \in Ids : rows[t].status = "absent" => rows[t].attempts = 0

\* No step changes that.
LEMMA KindFresh == ASSUME TypeOK, Filed, Links, Fresh, Kind PROVE Fresh'
<1>1. CASE UNCHANGED <<rows, fixes>>
  BY <1>1 DEF Fresh
<1>2. ASSUME NEW t \in Ids, Moved(t) \/ Taken(t) PROVE Fresh'
  BY <1>2 DEF Moved, Ways, Taken, Fresh
<1>3. ASSUME NEW t \in Ids, Fixed(t) PROVE Fresh'
  <2>1. PICK n \in 1..MaxFixes :
          /\ rows'[<<t[1], n>>].attempts = 0
          /\ rows'[t].status = rows[t].status /\ rows'[t].attempts = rows[t].attempts
          /\ \A u \in Ids \ {t, <<t[1], n>>} : rows'[u] = rows[u]
    BY <1>3, FixedRows
  <2> QED BY <2>1 DEF Fresh
<1> QED BY <1>1, <1>2, <1>3 DEF Kind

\* A fix follows the task it is filed for.
LEMMA FixedBacklog ==
    ASSUME TypeOK, TypeOK', Filed, Links, Fresh, NEW t \in Ids, Fixed(t)
    PROVE  Backlog!Next
<1>1. PICK n \in 1..MaxFixes :
         /\ <<t[1], n>> \in Ids /\ <<t[1], n>> # t
         /\ rows[<<t[1], n>>].status = "absent" /\ rows[<<t[1], n>>].fixedBy = 0
         /\ rows'[<<t[1], n>>].status = "pending" /\ rows'[<<t[1], n>>].fixedBy = 0
         /\ rows'[<<t[1], n>>].attempts = 0
         /\ rows'[t].status = rows[t].status /\ rows'[t].attempts = rows[t].attempts
         /\ rows[t].status = "failed" => rows'[t].fixedBy = n
         /\ rows[t].status # "failed" => rows'[t] = rows[t]
         /\ \A u \in Ids \ {t, <<t[1], n>>} : rows'[u] = rows[u]
  BY FixedRows
<1> DEFINE x == <<t[1], n>>
<1>x. rows[x].attempts = 0
  BY <1>1 DEF Fresh
<1>2. rows[t].status \in {"failed", "done"} /\ rows[t].fixedBy = 0
  BY DEF Fixed, RepairAllowed
<1>3. /\ StateOf(rows[x]) = "absent" /\ StateOf(rows'[x]) = "open"
      /\ StateOf(rows[t]) \in {"failed", "delivered"}
      /\ StateOf(rows'[t]) = IF StateOf(rows[t]) = "failed" THEN "closed" ELSE StateOf(rows[t])
      /\ StateOf(rows[t]) = "failed" <=> rows[t].status = "failed"
  BY <1>1, <1>2 DEF StateOf
<1>4. SeenOf(rows') = [SeenOf(rows) EXCEPT ![x] = "open",
                                           ![t] = IF @ = "failed" THEN "closed" ELSE @]
  BY <1>1, <1>3 DEF SeenOf
<1>5. TakenOf(rows') = TakenOf(rows)
  BY <1>1, <1>x DEF TakenOf
<1>6. /\ SeenOf(rows)[x] = "absent" /\ SeenOf(rows')[x] = "open"
      /\ SeenOf(rows)[t] \in {"failed", "delivered"}
      /\ SeenOf(rows)[t] = "failed" <=> rows[t].status = "failed"
  BY <1>1, <1>3 DEF SeenOf
<1>7. HeirsOf(rows') = IF SeenOf(rows)[t] = "failed"
                         THEN [HeirsOf(rows) EXCEPT ![t] = x] ELSE HeirsOf(rows)
  <2>1. CASE rows[t].status = "failed"
    <3>1. /\ rows'[t].fixedBy = n /\ n # 0
          /\ \A u \in Ids \ {t} : rows'[u].fixedBy = rows[u].fixedBy
      BY <1>1, <2>1
    <3>2. HeirsOf(rows') = [HeirsOf(rows) EXCEPT ![t] = x]
      BY <3>1 DEF HeirsOf
    <3> QED BY <1>6, <2>1, <3>2
  <2>2. CASE rows[t].status # "failed"
    <3>1. \A u \in Ids : rows'[u].fixedBy = rows[u].fixedBy
      BY <1>1, <2>2
    <3>2. HeirsOf(rows') = HeirsOf(rows)
      BY <3>1 DEF HeirsOf
    <3> QED BY <1>6, <2>2, <3>2
  <2> QED BY <2>1, <2>2
<1>8. Backlog!Follow(x, t)
  BY <1>1, <1>4, <1>5, <1>6, <1>7, BacklogFollow
<1> QED BY <1>1, <1>6, <1>8, BacklogStep

\* Every step of the queue is a step of the backlog, or none.
LEMMA KindBacklog ==
    ASSUME TypeOK, TypeOK', Filed, Links, Fresh, Kind
    PROVE  Backlog!Next \/ UNCHANGED Backlog!taskVars
<1>1. CASE UNCHANGED <<rows, fixes>>
  BY <1>1, BacklogStutter
<1> QED BY <1>1, MovedBacklog, TakenBacklog, FixedBacklog DEF Kind

\* Every step of a queue that is alone with its ledger is of one of the kinds.
LEMMA AloneKind ==
    ASSUME TypeOK, TypeOK', Ownership, Alone, Workers = {}, [Next]_vars
    PROVE  Filed /\ Links /\ Kind
<1>1. QueueInv /\ Links /\ ControlInv
  BY DEF Alone
<1>2. Kind
  BY <1>1, AloneStep
<1> QED BY <1>1, <1>2 DEF QueueInv, RowsInv

\* ImplementsTaskSpec: for any tasks, dependencies, budgets and number of fixes,
\* and however often the processes that own the queue crash or are cancelled,
\* executeTaskQueue and what it calls keep the promise of the backlog.
THEOREM QueueImplementsBacklog == Workers = {} /\ Spec => ImplementsTaskSpec
<1> DEFINE Inv == Workers = {} => Fresh
<1>1. Init => Inv
  BY DEF Init, Blank, Fresh
<1>2. TypeOK /\ TypeOK' /\ Ownership /\ Alone /\ Inv /\ [Next]_vars => Inv'
  BY AloneKind, KindFresh
<1>3. TypeOK /\ TypeOK' /\ Ownership /\ Alone /\ Inv /\ Workers = {} /\ [Next]_vars
        => [Backlog!Next]_(Backlog!taskVars)
  BY AloneKind, KindBacklog
<1>4. Workers = {} => (Workers = {})'
  OBVIOUS
<1> HIDE DEF Inv
<1> QED BY <1>1, <1>2, <1>3, <1>4, BacklogInit, AloneAlways, OwnershipAlways, TypeCorrect, PTL
        DEF Spec, ImplementsTaskSpec, Backlog!Spec

\* What a reader of the ledger may rely on: a task that is delivered, itself or
\* by the last of its fixes, is never undelivered.
DeliveryLasts == [][\A t \in Ids : Delivered(t) => Delivered(t)']_vars

\* Two tasks are never in progress, after a crash between two statements too.
OneInProgress ==
    \A t, u \in Ids : rows[t].status = "in_progress" /\ rows[u].status = "in_progress" => t = u

\* executeTaskQueue, reconcileInterruptedTasks, recaptureTaskFailure and
\* CreateFailureRepair: in a ledger that no other release manager writes, nothing
\* reopens a task that was done or closed, and so no chain of fixes that
\* ended well comes apart.
THEOREM DeliveryIsLasting == Workers = {} /\ Spec => DeliveryLasts
<1>1. ASSUME TypeOK, TypeOK', Ownership, Alone, Workers = {}, [Next]_vars
      PROVE  \A t \in Ids : Delivered(t) => Delivered(t)'
  <2> SUFFICES ASSUME NEW t \in Ids, Delivered(t) PROVE Delivered(t)'
    OBVIOUS
  <2>1. PICK r \in Roots, n \in 0..MaxFixes : t = <<r, n>>
    BY DEF Ids
  <2> QED BY <1>1, <2>1, AloneKind, KindDelivered
<1>2. TypeOK /\ TypeOK' /\ Ownership /\ Alone /\ Workers = {} /\ [Next]_vars
        => [\A t \in Ids : Delivered(t) => Delivered(t)']_vars
  BY <1>1
<1>3. Workers = {} => (Workers = {})'
  OBVIOUS
<1> QED BY <1>2, <1>3, TypeCorrect, OwnershipAlways, AloneAlways, PTL DEF Spec, DeliveryLasts

\* Claim and RecaptureClaim: a task is taken only when no other is in progress,
\* be it one that a crashed queue left behind, since the new queue reconciles
\* before it takes any.
THEOREM NeverTwoInProgress == Spec => [](Workers = {} => OneInProgress)
<1> DEFINE Inv == Workers = {} => OneInProgress
<1>1. Init => Inv
  BY DEF Init, Blank, OneInProgress
<1>2. ASSUME TypeOK, Filed, Links, OneInProgress, Kind PROVE OneInProgress'
  <2>1. CASE UNCHANGED <<rows, fixes>>
    BY <1>2, <2>1 DEF OneInProgress
  <2>2. ASSUME NEW t \in Ids, Moved(t) PROVE OneInProgress'
    BY <1>2, <2>2 DEF Moved, Ways, OneInProgress
  <2>3. ASSUME NEW t \in Ids, Taken(t) PROVE OneInProgress'
    BY <2>3 DEF Taken, OneInProgress
  <2>4. ASSUME NEW t \in Ids, Fixed(t) PROVE OneInProgress'
    <3>1. PICK n \in 1..MaxFixes :
            /\ rows'[<<t[1], n>>].status = "pending"
            /\ rows'[t].status = rows[t].status
            /\ \A u \in Ids \ {t, <<t[1], n>>} : rows'[u] = rows[u]
      BY <1>2, <2>4, FixedRows
    <3> QED BY <1>2, <3>1 DEF OneInProgress
  <2> QED BY <1>2, <2>1, <2>2, <2>3, <2>4 DEF Kind
<1>3. TypeOK /\ TypeOK' /\ Ownership /\ Alone /\ Inv /\ [Next]_vars => Inv'
  BY <1>2, AloneKind
<1> HIDE DEF Inv
<1>4. Spec => []Inv
  BY <1>1, <1>3, TypeCorrect, OwnershipAlways, AloneAlways, PTL DEF Spec
<1> QED BY <1>4 DEF Inv
============================================================================
