----------------------------- MODULE TaskQueue -----------------------------
(***************************************************************************)
(* The sequential task queue (pkg/manager, executeTaskQueue) over the      *)
(* durable task ledger (internal/release and pkg/db/state, SQLite).        *)
(*                                                                         *)
(* A queue takes the workspace's exclusive execution lock, reconciles what *)
(* an earlier process left behind, and then loops: give every failed check *)
(* its fix task (or check it again when its receipt has no diagnostics),   *)
(* pick one runnable task, run it, settle it.  Everything in rows, fixes   *)
(* and steps is durable; everything else dies with the process.            *)
(*                                                                         *)
(* A task id is <<root, n>>: n = 0 is the original task, n > 0 its n-th    *)
(* fix task (metadata repair_of = root).  An attempt's receipt is named by *)
(* the attempt count of the task at the time, which no two attempts share. *)
(***************************************************************************)
EXTENDS Integers, FiniteSets

CONSTANTS
    Roots,        \* the original tasks of the ledger
    Scope,        \* the roots this queue was asked to run (StoryIDs, TaskIDs)
    Deps,         \* Deps[r]: the tasks r depends on
    Stories,      \* the stories
    StoryOf,      \* StoryOf[r]: the story of r and of all its fixes
    StoryDeps,    \* StoryDeps[s]: the stories s depends on
    DoneRoots,    \* roots that earlier queues have delivered
    Hitl,         \* roots whose mode is HITL: a human runs them, not a queue
    MaxAttempts,  \* MaxAttempts[r]: max_attempts of the original task
    MaxFixes,     \* bound: fix rows the model keeps per root
    Reasons,      \* provider stop reasons that carry a cause
    FindingIds,   \* evidence ids of findings reported on delivered work
    Procs,        \* processes that share the workspace
    NoProc,       \* no process
    Workers       \* other release managers over the same ledger (MCP tools)

FixAttempts == 2  \* max_attempts of every fix task

ASSUME TaskQueueAssumption ==
    /\ Roots # {}
    /\ Scope \subseteq Roots
    /\ Hitl \subseteq Roots
    /\ DoneRoots \subseteq Roots
    /\ Deps \in [Roots -> SUBSET Roots]
    /\ StoryOf \in [Roots -> Stories]
    /\ StoryDeps \in [Stories -> SUBSET Stories]
    /\ MaxAttempts \in [Roots -> Nat]
    /\ MaxFixes \in Nat
    /\ MaxFixes <= 64   \* Delivered follows at most 64 links
    /\ NoProc \notin Procs
    /\ "none" \notin Reasons \cup FindingIds

VARIABLES
    rows,       \* the tasks table
    fixes,      \* fixes[r]: how many rows have repair_of = r
    steps,      \* run_steps: the deterministic failure receipts
    holder,     \* the process holding the execution lock exclusively
    shared,     \* processes holding it shared (one-task starts)
    pc,         \* where the queue of the holder is
    ctx,        \* the queue's context is cancelled
    scan,       \* tasks the current pass over the ledger has not visited, each
                \* with the evidence its row had when the pass listed it
    processed,  \* processedFailure of the current pass
    resume,     \* where the queue goes on after a recapture
    snap,       \* the row a read-modify-write of the queue has read
    run,        \* the attempt the queue started
    result,     \* what the last queue returned
    worker      \* read-modify-writes of the other release managers

ledger == <<rows, fixes, steps>>
locks == <<holder, shared>>
local == <<scan, processed, resume, snap>>
vars == <<rows, fixes, steps, holder, shared, pc, ctx, scan, processed,
          resume, snap, run, result, worker>>

----------------------------------------------------------------------------
(* The ledger *)

Ids == Roots \X (0..MaxFixes)

Status == {"absent", "pending", "in_progress", "failed", "done", "needs_review"}
Outcome == {"none", "running", "success", "failed", "refused", "exhausted",
            "unresolved", "cancelled"}
Evidence == [kind : {"none", "check", "provider", "finding"},
             attempt : Nat,
             why : Reasons \cup FindingIds \cup {"none"}]
NoEvidence == [kind |-> "none", attempt |-> 0, why |-> "none"]
Row == [status : Status,
        attempts : Nat,        \* attempt_count
        evidence : Nat,        \* verification_failure_evidence, 0 when unset
        fixedBy : 0..MaxFixes, \* fixed_by, 0 when unset
        fixOf : 0..MaxFixes,   \* fix_of
        answers : Evidence,    \* failure_evidence
        recapture : Outcome]   \* recapture_outcome

Blank == [status |-> "absent", attempts |-> 0, evidence |-> 0, fixedBy |-> 0,
          fixOf |-> 0, answers |-> NoEvidence, recapture |-> "none"]

IsFix(t) == t[2] > 0
MaxOf(t) == IF IsFix(t) THEN FixAttempts ELSE MaxAttempts[t[1]]
Exists(t) == rows[t].status # "absent"
InStory(s) == {t \in Ids : Exists(t) /\ StoryOf[t[1]] = s}
Scoped == {t \in Ids : Exists(t) /\ t[1] \in Scope}

\* A task's work is delivered: done, or closed with a fix chain ending in done.
Delivered(t) ==
    LET D[n \in 0..MaxFixes] ==
            LET row == rows[<<t[1], n>>]
            IN  \/ row.status = "done"
                \/ row.status = "failed" /\ row.fixedBy # 0 /\ D[row.fixedBy]
    IN  D[t[2]]

\* (Mutations: the attempt limit is off by one; a dependency that failed and
\* has its fix counts as delivered.)
EligibleOnceMore(t) ==
    /\ t[1] \notin Hitl
    /\ rows[t].attempts <= MaxOf(t)
    /\ rows[t].fixedBy = 0
    /\ \A d \in Deps[t[1]] : Delivered(<<d, 0>>)
EligibleWhenDependencyClosed(t) ==
    /\ t[1] \notin Hitl
    /\ rows[t].attempts < MaxOf(t)
    /\ rows[t].fixedBy = 0
    /\ \A d \in Deps[t[1]] : rows[<<d, 0>>].status \in {"done", "failed"}

\* runnableTasks for one task, whatever its status: mode, attempts, closed
\* with a fix, story dependencies and task dependencies.
Eligible(t) ==
    /\ t[1] \notin Hitl
    /\ rows[t].attempts < MaxOf(t)
    /\ rows[t].fixedBy = 0
    /\ \A s \in StoryDeps[StoryOf[t[1]]] :
          InStory(s) # {} /\ \A u \in InStory(s) : Delivered(u)
    /\ \A d \in Deps[t[1]] : Delivered(<<d, 0>>)

Runnable == {t \in Scoped : rows[t].status = "pending" /\ Eligible(t)}

\* The head of the sorted list: a fix runs before any other task.  Priority
\* and creation time, which order the rest, are left open.
FirstRunnable ==
    IF \E t \in Runnable : IsFix(t) THEN {t \in Runnable : IsFix(t)} ELSE Runnable

\* (Mutation: only the original tasks are looked at.)
BoundaryClearOfRoots ==
    \A t \in Scoped : \/ rows[t].status = "done" \/ IsFix(t)
                      \/ rows[t].status = "failed" /\ rows[t].fixedBy # 0

\* retainedTaskBoundary: is the work of a queue without runnable tasks over?
BoundaryClear ==
    \A t \in Scoped : \/ rows[t].status = "done"
                      \/ rows[t].status = "failed" /\ rows[t].fixedBy # 0

----------------------------------------------------------------------------
(* CreateFailureRepair: one transaction of the store *)

FixFor(t, ev) == {n \in 1..MaxFixes : /\ Exists(<<t[1], n>>)
                                      /\ rows[<<t[1], n>>].fixOf = t[2]
                                      /\ rows[<<t[1], n>>].answers = ev}

\* (Mutation: the fix budget is off by one.)
RepairAllowedOnceMore(t) ==
    /\ rows[t].status \in {"failed", "done"}
    /\ rows[t].fixedBy = 0
    /\ rows[t].status = "failed" => fixes[t[1]] <= MaxAttempts[t[1]]

RepairAllowed(t) ==
    /\ rows[t].status \in {"failed", "done"}
    /\ rows[t].fixedBy = 0
    /\ rows[t].status = "failed" => fixes[t[1]] < MaxAttempts[t[1]]

InsertFix(t, ev) ==
    LET n == fixes[t[1]] + 1
        fix == [Blank EXCEPT !.status = "pending", !.fixOf = t[2], !.answers = ev]
        closed == IF rows[t].status = "failed" THEN [rows EXCEPT ![t].fixedBy = n]
                                               ELSE rows
    IN  /\ n <= MaxFixes   \* bound of the model, not of the code
        /\ fixes' = [fixes EXCEPT ![t[1]] = n]
        /\ rows' = [closed EXCEPT ![<<t[1], n>>] = fix]
        /\ UNCHANGED steps

\* A repeated call for the same evidence finds its fix and changes nothing.
CreateFailureRepair(t, ev) ==
    IF FixFor(t, ev) # {} THEN UNCHANGED ledger
                          ELSE RepairAllowed(t) /\ InsertFix(t, ev)

RepairRefused(t, ev) == FixFor(t, ev) = {} /\ ~RepairAllowed(t)

----------------------------------------------------------------------------
(* The attempt a queue starts: pipeline, event consumer and runner *)

RunStatus == {"none", "running", "paused", "complete", "error", "stopped"}
RunEvent == {"none", "complete", "plain", "check", "bare", "consumed"}
Run == [task : Ids, attempt : Nat, recap : BOOLEAN, status : RunStatus,
        event : RunEvent, evidence : Nat, why : Reasons \cup {"none"},
        stopped : BOOLEAN, live : BOOLEAN]

Started(t, attempt, recap) ==
    [task |-> t, attempt |-> attempt, recap |-> recap, status |-> "running",
     event |-> "none", evidence |-> 0, why |-> "none", stopped |-> FALSE,
     live |-> TRUE]

\* No attempt.
NoRun == [Started(CHOOSE t \in Ids : TRUE, 0, FALSE) EXCEPT !.status = "none",
                                                          !.live = FALSE]

Terminal(s) == s \in {"complete", "error", "stopped"}

\* The attempt's context: a child of the queue's, cancelled by Stop as well.
Cancelled == ctx \/ run.stopped

\* The pipeline ends and its last event is in the channel: success, a failed
\* check whose receipt has diagnostics ("check") or not ("bare"), or any other
\* failure ("plain") with a cause (a reason) or without one.  A cancelled
\* pipeline attaches no receipt.
PipelineEnds(event, why) ==
    /\ run.live /\ run.event = "none"
    /\ Cancelled => event = "plain"
    /\ event = "complete" => why = "none"
    /\ run' = [run EXCEPT !.event = event, !.why = why]
    /\ UNCHANGED <<ledger, locks, pc, ctx, local, result, worker>>

\* persistTaskVerificationFailure and RecordTaskFailureStep: the task becomes
\* failed, bound to its receipt, only while this attempt still owns it.
RecordFailure ==
    LET t == run.task
        owned == rows[t].status = "in_progress" /\ rows[t].attempts = run.attempt
    IN  /\ run.live /\ run.event \in {"check", "bare"}
        /\ IF owned
           THEN /\ rows' = [rows EXCEPT ![t].status = "failed",
                                        ![t].evidence = run.attempt]
                /\ steps' = steps \cup {[task |-> t, attempt |-> run.attempt,
                                         diagnosed |-> run.event = "check"]}
                /\ run' = [run EXCEPT !.event = "plain", !.evidence = run.attempt]
           ELSE /\ run' = [run EXCEPT !.event = "plain"]
                /\ UNCHANGED <<rows, steps>>
        /\ UNCHANGED <<fixes, locks, pc, ctx, local, result, worker>>

\* updateInfo on the last event: a cancelled attempt is stopped, whatever the
\* event says.
ConsumeEvent ==
    /\ run.live /\ run.event \in {"complete", "plain"}
    /\ run' = [run EXCEPT !.event = "consumed",
                          !.status = CASE Cancelled -> "stopped"
                                       [] run.event = "complete" -> "complete"
                                       [] OTHER -> "error"]
    /\ UNCHANGED <<ledger, locks, pc, ctx, local, result, worker>>

\* The runner settles the attempt after its events and closes done.
RunnerEnds ==
    /\ run.live /\ run.event = "consumed"
    /\ run' = [run EXCEPT !.live = FALSE,
                          !.status = IF Cancelled THEN "stopped" ELSE @]
    /\ UNCHANGED <<ledger, locks, pc, ctx, local, result, worker>>

\* Manager.Stop and the watchdog: the first cause wins, a terminal attempt is
\* left alone.
StopRun(r) == IF Terminal(r.status) \/ Cancelled
              THEN r ELSE [r EXCEPT !.status = "stopped", !.stopped = TRUE]

OwnerStop ==
    /\ run.live
    /\ run' = StopRun(run)
    /\ UNCHANGED <<ledger, locks, pc, ctx, local, result, worker>>

\* Manager.Pause: only the status changes, the pipeline runs on.
OwnerPause ==
    /\ run.live /\ ~Terminal(run.status)
    /\ run' = [run EXCEPT !.status = "paused"]
    /\ UNCHANGED <<ledger, locks, pc, ctx, local, result, worker>>

\* The caller cancels the queue's context.
CancelQueue ==
    /\ holder # NoProc
    /\ ctx' = TRUE
    /\ UNCHANGED <<ledger, locks, pc, local, run, result, worker>>

----------------------------------------------------------------------------
(* The execution lock *)

\* What a pass over tasks T reads when it begins, and t done with.
Listed(T) == {<<t, rows[t].evidence>> : t \in T}
Visited(t) == scan' = {s \in scan : s[1] # t}

\* executeTaskQueue up to its reconciliation.
Acquire(p) ==
    /\ holder = NoProc /\ shared = {}
    /\ holder' = p
    /\ pc' = "reconcile"
    /\ ctx' = FALSE
    /\ scan' = Listed(Scoped)
    /\ result' = "none"
    /\ UNCHANGED <<ledger, shared, processed, resume, snap, run, worker>>

\* Every return of executeTaskQueue runs its deferred unlocks.
Return(res) ==
    /\ pc' = "idle"
    /\ holder' = NoProc
    /\ result' = res
    /\ ctx' = FALSE
    /\ scan' = {}
    /\ processed' = FALSE
    /\ resume' = "top"
    /\ snap' = Blank
    /\ run' = IF run.live THEN run ELSE NoRun
    /\ UNCHANGED <<shared, worker>>

\* Manager.Start of one task outside the queue: it only takes the shared lock
\* and leaves the ledger alone.
StartShared(p) ==
    /\ holder = NoProc
    /\ shared' = shared \cup {p}
    /\ UNCHANGED <<ledger, holder, pc, ctx, local, run, result, worker>>

EndShared(p) ==
    /\ p \in shared
    /\ shared' = shared \ {p}
    /\ UNCHANGED <<ledger, holder, pc, ctx, local, run, result, worker>>

\* The process of the queue dies with its whole process tree; the lock of a
\* dead process is released by the operating system.
Crash ==
    /\ holder # NoProc
    /\ pc' = "idle"
    /\ holder' = NoProc
    /\ result' = "none"
    /\ ctx' = FALSE
    /\ scan' = {}
    /\ processed' = FALSE
    /\ resume' = "top"
    /\ snap' = Blank
    /\ run' = NoRun
    /\ UNCHANGED <<ledger, shared, worker>>

----------------------------------------------------------------------------
(* Reconciliation of retained work, under the exclusive lock *)

\* (Mutation: closed tasks are reopened like any failed task.)
ReconciledStatusOfAnyFailed(t) ==
    IF \/ rows[t].status = "in_progress"
       \/ rows[t].status = "failed" /\ rows[t].attempts < MaxOf(t)
    THEN "pending" ELSE rows[t].status

ReconciledStatus(t) ==
    LET row == rows[t]
    IN  CASE row.status = "in_progress"
                /\ (row.fixedBy # 0 \/ row.recapture = "running") -> "failed"
          [] row.status = "in_progress"
                /\ row.fixedBy = 0 /\ row.recapture # "running" -> "pending"
          [] row.status = "failed" /\ row.fixedBy = 0
                /\ row.attempts < MaxOf(t) /\ t[1] \notin Hitl
                /\ (row.evidence = 0 \/ IsFix(t)) -> "pending"
          [] OTHER -> row.status

\* reconcileInterruptedTasks, one task of its loop.
Reconcile(t) ==
    /\ pc = "reconcile"
    /\ rows' = [rows EXCEPT ![t].status = ReconciledStatus(t)]
    /\ Visited(t)
    /\ UNCHANGED <<fixes, steps, locks, pc, ctx, processed, resume, snap, run,
                   result, worker>>

Reconciled ==
    /\ pc = "reconcile" /\ scan = {}
    /\ pc' = "top"
    /\ UNCHANGED <<ledger, locks, ctx, local, run, result, worker>>

----------------------------------------------------------------------------
(* The loop: retained failures first *)

\* The head of the loop: cancelled, asked to yield, or one more pass.
Yield ==
    /\ pc = "top"
    /\ Return(IF ctx THEN "cancelled" ELSE "yielded")
    /\ UNCHANGED ledger

Pass ==
    /\ pc = "top" /\ ~ctx
    /\ pc' = "scan"
    /\ scan' = Listed({t \in Scoped : /\ rows[t].status = "failed"
                                     /\ rows[t].evidence # 0
                                     /\ rows[t].fixedBy = 0})
    /\ processed' = FALSE
    /\ UNCHANGED <<ledger, locks, ctx, resume, snap, run, result, worker>>

PassDone ==
    /\ pc = "scan" /\ scan = {}
    /\ pc' = IF processed THEN "top" ELSE "pick"
    /\ UNCHANGED <<ledger, locks, ctx, local, run, result, worker>>

\* The failure that is looked at: one of the scan, or the one the last attempt
\* ended with.
Retained(t) == \/ pc = "scan" /\ \E s \in scan : s[1] = t
               \/ pc = "disposition" /\ t = run.task /\ run.evidence # 0
EvidenceOf(t) == IF pc = "scan" THEN (CHOOSE s \in scan : s[1] = t)[2] ELSE run.evidence
HasReceipt(t, diagnosed) ==
    [task |-> t, attempt |-> EvidenceOf(t), diagnosed |-> diagnosed] \in steps

\* t was dealt with: go on with the scan, or with a new pass.
GoOn(t, processedFailure) ==
    /\ pc' = IF pc = "disposition" THEN "top" ELSE pc
    /\ Visited(t)
    /\ processed' = (processed \/ processedFailure)
    /\ run' = NoRun
    /\ UNCHANGED <<locks, ctx, resume, snap, result, worker>>

\* Every query of the pass fails once the context is cancelled.
PassCancelled ==
    /\ pc \in {"scan", "pick", "disposition"} /\ ctx
    /\ Return("cancelled")
    /\ UNCHANGED ledger

\* repairTaskFromRetainedFailure with a receipt that has diagnostics.
RepairFromReceipt(t) ==
    LET ev == [kind |-> "check", attempt |-> EvidenceOf(t), why |-> "none"]
    IN  /\ Retained(t) /\ ~ctx /\ HasReceipt(t, TRUE)
        /\ \/ CreateFailureRepair(t, ev) /\ GoOn(t, TRUE)
           \/ RepairRefused(t, ev) /\ Return("error") /\ UNCHANGED ledger

\* recaptureTaskFailure: a receipt without diagnostics is checked again first.
Recapturable(t) == Retained(t) /\ ~ctx /\ HasReceipt(t, FALSE)
OwnsReceipt(t) == rows[t].status = "failed" /\ rows[t].evidence = EvidenceOf(t)

\* terminal() before the claim: the task is put up for review and the queue
\* ends.  Whether the original check can be resolved is left open.
RecaptureReview(t) ==
    /\ Recapturable(t) /\ OwnsReceipt(t)
    /\ rows' = [rows EXCEPT
                  ![t].status = "needs_review",
                  ![t].recapture = CASE t[1] \in Hitl -> "refused"
                                     [] rows[t].attempts >= MaxOf(t) -> "exhausted"
                                     [] OTHER -> "unresolved"]
    /\ UNCHANGED <<fixes, steps>>
    /\ Return("error")

\* Waiting for dependencies: skipped by the scan, an error right after the
\* attempt.  A receipt that is no longer the task's ends the queue.
RecaptureWaits(t) ==
    /\ Recapturable(t)
    /\ IF OwnsReceipt(t)
       THEN /\ t[1] \notin Hitl /\ rows[t].attempts < MaxOf(t) /\ ~Eligible(t)
            /\ IF pc = "scan" THEN GoOn(t, FALSE) ELSE Return("error")
       ELSE Return("error")
    /\ UNCHANGED ledger

\* (Mutation: a recapture costs no attempt.)
RecaptureClaimUncounted(t) ==
    /\ Recapturable(t) /\ OwnsReceipt(t) /\ Eligible(t)
    /\ rows' = [rows EXCEPT ![t].status = "in_progress", ![t].recapture = "running"]
    /\ pc' = "start"
    /\ resume' = IF pc = "scan" THEN "scan" ELSE "top"
    /\ Visited(t)
    /\ run' = [NoRun EXCEPT !.task = t, !.recap = TRUE]
    /\ UNCHANGED <<fixes, steps, locks, ctx, processed, snap, result, worker>>

\* The conditional update that claims one more counted attempt.
RecaptureClaim(t) ==
    /\ Recapturable(t) /\ OwnsReceipt(t) /\ Eligible(t)
    /\ rows' = [rows EXCEPT ![t].status = "in_progress",
                            ![t].attempts = @ + 1,
                            ![t].recapture = "running"]
    /\ pc' = "start"
    /\ resume' = IF pc = "scan" THEN "scan" ELSE "top"
    /\ Visited(t)
    /\ run' = [NoRun EXCEPT !.task = t, !.recap = TRUE]
    /\ UNCHANGED <<fixes, steps, locks, ctx, processed, snap, result, worker>>

----------------------------------------------------------------------------
(* The loop: one runnable task *)

\* Nothing runnable: complete, or a boundary that retains work.
Drained ==
    /\ pc = "pick" /\ ~ctx /\ Runnable = {}
    /\ Return(IF BoundaryClear THEN "complete" ELSE "boundary")
    /\ UNCHANGED ledger

\* The row of the next task is read ...
Pick(t) ==
    /\ pc = "pick" /\ ~ctx /\ t \in FirstRunnable
    /\ snap' = rows[t]
    /\ run' = [NoRun EXCEPT !.task = t]
    /\ pc' = "claim"
    /\ UNCHANGED <<ledger, locks, ctx, scan, processed, resume, result, worker>>

\* ... and written back as one more attempt without an old receipt.
Claim ==
    /\ pc = "claim"
    /\ rows' = [rows EXCEPT ![run.task] =
                   [snap EXCEPT !.status = "in_progress",
                                !.attempts = @ + 1,
                                !.evidence = 0]]
    /\ snap' = Blank
    /\ pc' = "start"
    /\ UNCHANGED <<fixes, steps, locks, ctx, scan, processed, resume, run,
                   result, worker>>

\* Manager.start for the queue: the attempt number is read from the ledger.
Start ==
    /\ pc = "start"
    /\ run' = Started(run.task, rows[run.task].attempts, run.recap)
    /\ pc' = "wait"
    /\ UNCHANGED <<ledger, locks, ctx, local, result, worker>>

\* Manager.start refuses: the attempt is settled without having run.
StartRefused ==
    LET t == run.task
    IN  /\ pc = "start"
        /\ rows' = [rows EXCEPT
                      ![t].status = IF run.recap THEN "needs_review" ELSE "failed",
                      ![t].recapture = IF run.recap THEN "refused" ELSE @]
        /\ UNCHANGED <<fixes, steps>>
        /\ Return("error")

----------------------------------------------------------------------------
(* Waiting for the attempt (waitTaskQueueRun) *)

\* (Mutation: a terminal status is taken for a drained attempt.)
WaitOverUndrained ==
    /\ pc = "wait" /\ Terminal(run.status)
    /\ pc' = IF run.status = "complete" THEN "ok" ELSE "err"
    /\ UNCHANGED <<ledger, locks, ctx, local, run, result, worker>>

\* The attempt is over and drained: its status decides, unless the wait was
\* cancelled first.
WaitOver ==
    /\ pc = "wait" /\ ~run.live
    /\ \/ run.status = "complete" /\ pc' = "ok"
       \/ (run.status # "complete" \/ ctx) /\ pc' = "err"
    /\ UNCHANGED <<ledger, locks, ctx, local, run, result, worker>>

\* The poll sees a paused attempt ...
WaitPaused ==
    /\ pc = "wait" /\ ~ctx /\ run.status = "paused"
    /\ pc' = "paused"
    /\ UNCHANGED <<ledger, locks, ctx, local, run, result, worker>>

\* ... stops it, unless it ended in the meantime ...
StopPaused ==
    /\ pc = "paused"
    /\ run' = StopRun(run)
    /\ pc' = "drain"
    /\ UNCHANGED <<ledger, locks, ctx, local, result, worker>>

\* ... and, once it is drained, puts the task up for review.
PauseDrained ==
    LET t == run.task
    IN  /\ pc = "drain" /\ ~run.live
        /\ rows' = IF /\ rows[t].status = "in_progress"
                      /\ rows[t].attempts = run.attempt
                   THEN [rows EXCEPT ![t].status = "needs_review"]
                   ELSE rows
        /\ pc' = "err"
        /\ UNCHANGED <<fixes, steps, locks, ctx, local, run, result, worker>>

----------------------------------------------------------------------------
(* Settling an ordinary attempt *)

\* Cancelled or stopped: the task is left as it is for the next queue.
LeaveInterrupted ==
    /\ pc = "err" /\ ~run.recap
    /\ ctx \/ run.status # "error"
    /\ Return(IF ctx THEN "cancelled" ELSE "error")
    /\ UNCHANGED ledger

\* SetTaskStatus(failed) reads the row ...
MarkFailedRead ==
    /\ pc = "err" /\ ~run.recap /\ ~ctx /\ run.status = "error"
    /\ snap' = rows[run.task]
    /\ pc' = "mark"
    /\ UNCHANGED <<ledger, locks, ctx, scan, processed, resume, run, result, worker>>

\* ... and writes all of it back.
MarkFailedWrite ==
    /\ pc = "mark"
    /\ rows' = [rows EXCEPT ![run.task] = [snap EXCEPT !.status = "failed"]]
    /\ snap' = Blank
    /\ pc' = "disposition"
    /\ UNCHANGED <<fixes, steps, locks, ctx, scan, processed, resume, run,
                   result, worker>>

\* fixProviderStop: no receipt, but the attempt stopped for a reason.  No fix
\* without a cause, for a human's task, after a recapture, or when the fix
\* stopped again for the very reason it was to fix.
ProviderStop ==
    LET t == run.task
        row == rows[t]
        ev == [kind |-> "provider", attempt |-> row.attempts, why |-> run.why]
        hopeless == \/ run.why = "none"
                    \/ t[1] \in Hitl \/ row.evidence # 0 \/ row.recapture # "none"
                    \/ row.answers.kind = "provider" /\ row.answers.why = run.why
                       /\ row.fixedBy = 0
    IN  /\ pc = "disposition" /\ ~ctx /\ run.evidence = 0
        /\ \/ hopeless /\ Return("error") /\ UNCHANGED ledger
           \/ ~hopeless /\ row.fixedBy # 0 /\ GoOn(t, FALSE) /\ UNCHANGED ledger
           \/ /\ ~hopeless /\ row.fixedBy = 0
              /\ \/ CreateFailureRepair(t, ev) /\ GoOn(t, FALSE)
                 \/ RepairRefused(t, ev) /\ Return("error") /\ UNCHANGED ledger

\* The pipeline succeeded: the current row decides whether the task is done.
CompleteRead ==
    LET row == rows[run.task]
    IN  /\ pc = "ok" /\ ~run.recap
        /\ \/ row.status = "failed" /\ Return("error")
           \/ /\ row.status # "failed"
              /\ pc' = IF row.status = "done" THEN "top" ELSE "complete"
              /\ snap' = IF row.status = "done" THEN Blank ELSE row
              /\ run' = IF row.status = "done" THEN NoRun ELSE run
              /\ UNCHANGED <<locks, ctx, scan, processed, resume, result, worker>>
        /\ UNCHANGED ledger

\* SetTaskStatus(done) passes CanCompleteTask; the validation evidence it
\* asks for is left open.
CompleteWrite ==
    /\ pc = "complete"
    /\ rows' = [rows EXCEPT ![run.task] = [snap EXCEPT !.status = "done"]]
    /\ snap' = Blank
    /\ run' = NoRun
    /\ pc' = "top"
    /\ UNCHANGED <<fixes, steps, locks, ctx, scan, processed, resume, result, worker>>

CompleteRefused ==
    /\ pc = "complete" /\ rows[run.task].status # "done"
    /\ Return("error")
    /\ UNCHANGED ledger

----------------------------------------------------------------------------
(* Settling a recapture *)

\* finish(): only the attempt that still owns the task disposes of it.
Owned == /\ rows[run.task].attempts = run.attempt
         /\ rows[run.task].status \in {"failed", "in_progress"}

\* (Mutation: the row that the claim had read is written back, its old receipt
\* included.)
FinishFromClaim(outcome, status) ==
    LET old == {s.attempt : s \in {x \in steps : x.task = run.task
                                                /\ x.attempt < run.attempt}}
    IN  /\ rows' = [rows EXCEPT ![run.task].status = status,
                                ![run.task].recapture = outcome,
                                ![run.task].evidence =
                                    CHOOSE n \in old : \A k \in old : k <= n]
        /\ UNCHANGED <<fixes, steps>>

Finish(outcome, status) ==
    /\ rows' = [rows EXCEPT ![run.task].status = status,
                            ![run.task].recapture = outcome,
                            ![run.task].evidence = IF outcome = "success" THEN 0 ELSE @]
    /\ UNCHANGED <<fixes, steps>>

RecaptureResumes ==
    /\ pc' = resume
    /\ processed' = TRUE
    /\ resume' = "top"
    /\ run' = NoRun
    /\ UNCHANGED <<locks, ctx, scan, snap, result, worker>>

\* The check passed: the task goes on as pending, its receipt is dropped.
RecapturePassed ==
    /\ pc = "ok" /\ run.recap /\ ~ctx /\ Owned
    /\ Finish("success", "pending")
    /\ RecaptureResumes

\* The check failed again and left a new receipt ...
RecaptureFailed ==
    /\ pc = "err" /\ run.recap /\ ~ctx /\ Owned /\ run.evidence # 0
    /\ Finish("failed", "failed")
    /\ pc' = "exhaust"
    /\ UNCHANGED <<locks, ctx, local, run, result, worker>>

\* ... which the next pass deals with while attempts are left.
RecaptureRetry ==
    /\ pc = "exhaust" /\ run.attempt < MaxOf(run.task)
    /\ RecaptureResumes
    /\ UNCHANGED ledger

RecaptureExhausted ==
    /\ pc = "exhaust" /\ run.attempt >= MaxOf(run.task) /\ Owned
    /\ Finish("exhausted", "needs_review")
    /\ Return("error")

\* Cancelled, stopped or failed without a receipt: review.
RecaptureAbandoned ==
    /\ run.recap /\ Owned
    /\ \/ pc \in {"ok", "err"} /\ ctx
       \/ pc = "err" /\ ~ctx /\ run.evidence = 0
    /\ Finish(IF ctx THEN "cancelled" ELSE "refused", "needs_review")
    /\ Return(IF ctx THEN "cancelled" ELSE "error")

\* Someone else disposed of the task.
RecaptureDisowned ==
    /\ run.recap /\ ~Owned
    /\ \/ pc \in {"ok", "err"}
       \/ pc = "exhaust" /\ run.attempt >= MaxOf(run.task)
    /\ Return("error")
    /\ UNCHANGED ledger

----------------------------------------------------------------------------
(* Other writers of the ledger *)

\* A finding on delivered work asks for a fix of a done task.
Finding(t, e) ==
    /\ rows[t].status = "done"
    /\ CreateFailureRepair(t, [kind |-> "finding", attempt |-> 0, why |-> e])
    /\ UNCHANGED <<locks, pc, ctx, local, run, result, worker>>

\* backlog_complete_task of another release manager: SetTaskStatus(done)
\* reads the row ...  (Bound: one call per worker.)
WorkerRead(w, t) ==
    /\ worker[w].at = "idle" /\ Exists(t)
    /\ worker' = [worker EXCEPT ![w] = [at |-> "read", task |-> t, row |-> rows[t]]]
    /\ UNCHANGED <<ledger, locks, pc, ctx, local, run, result>>

\* ... and writes it back as done ...
WorkerWrite(w) ==
    /\ worker[w].at = "read"
    /\ rows' = [rows EXCEPT ![worker[w].task] =
                   [worker[w].row EXCEPT !.status = "done"]]
    /\ worker' = [worker EXCEPT ![w] = [@ EXCEPT !.at = "over", !.row = Blank]]
    /\ UNCHANGED <<fixes, steps, locks, pc, ctx, local, run, result>>

\* ... or is refused by CanCompleteTask.
WorkerRefused(w) ==
    /\ worker[w].at = "read" /\ rows[worker[w].task].status # "done"
    /\ worker' = [worker EXCEPT ![w] = [@ EXCEPT !.at = "over", !.row = Blank]]
    /\ UNCHANGED <<ledger, locks, pc, ctx, local, run, result>>

----------------------------------------------------------------------------

Init ==
    /\ rows = [t \in Ids |-> IF IsFix(t) THEN Blank
                             ELSE [Blank EXCEPT !.status =
                                     IF t[1] \in DoneRoots THEN "done" ELSE "pending"]]
    /\ fixes = [r \in Roots |-> 0]
    /\ steps = {}
    /\ holder = NoProc /\ shared = {}
    /\ pc = "idle" /\ ctx = FALSE
    /\ scan = {} /\ processed = FALSE /\ resume = "top" /\ snap = Blank
    /\ run = NoRun
    /\ result = "none"
    /\ worker = [w \in Workers |-> [at |-> "idle", task |-> NoRun.task, row |-> Blank]]

\* The steps of the queue's own goroutine.
QueueStep ==
    \/ \E s \in scan : Reconcile(s[1])
    \/ Reconciled \/ Yield \/ Pass \/ PassDone \/ PassCancelled
    \/ \E t \in Ids : \/ RepairFromReceipt(t) \/ RecaptureReview(t)
                       \/ RecaptureWaits(t) \/ RecaptureClaim(t) \/ Pick(t)
    \/ Drained \/ Claim \/ Start \/ StartRefused
    \/ WaitOver \/ WaitPaused \/ StopPaused \/ PauseDrained
    \/ LeaveInterrupted \/ MarkFailedRead \/ MarkFailedWrite \/ ProviderStop
    \/ CompleteRead \/ CompleteWrite \/ CompleteRefused
    \/ RecapturePassed \/ RecaptureFailed \/ RecaptureRetry
    \/ RecaptureExhausted \/ RecaptureAbandoned \/ RecaptureDisowned

\* The steps of the attempt's pipeline, event consumer and runner.
AttemptStep ==
    \/ \E event \in {"complete", "plain", "check", "bare"},
          why \in Reasons \cup {"none"} : PipelineEnds(event, why)
    \/ RecordFailure \/ ConsumeEvent \/ RunnerEnds

Environment ==
    \/ \E p \in Procs : Acquire(p) \/ StartShared(p) \/ EndShared(p)
    \/ Crash \/ CancelQueue \/ OwnerStop \/ OwnerPause
    \/ \E t \in Ids, e \in FindingIds : Finding(t, e)
    \/ \E w \in Workers : \/ \E t \in Ids : WorkerRead(w, t)
                           \/ WorkerWrite(w) \/ WorkerRefused(w)

Next == QueueStep \/ AttemptStep \/ Environment

Spec == Init /\ [][Next]_vars

\* Goroutines are scheduled; a pipeline ends because its stages are bounded by
\* timeouts.  Nothing makes the environment act.
Fairness == WF_vars(QueueStep) /\ WF_vars(AttemptStep)
FairSpec == Spec /\ Fairness

----------------------------------------------------------------------------
(* Properties *)

PCs == {"idle", "reconcile", "top", "scan", "pick", "claim", "start", "wait",
        "paused", "drain", "err", "mark", "disposition", "ok", "complete", "exhaust"}
Results == {"none", "complete", "boundary", "yielded", "cancelled", "error"}

\* Every variable holds a value of its type: the ledger's rows, the queue's
\* locals and the attempt.
TypeOK ==
    /\ rows \in [Ids -> Row]
    /\ fixes \in [Roots -> 0..MaxFixes]
    /\ steps \subseteq [task : Ids, attempt : Nat, diagnosed : BOOLEAN]
    /\ holder \in Procs \cup {NoProc}
    /\ shared \subseteq Procs
    /\ pc \in PCs
    /\ ctx \in BOOLEAN
    /\ scan \subseteq Ids \X Nat
    /\ processed \in BOOLEAN
    /\ resume \in {"top", "scan"}
    /\ snap \in Row
    /\ run \in Run
    /\ result \in Results
    /\ worker \in [Workers -> [at : {"idle", "read", "over"}, task : Ids, row : Row]]

\* The workspace has one writer: a queue gives its exclusive lock back only
\* when its attempt is drained, on every way out of executeTaskQueue, and no
\* one-task start runs beside it.
OneWriter == /\ run.live => holder # NoProc
             /\ holder # NoProc => shared = {}

\* No crash, recapture or reopening makes a task run more often than its
\* max_attempts.
AttemptBudget == \A t \in Ids : rows[t].attempts <= MaxOf(t)

FailureFixes(r) == {n \in 1..MaxFixes : rows[<<r, n>>].answers.kind
                                           \in {"check", "provider"}}

\* The fixes that answer a failure (of the root or of an earlier fix) stay
\* within the root's own max_attempts.
FixBudget ==
    \A r \in Roots : Cardinality(FailureFixes(r)) <= MaxAttempts[r]

\* A task that ever ran had all its dependencies delivered, directly or
\* through a fix chain, and they are still delivered; so had the stories its
\* story depends on (a later finding on those may open a fix again).
DependenciesDelivered ==
    \A t \in Ids : rows[t].attempts > 0 =>
        /\ \A d \in Deps[t[1]] : Delivered(<<d, 0>>)
        /\ \A r \in Roots : StoryOf[r] \in StoryDeps[StoryOf[t[1]]]
                                 => Delivered(<<r, 0>>)

\* RecordTaskFailureStep: a restart sees neither half or both halves, never a
\* receipt of the current attempt without its task disposition.
ReceiptBound ==
    \A s \in steps : rows[s.task].attempts = s.attempt =>
        /\ rows[s.task].evidence = s.attempt
        /\ rows[s.task].status \notin {"in_progress", "done"}

\* recaptureTaskFailure, "never restore the legacy binding over a new receipt":
\* the receipt a task is bound to exists, and the task has no newer one.
EvidenceIsNewest ==
    \A t \in Ids : rows[t].evidence # 0 =>
        LET receipts == {s.attempt : s \in {x \in steps : x.task = t}}
        IN  rows[t].evidence \in receipts /\ \A n \in receipts : n <= rows[t].evidence

\* retainedTaskBoundary: a queue that returns without an error delivered every
\* task of its scope, the closed ones through their fix chains.
CompleteMeansDelivered ==
    [][pc # "idle" /\ pc' = "idle" /\ result' = "complete"
          => \A t \in Scoped : Delivered(t)]_vars

\* A started queue returns (or its process dies): no cycle of fixes,
\* recaptures and skipped failures keeps it running for ever.
QueueReturns == pc # "idle" ~> pc = "idle"

----------------------------------------------------------------------------
(* Statements of the repository that the code does not keep *)

\* "The budget bounds a failure chain: fixes that keep failing.  Findings on
\* delivered work ... are not retries" (CreateFailureRepair): a failed task is
\* refused its fix only once the fixes that answer failures spent the budget.
FindingsAreNotRetries ==
    \A t \in Ids :
        (/\ rows[t].status = "failed" /\ rows[t].fixedBy = 0
         /\ Cardinality(FailureFixes(t[1])) < MaxAttempts[t[1]])
            => RepairAllowed(t)

\* A repair task "retries within its own max_attempts and is never itself
\* repaired" (isRepairTask): no fix is closed with a further fix.
FixesAreNeverRepaired == \A t \in Ids : IsFix(t) => rows[t].fixedBy = 0

\* A paused attempt's task "requires an existing boundary decision"
\* (waitTaskQueueRun): the queue leaves a task under review alone.
ReviewHeld ==
    [][\A t \in Ids : rows[t].status = "needs_review"
                         => rows'[t].status = "needs_review"]_vars

============================================================================
