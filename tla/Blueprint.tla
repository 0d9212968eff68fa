----------------------------- MODULE Blueprint -----------------------------
(***************************************************************************)
(* One attempt at a task: the blueprint engine (internal/blueprint) walked  *)
(* by the pipeline (internal/pipeline) from BlueprintStart to its terminal  *)
(* event.  A blueprint is a graph of stages; the engine runs one stage at a *)
(* time, routes on its result and spends a retry budget.  When the walk     *)
(* fails, the pipeline decides whether the failure carries a receipt: proof *)
(* that a trusted check ran and failed, on which the manager creates repair *)
(* work.                                                                    *)
(*                                                                         *)
(* Concurrent with the walk: the caller cancels its context, asks the       *)
(* pipeline to pause, or calls the engine's Pause, Resume and Cancel.       *)
(*                                                                         *)
(* What a stage runs (a shell command, a Go action, an agent) is one step   *)
(* whose outcome is any the executor can return for that kind of stage.     *)
(***************************************************************************)
EXTENDS Integers, Sequences, SequencesExt, FiniteSets

CONSTANTS
    Names,            \* the names stages are referred to by
    Blueprints,       \* the blueprints a run may be started with
    MaxTotalRetries   \* EngineConfig.MaxTotalRetries

Stage == [runs : {"agent", "action", "gates", "unregistered", "commands",
                  "nothing"},
          onSuccess : Names, onFailure : Names, maxRetries : Nat,
          gates : BOOLEAN, checkpoint : BOOLEAN, check : BOOLEAN,
          edits : BOOLEAN]

ASSUME BlueprintAssumption ==
    /\ MaxTotalRetries \in Nat
    /\ {"", "complete"} \subseteq Names
    /\ \A b \in Blueprints : b.stages \in [DOMAIN b.stages -> Stage]

VARIABLES
    bp,        \* the blueprint of this run, after the pipeline configured it
    executor,  \* "local", "gated" (a gate runner is set) or "admitted"
    pc,        \* "new", "loop", "executing", "returned", "reported"
    stage,     \* run.CurrentStage
    status,    \* run.Status
    retries,   \* run.StageRetries
    total,     \* totalRetries
    results,   \* run.Results
    saved,     \* run.Checkpoints
    receipt,   \* gateRunnerAction.receipt: 0, or the execution it is of
    cancelled, \* the context of the run is cancelled
    paused,    \* Pipeline.paused
    outcome,   \* the terminal event
    evidence   \* the receipt that the terminal event carries

vars == <<bp, executor, pc, stage, status, retries, total, results, saved,
          receipt, cancelled, paused, outcome, evidence>>

run == <<stage, retries, total, results, saved>>

-----------------------------------------------------------------------------
(***************************************************************************)
(* Blueprints.  "runs" is what the executor finds to run in a stage: an     *)
(* agent, a registered action, the gates action, an action that is not      *)
(* registered, shell commands, or nothing.  "check": the commands are the   *)
(* project's own lint or test commands (VerificationStages).  "edits": the  *)
(* stage's toolset may change the code.                                     *)
(***************************************************************************)
Plain == [runs |-> "action", onSuccess |-> "", onFailure |-> "",
          maxRetries |-> 0, gates |-> FALSE, checkpoint |-> FALSE,
          check |-> FALSE, edits |-> FALSE]

Agent == [Plain EXCEPT !.runs = "agent", !.edits = TRUE]

Empty == [Plain EXCEPT !.runs = "nothing"]

DefaultBlueprint == [
    id |-> "standard_task",
    initial |-> "gather_context",
    stages |-> [
        gather_context |->
            [Plain EXCEPT !.onSuccess = "implement", !.checkpoint = TRUE],
        implement |->
            [Agent EXCEPT !.onSuccess = "generate_contract_tests",
                          !.onFailure = "implement", !.maxRetries = 3],
        generate_contract_tests |->
            [Plain EXCEPT !.onSuccess = "lint", !.onFailure = "lint"],
        lint |->
            [Empty EXCEPT !.onSuccess = "test", !.onFailure = "fix_lint"],
        fix_lint |->
            [Agent EXCEPT !.onSuccess = "lint", !.maxRetries = 2],
        test |->
            [Empty EXCEPT !.onSuccess = "production_readiness_check",
                          !.onFailure = "fix_tests"],
        fix_tests |->
            [Agent EXCEPT !.onSuccess = "test", !.maxRetries = 2],
        production_readiness_check |->
            [Plain EXCEPT !.onSuccess = "review", !.onFailure = "review"],
        review |->
            [Agent EXCEPT !.onSuccess = "complete", !.checkpoint = TRUE,
                          !.edits = FALSE]]]

QuickFixBlueprint == [
    id |-> "quick_fix",
    initial |-> "implement",
    stages |-> [
        implement |->
            [Agent EXCEPT !.onSuccess = "verify", !.maxRetries = 2],
        verify |->
            [Plain EXCEPT !.runs = "gates", !.onSuccess = "complete",
                          !.gates = TRUE]]]

Validate(b) ==
    /\ b.initial \in DOMAIN b.stages
    /\ \A s \in DOMAIN b.stages :
          /\ b.stages[s].onSuccess \in DOMAIN b.stages \cup {"", "complete"}
          /\ b.stages[s].onFailure \in DOMAIN b.stages \cup {""}

(* The project's own commands replace those of the stages lint and test.    *)
WithCommands(b, names) == [
    id |-> b.id,
    initial |-> b.initial,
    stages |-> [s \in DOMAIN b.stages |->
        IF s \notin names THEN b.stages[s]
        ELSE [b.stages[s] EXCEPT
                 !.check = TRUE,
                 !.runs = IF @ \in {"nothing", "unregistered"}
                          THEN "commands" ELSE @]]]

(* Without review the stage test ends the run, whatever follows it.         *)
WithReview(b, review) == [
    id |-> b.id,
    initial |-> b.initial,
    stages |-> [s \in DOMAIN b.stages |->
        IF review \/ s # "test" THEN b.stages[s]
        ELSE [b.stages[s] EXCEPT !.onSuccess = "complete"]]]

(* The one-stage blueprint of a recapture: the named check, run once and    *)
(* routed nowhere.  A blueprint without commands for it gives no stage, and *)
(* the recapture is refused.                                                *)
Recapture(b, name) == [
    id |-> "verification_recapture",
    initial |-> name,
    stages |-> [s \in {n \in {name} \cap DOMAIN b.stages :
                          b.stages[n].runs = "commands"}
                   |-> [Plain EXCEPT !.check = TRUE, !.runs = "commands"]]]

Selected == {WithCommands(b, names) :
                b \in Blueprints, names \in SUBSET {"lint", "test"}}

Configured ==
    Selected \cup {Recapture(b, name) : b \in Selected,
                                        name \in {"lint", "test"}}

(* The receipt carried by a failure whose keys the worker wrote itself.     *)
Forged == -1

Init ==
    /\ bp \in Configured
    /\ executor \in {"local", "gated", "admitted"}
    /\ pc = "new"
    /\ stage = bp.initial
    /\ status = "pending"
    /\ retries = [s \in DOMAIN bp.stages |-> 0]
    /\ total = 0
    /\ results = <<>>
    /\ saved = <<>>
    /\ receipt = 0
    /\ cancelled = FALSE
    /\ paused = FALSE
    /\ outcome = "none"
    /\ evidence = 0

-----------------------------------------------------------------------------
(***************************************************************************)
(* What the executor can return for a stage.  "verified": a check really    *)
(* ran in this execution and passed.  "classified": the trusted runner saw  *)
(* a check exit normally with a failure, and kept a receipt of it.          *)
(* "claims": the worker put receipt keys among its own artifacts.           *)
(***************************************************************************)
Completed == [status |-> "completed", verified |-> FALSE,
              classified |-> FALSE, claims |-> FALSE]

Failed == [Completed EXCEPT !.status = "failed"]

Verified == [Completed EXCEPT !.verified = TRUE]

(* A check fails after "done"; the runner that saw it may classify the      *)
(* failure, unless the context is cancelled.                                *)
CheckFailed(done, seen) ==
    {[done EXCEPT !.status = "failed", !.verified = FALSE, !.classified = c] :
        c \in IF seen /\ ~cancelled THEN BOOLEAN ELSE {FALSE}}

(* runQualityGates: gates that could not be run do not fail the stage.      *)
AfterGates(s, done) ==
    IF ~s.gates THEN {done}
    ELSE {[done EXCEPT !.verified = TRUE]}
         \cup CheckFailed(done, executor = "gated")
         \cup (IF executor = "gated" THEN {} ELSE {done})

(* An agent that reports receipt keys of its own does so whether its stage  *)
(* completes, fails its gates or is stopped for its context size.           *)
AgentOutcomes(s) ==
    {Failed, [Failed EXCEPT !.claims = TRUE]}
    \cup AfterGates(s, Completed)
    \cup AfterGates(s, [Completed EXCEPT !.claims = TRUE])

(* Mutant: a stage with nothing to run passes.                              *)
NothingToRunPasses == {Completed}

(* Nothing was run, so nothing was verified: the stage fails.               *)
NothingToRun == {Failed}

LocalOutcomes(s) ==
    CASE s.runs = "agent"    -> AgentOutcomes(s)
      [] s.runs = "action"   -> {Failed} \cup AfterGates(s, Completed)
      [] s.runs = "gates"    -> CheckFailed(Completed, executor = "gated")
                                \cup AfterGates(s, Verified)
      [] s.runs = "commands" -> CheckFailed(Completed, s.check)
                                \cup AfterGates(s, Verified)
      [] s.runs \in {"unregistered", "nothing"} -> NothingToRun

(* A host's own executor answers for every stage; its typed errors are the  *)
(* evidence, whatever the stage.                                            *)
AdmittedOutcomes(s) ==
    {IF s.runs = "agent" THEN Completed ELSE Verified,
     [Failed EXCEPT !.claims = TRUE]}
    \cup CheckFailed(Completed, TRUE)

Outcomes(s) ==
    IF executor = "admitted" THEN AdmittedOutcomes(s) ELSE LocalOutcomes(s)

-----------------------------------------------------------------------------
(* NewEngine refuses an invalid blueprint before anything is emitted;       *)
(* otherwise BlueprintStart, StartRun, and review is left in or out.        *)
Start(review) ==
    /\ pc = "new"
    /\ IF Validate(bp)
       THEN /\ pc' = "loop"
            /\ status' = "running"
            /\ bp' = WithReview(bp, review)
            /\ UNCHANGED outcome
       ELSE /\ pc' = "reported"
            /\ outcome' = "refused"
            /\ UNCHANGED <<bp, status>>
    /\ UNCHANGED <<executor, run, receipt, cancelled, paused, evidence>>

Ended == stage \in {"complete", ""}

(* The head of the loop: a cancelled context ends the run, a stage is       *)
(* announced and the receipt of the one before it dropped.                  *)
BeginStage ==
    /\ pc = "loop"
    /\ ~Ended
    /\ CASE cancelled ->
              pc' = "returned" /\ status' = "cancelled" /\ UNCHANGED receipt
         [] ~cancelled /\ stage \notin DOMAIN bp.stages ->
              pc' = "returned" /\ status' = "failed" /\ UNCHANGED receipt
         [] OTHER ->
              pc' = "executing" /\ receipt' = 0 /\ UNCHANGED status
    /\ UNCHANGED <<bp, executor, run, cancelled, paused, outcome, evidence>>

CompleteRun ==
    /\ pc = "loop"
    /\ Ended
    /\ pc' = "returned"
    /\ status' = "completed"
    /\ UNCHANGED <<bp, executor, run, receipt, cancelled, paused, outcome,
                   evidence>>

(* A failed stage may go to its failure handler while its retries last.     *)
MayRetry(s) ==
    bp.stages[s].onFailure # "" /\ retries[s] < bp.stages[s].maxRetries

RouteSuccess(s) ==
    /\ saved' = IF bp.stages[s].checkpoint THEN Append(saved, s) ELSE saved
    /\ stage' = bp.stages[s].onSuccess
    /\ pc' = "loop"
    /\ UNCHANGED <<status, retries, total>>

RouteFailure(s) ==
    /\ UNCHANGED saved
    /\ IF MayRetry(s)
       THEN /\ retries' = [retries EXCEPT ![s] = @ + 1]
            /\ total' = total + 1
       ELSE UNCHANGED <<retries, total>>
    /\ IF MayRetry(s) /\ total + 1 <= MaxTotalRetries
       THEN /\ stage' = bp.stages[s].onFailure
            /\ pc' = "loop"
            /\ UNCHANGED status
       ELSE /\ status' = "failed"
            /\ pc' = "returned"
            /\ UNCHANGED stage

(* The stage runs and its result is recorded and routed.  A classified      *)
(* failure leaves its receipt; any other outcome leaves the one BeginStage  *)
(* cleared.                                                                 *)
ExecuteStage ==
    /\ pc = "executing"
    /\ \E o \in Outcomes(bp.stages[stage]) :
          /\ results' = Append(results,
                [stage |-> stage, status |-> o.status, verified |-> o.verified,
                 classified |-> o.classified, claims |-> o.claims])
          /\ receipt' = IF o.classified THEN Len(results) + 1 ELSE receipt
          /\ IF o.status = "completed" THEN RouteSuccess(stage)
             ELSE RouteFailure(stage)
    /\ UNCHANGED <<bp, executor, cancelled, paused, outcome, evidence>>

(* Mutant: receipt keys among the artifacts of the last result are copied.  *)
FailureEvidenceFromArtifacts ==
    IF results # <<>> /\ Last(results).claims THEN Forged ELSE receipt

(* Mutant: only a failed command keeps its receipt, not a failed gate.      *)
FailureEvidenceOfCommands ==
    IF /\ ~cancelled
       /\ results # <<>>
       /\ bp.stages[Last(results).stage].runs = "commands"
       /\ Last(results).status = "failed"
    THEN receipt ELSE 0

(* The artifacts of the last result without its receipt keys, and the       *)
(* trusted receipt if the walk was not cancelled and ended in a failed      *)
(* deterministic stage.                                                     *)
FailureEvidence ==
    IF /\ ~cancelled
       /\ results # <<>>
       /\ bp.stages[Last(results).stage].runs # "agent"
       /\ Last(results).status = "failed"
    THEN receipt ELSE 0

(* Mutant: a cancelled run ends without a terminal event.                   *)
ReportUnlessCancelled ==
    /\ pc = "returned"
    /\ pc' = "reported"
    /\ IF cancelled THEN UNCHANGED <<outcome, evidence>>
       ELSE /\ outcome' = IF Ended THEN "complete" ELSE "failed"
            /\ evidence' = IF Ended THEN evidence ELSE FailureEvidence
    /\ UNCHANGED <<bp, executor, run, status, receipt, cancelled, paused>>

(* Execute returned: PipelineComplete, or BlueprintFailed with evidence.    *)
Report ==
    /\ pc = "returned"
    /\ pc' = "reported"
    /\ IF Ended
       THEN outcome' = "complete" /\ UNCHANGED evidence
       ELSE outcome' = "failed" /\ evidence' = FailureEvidence
    /\ UNCHANGED <<bp, executor, run, status, receipt, cancelled, paused>>

-----------------------------------------------------------------------------
(* What others do meanwhile.  The engine's own Pause, Resume and Cancel     *)
(* only write run.Status, which the loop never reads; Pipeline.Pause only   *)
(* sets a flag, as currentLoop is never assigned.                           *)
CancelContext ==
    /\ pc # "reported"
    /\ ~cancelled
    /\ cancelled' = TRUE
    /\ UNCHANGED <<bp, executor, pc, run, status, receipt, paused, outcome,
                   evidence>>

PausePipeline ==
    /\ pc # "reported"
    /\ ~paused
    /\ paused' = TRUE
    /\ UNCHANGED <<bp, executor, pc, run, status, receipt, cancelled,
                   outcome, evidence>>

SetStatus(from, to) ==
    /\ status \in from
    /\ status' = to
    /\ UNCHANGED <<bp, executor, pc, run, receipt, cancelled, paused,
                   outcome, evidence>>

EnginePause == SetStatus({"running"}, "paused")

EngineResume == SetStatus({"paused"}, "running")

EngineCancel == SetStatus({"running", "paused"}, "cancelled")

Walk ==
    \/ \E review \in BOOLEAN : Start(review)
    \/ BeginStage
    \/ CompleteRun
    \/ ExecuteStage
    \/ Report

Outside ==
    \/ CancelContext
    \/ PausePipeline
    \/ EnginePause
    \/ EngineResume
    \/ EngineCancel

Done == pc = "reported" /\ UNCHANGED vars

Next == Walk \/ Outside \/ Done

Spec == Init /\ [][Next]_vars

(* Every stage has a deadline (Stage.Timeout or the executor's), so the     *)
(* walk never stops between two steps.                                      *)
FairSpec == Spec /\ WF_vars(Walk)

-----------------------------------------------------------------------------
Result == [stage : DOMAIN bp.stages, status : {"completed", "failed"},
           verified : BOOLEAN, classified : BOOLEAN, claims : BOOLEAN]

\* Every variable holds a value of its type, and the stage being executed is one
\* that the blueprint has.
TypeOK ==
    /\ executor \in {"local", "gated", "admitted"}
    /\ pc \in {"new", "loop", "executing", "returned", "reported"}
    /\ stage \in DOMAIN bp.stages \cup {"complete", "", bp.initial}
    /\ pc = "executing" => stage \in DOMAIN bp.stages
    /\ status \in {"pending", "running", "paused", "completed", "failed",
                   "cancelled"}
    /\ retries \in [DOMAIN bp.stages -> Nat]
    /\ total \in Nat
    /\ results \in Seq(Result)
    /\ saved \in Seq(DOMAIN bp.stages)
    /\ receipt \in Nat
    /\ cancelled \in BOOLEAN
    /\ paused \in BOOLEAN
    /\ outcome \in {"none", "refused", "complete", "failed"}
    /\ evidence \in Nat \cup {Forged}

(* A receipt held by the pipeline belongs to the last stage execution and   *)
(* to no earlier one, and none is held while a stage runs.                  *)
ReceiptIsCurrent ==
    /\ pc = "executing" => receipt = 0
    /\ receipt # 0 => /\ receipt = Len(results)
                      /\ Last(results).status = "failed"
                      /\ Last(results).classified

(* A receipt on BlueprintFailed is proof about this very failure: the last  *)
(* stage execution was deterministic, failed, and the trusted runner        *)
(* classified it.  Neither an earlier stage's receipt nor keys a worker     *)
(* wrote among its artifacts get there (terminalEvidence, OnStageStart).    *)
EvidenceIsOfLastStage ==
    evidence # 0 =>
        /\ evidence = Len(results)
        /\ Last(results).status = "failed"
        /\ Last(results).classified
        /\ bp.stages[Last(results).stage].runs # "agent"

(* The other half: a classified failure that ends the walk reaches the      *)
(* manager with its receipt, unless the run was cancelled.  A lost receipt  *)
(* means that the failed check gets no repair task.                         *)
EvidenceNotLost ==
    (/\ outcome = "failed" /\ ~cancelled
     /\ Last(results).classified
     /\ bp.stages[Last(results).stage].runs # "agent") => evidence # 0

Checks(b) == IF b.id = "standard_task" THEN {"lint", "test"} ELSE {"verify"}

(* What a built-in blueprint delivers was verified as delivered: each of    *)
(* its checks really ran and passed after the last stage that could change  *)
(* the code.  A stage with nothing to run never counts as a pass.           *)
VerifiedDelivery ==
    (outcome = "complete" /\ bp.id \in {"standard_task", "quick_fix"}) =>
        \A c \in Checks(bp) : \E i \in DOMAIN results :
            /\ results[i].stage = c /\ results[i].verified
            /\ \A j \in i + 1 .. Len(results) :
                  ~bp.stages[results[j].stage].edits

(* Whatever fails, is cancelled or is paused, the walk ends in exactly one  *)
(* terminal event: routing through failure handlers cannot go round for     *)
(* ever.                                                                    *)
WalkEnds == <>[](pc = "reported" /\ outcome # "none")

-----------------------------------------------------------------------------
(* A failed lint is handed to fix_lint, as docs/STATE_MACHINE.md describes  *)
(* the standard task.                                                       *)
LintFailureIsFixed ==
    (bp.id = "standard_task" /\ results # <<>>
        /\ Last(results).stage = "lint" /\ Last(results).classified)
    => stage = "fix_lint"

(* A failed production_readiness_check goes on to review, as the comment in *)
(* DefaultBlueprint says of it.                                             *)
ReadinessDoesNotBlock ==
    (results # <<>> /\ Last(results).stage = "production_readiness_check"
        /\ Last(results).status = "failed")
    => stage = "review"

(* Leaving review out leaves out review only: a delivered standard task has *)
(* been through the production readiness check (Config.ReviewEnabled).      *)
OnlyReviewIsOptional ==
    (outcome = "complete" /\ bp.id = "standard_task") =>
        \E i \in DOMAIN results :
            results[i].stage = "production_readiness_check"

(* A run that Engine.Cancel cancelled does not go on to complete.           *)
CancelSticks == [][status = "cancelled" => status' # "completed"]_vars

(* After Pipeline.Pause no further stage is begun.                          *)
PauseExits == [][paused /\ pc = "loop" => pc' # "executing"]_vars

============================================================================
