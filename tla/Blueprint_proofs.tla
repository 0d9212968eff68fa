-------------------------- MODULE Blueprint_proofs --------------------------
(***************************************************************************)
(* What TLAPS proves of Blueprint, for every set of blueprints and every    *)
(* limit of total retries: the walk is well typed and never leaves the      *)
(* stages of its blueprint, its retry counters stay within their budgets,   *)
(* and a receipt on the terminal event is of the last failed check.         *)
(***************************************************************************)
EXTENDS Blueprint, SequenceTheorems, TLAPS

Outcome == [status : {"completed", "failed"}, verified : BOOLEAN,
            classified : BOOLEAN, claims : BOOLEAN]

\* An outcome that is classified is a failure.
Honest == {o \in Outcome : o.classified => o.status = "failed"}

----------------------------------------------------------------------------
(* What the executor returns *)

\* The three plain outcomes are outcomes, and only a failed check is classified.
LEMMA BasicOutcomes ==
    /\ Completed \in Honest /\ ~Completed.classified
    /\ Failed \in Honest
    /\ Verified \in Honest /\ ~Verified.classified
    /\ [Failed EXCEPT !.claims = TRUE] \in Honest
    /\ [Completed EXCEPT !.claims = TRUE] \in Honest
    /\ ~[Completed EXCEPT !.claims = TRUE].classified
BY DEF Completed, Failed, Verified, Honest, Outcome

\* A failed check is a failure, classified or not.
LEMMA CheckFailedHonest ==
    ASSUME NEW done \in Honest, NEW seen
    PROVE  CheckFailed(done, seen) \subseteq Honest
<1>1. ASSUME NEW c \in BOOLEAN
      PROVE  [done EXCEPT !.status = "failed", !.verified = FALSE,
                          !.classified = c] \in Honest
  BY DEF Honest, Outcome
<1> QED BY <1>1 DEF CheckFailed

\* Gates after a stage keep it unclassified, or fail it.
LEMMA AfterGatesHonest ==
    ASSUME NEW s \in Stage, NEW done \in Honest, ~done.classified
    PROVE  AfterGates(s, done) \subseteq Honest
<1>1. [done EXCEPT !.verified = TRUE] \in Honest
  BY DEF Honest, Outcome
<1>2. CheckFailed(done, executor = "gated") \subseteq Honest
  BY CheckFailedHonest
<1> QED BY <1>1, <1>2 DEF AfterGates

\* Whatever a stage runs, a classified outcome is a failed one.
LEMMA OutcomesHonest ==
    ASSUME NEW s \in Stage
    PROVE  Outcomes(s) \subseteq Honest
<1>1. AdmittedOutcomes(s) \subseteq Honest
  BY BasicOutcomes, CheckFailedHonest DEF AdmittedOutcomes
<1>2. AgentOutcomes(s) \subseteq Honest
  <2>1. AfterGates(s, Completed) \subseteq Honest
    BY BasicOutcomes, AfterGatesHonest
  <2>2. AfterGates(s, [Completed EXCEPT !.claims = TRUE]) \subseteq Honest
    BY BasicOutcomes, AfterGatesHonest
  <2> QED BY <2>1, <2>2, BasicOutcomes DEF AgentOutcomes
<1>3. /\ AfterGates(s, Completed) \subseteq Honest
      /\ AfterGates(s, Verified) \subseteq Honest
      /\ CheckFailed(Completed, executor = "gated") \subseteq Honest
      /\ CheckFailed(Completed, s.check) \subseteq Honest
  BY BasicOutcomes, AfterGatesHonest, CheckFailedHonest
<1>4. s.runs \in {"agent", "action", "gates", "unregistered", "commands",
                  "nothing"}
  BY DEF Stage
<1>5. LocalOutcomes(s) \subseteq Honest
  BY <1>2, <1>3, <1>4, BasicOutcomes DEF LocalOutcomes, NothingToRun
<1> QED BY <1>1, <1>5 DEF Outcomes

----------------------------------------------------------------------------
(* The blueprint of a run *)

Stages(b) == b.stages \in [DOMAIN b.stages -> Stage]

\* Writing a field of a stage leaves a stage.
LEMMA StageWritten ==
    ASSUME NEW x \in Stage
    PROVE  /\ [x EXCEPT !.onSuccess = "complete"] \in Stage
           /\ [x EXCEPT !.onSuccess = "complete"].onFailure = x.onFailure
           /\ [x EXCEPT !.onSuccess = "complete"].onSuccess = "complete"
           /\ [x EXCEPT !.check = TRUE, !.runs = "commands"] \in Stage
           /\ [x EXCEPT !.check = TRUE, !.runs = x.runs] \in Stage
<1>1. [x EXCEPT !.onSuccess = "complete"] \in Stage
  BY BlueprintAssumption DEF Stage
<1>2. /\ [x EXCEPT !.onSuccess = "complete"].onFailure = x.onFailure
      /\ [x EXCEPT !.onSuccess = "complete"].onSuccess = "complete"
  BY DEF Stage
<1>3. ASSUME NEW k \in {x.runs, "commands"}
      PROVE  [x EXCEPT !.check = TRUE, !.runs = k] \in Stage
  <2>1. [x EXCEPT !.check = TRUE] \in Stage
    BY DEF Stage
  <2>2. ASSUME NEW y \in Stage PROVE [y EXCEPT !.runs = k] \in Stage
    BY DEF Stage
  <2> QED BY <2>1, <2>2
<1> QED BY <1>1, <1>2, <1>3

\* The pipeline's configuration leaves the stages of a blueprint stages.
LEMMA ConfiguredStages == \A b \in Configured : Stages(b)
<1>1. ASSUME NEW b \in Blueprints, NEW names
      PROVE  Stages(WithCommands(b, names))
  <2>1. Stages(b)
    BY BlueprintAssumption DEF Stages
  <2>2. ASSUME NEW s \in DOMAIN b.stages
        PROVE  [b.stages[s] EXCEPT !.check = TRUE,
                   !.runs = IF @ \in {"nothing", "unregistered"}
                            THEN "commands" ELSE @] \in Stage
    <3>1. b.stages[s] \in Stage
      BY <2>1 DEF Stages
    <3>2. CASE b.stages[s].runs \in {"nothing", "unregistered"}
      BY <3>1, <3>2, StageWritten
    <3>3. CASE b.stages[s].runs \notin {"nothing", "unregistered"}
      BY <3>1, <3>3, StageWritten
    <3> QED BY <3>2, <3>3
  <2> QED BY <2>1, <2>2 DEF Stages, WithCommands
<1>2. ASSUME NEW b, NEW name \in {"lint", "test"}
      PROVE  Stages(Recapture(b, name))
  <2>1. [Plain EXCEPT !.check = TRUE, !.runs = "commands"] \in Stage
    <3>1. Plain \in Stage
      BY BlueprintAssumption DEF Plain, Stage
    <3>2. \A x \in Stage :
             [x EXCEPT !.check = TRUE, !.runs = "commands"] \in Stage
      BY StageWritten
    <3> QED BY <3>1, <3>2, Zenon
  <2> QED BY <2>1 DEF Stages, Recapture
<1>3. ASSUME NEW b \in Configured
      PROVE  \/ \E c \in Blueprints : \E names : b = WithCommands(c, names)
             \/ \E c : \E name \in {"lint", "test"} : b = Recapture(c, name)
  <2>1. CASE b \in Selected
    BY <2>1 DEF Selected
  <2>2. CASE b \notin Selected
    BY <2>2 DEF Configured
  <2> QED BY <2>1, <2>2
<1> QED BY <1>1, <1>2, <1>3, Zenon

\* Leaving review out keeps the stages, and a valid blueprint valid.
LEMMA ReviewStages ==
    ASSUME NEW b, Stages(b), NEW review
    PROVE  /\ Stages(WithReview(b, review))
           /\ DOMAIN WithReview(b, review).stages = DOMAIN b.stages
           /\ WithReview(b, review).initial = b.initial
           /\ Validate(b) => Validate(WithReview(b, review))
<1> DEFINE r == WithReview(b, review)
<1>1. DOMAIN r.stages = DOMAIN b.stages /\ r.initial = b.initial
  BY DEF WithReview
<1>2. ASSUME NEW s \in DOMAIN b.stages
      PROVE  /\ r.stages[s] \in Stage
             /\ r.stages[s].onFailure = b.stages[s].onFailure
             /\ r.stages[s].onSuccess \in {b.stages[s].onSuccess, "complete"}
  <2>1. b.stages[s] \in Stage
    BY DEF Stages
  <2>2. r.stages[s] = IF review \/ s # "test" THEN b.stages[s]
                      ELSE [b.stages[s] EXCEPT !.onSuccess = "complete"]
    BY DEF WithReview
  <2> QED BY <2>1, <2>2, StageWritten
<1>3. r.stages \in [DOMAIN r.stages -> Stage]
  BY <1>1, <1>2 DEF WithReview
<1>4. Validate(b) => Validate(r)
  BY <1>1, <1>2 DEF Validate
<1> QED BY <1>1, <1>3, <1>4 DEF Stages

----------------------------------------------------------------------------
(* Types *)

\* What the type invariant needs to be inductive: a walk has a valid
\* blueprint of stages.
Walking == Stages(bp) /\ (pc \in {"loop", "executing"} => Validate(bp))

\* A counter is stepped.
LEMMA Stepped ==
    ASSUME NEW D, NEW f \in [D -> Nat], NEW d \in D
    PROVE  [f EXCEPT ![d] = @ + 1] \in [D -> Nat]
OBVIOUS

\* Sequences: appending.
LEMMA Appended ==
    ASSUME NEW S, NEW q \in Seq(S), NEW e \in S
    PROVE  /\ Append(q, e) \in Seq(S)
           /\ Len(Append(q, e)) = Len(q) + 1
           /\ Last(Append(q, e)) = e
           /\ Append(q, e) # <<>>
<1>1. /\ Append(q, e) \in Seq(S)
      /\ Len(Append(q, e)) = Len(q) + 1
      /\ Append(q, e) # <<>>
      /\ Append(q, e)[Len(q) + 1] = e
  BY AppendProperties
<1>2. Last(Append(q, e)) = Append(q, e)[Len(Append(q, e))]
  BY DEF Last
<1> QED BY <1>1, <1>2

\* A configured blueprint that has not started.
LEMMA InitTypes == Init => TypeOK /\ Walking
<1> SUFFICES ASSUME Init PROVE TypeOK /\ Walking
  OBVIOUS
<1>1. Walking
  BY ConfiguredStages DEF Init, Walking
<1>2. cancelled \in BOOLEAN /\ paused \in BOOLEAN
  BY Zenon DEF Init
<1>3. results \in Seq(Result) /\ saved \in Seq(DOMAIN bp.stages)
  BY EmptySeq DEF Init
<1>4. /\ executor \in {"local", "gated", "admitted"}
      /\ pc \in {"new", "loop", "executing", "returned", "reported"}
      /\ stage \in DOMAIN bp.stages \cup {"complete", "", bp.initial}
      /\ pc = "executing" => stage \in DOMAIN bp.stages
      /\ status \in {"pending", "running", "paused", "completed", "failed",
                     "cancelled"}
      /\ retries \in [DOMAIN bp.stages -> Nat]
      /\ total \in Nat
      /\ receipt \in Nat
      /\ outcome \in {"none", "refused", "complete", "failed"}
      /\ evidence \in Nat \cup {Forged}
  BY DEF Init
<1> QED BY <1>1, <1>2, <1>3, <1>4, Zenon DEF TypeOK

\* The result that ExecuteStage appends is a result.
LEMMA ResultType ==
    ASSUME NEW o \in Honest, stage \in DOMAIN bp.stages
    PROVE  [stage |-> stage, status |-> o.status, verified |-> o.verified,
            classified |-> o.classified, claims |-> o.claims] \in Result
BY DEF Honest, Outcome, Result

\* Routing a result keeps the types: where it leads is a stage or the end.
LEMMA ExecuteStageTypes ==
    ASSUME TypeOK, Walking, ExecuteStage
    PROVE  TypeOK' /\ Walking'
<1>1. /\ pc = "executing" /\ stage \in DOMAIN bp.stages /\ Validate(bp)
      /\ bp.stages[stage] \in Stage
  BY DEF ExecuteStage, TypeOK, Walking, Stages
<1>2. bp' = bp /\ executor' = executor /\ cancelled' = cancelled
      /\ paused' = paused /\ outcome' = outcome /\ evidence' = evidence
  BY DEF ExecuteStage
<1>3. PICK o \in Outcomes(bp.stages[stage]) :
          /\ results' = Append(results,
                [stage |-> stage, status |-> o.status, verified |-> o.verified,
                 classified |-> o.classified, claims |-> o.claims])
          /\ receipt' = IF o.classified THEN Len(results) + 1 ELSE receipt
          /\ IF o.status = "completed" THEN RouteSuccess(stage)
             ELSE RouteFailure(stage)
  BY DEF ExecuteStage
<1>4. o \in Honest
  BY <1>1, OutcomesHonest
<1>5. results' \in Seq(Result) /\ receipt' \in Nat
  <2>1. results \in Seq(Result) /\ receipt \in Nat
    BY DEF TypeOK
  <2>2. results' \in Seq(Result)
    BY <1>1, <1>3, <1>4, <2>1, ResultType, Appended
  <2>3. Len(results) \in Nat
    BY <2>1, LenProperties
  <2>4. receipt' \in {receipt, Len(results) + 1}
    BY <1>3, Zenon
  <2> QED BY <2>1, <2>2, <2>3, <2>4
<1>6. Result' = Result
  BY <1>2 DEF Result
<1>7. /\ stage' \in DOMAIN bp.stages \cup {"complete", ""}
      /\ pc' \in {"loop", "returned"}
      /\ status' \in {status, "failed"}
      /\ retries' \in [DOMAIN bp.stages -> Nat]
      /\ total' \in Nat
      /\ saved' \in Seq(DOMAIN bp.stages)
  <2>1. /\ retries \in [DOMAIN bp.stages -> Nat] /\ total \in Nat
        /\ saved \in Seq(DOMAIN bp.stages)
    BY DEF TypeOK
  <2>2. CASE o.status = "completed"
    <3>1. RouteSuccess(stage)
      BY <1>3, <2>2
    <3>2. Append(saved, stage) \in Seq(DOMAIN bp.stages)
      BY <1>1, <2>1, Appended
    <3>3. bp.stages[stage].onSuccess \in DOMAIN bp.stages \cup {"", "complete"}
      BY <1>1 DEF Validate
    <3> QED BY <2>1, <3>1, <3>2, <3>3 DEF RouteSuccess
  <2>3. CASE o.status # "completed"
    <3>1. RouteFailure(stage)
      BY <1>3, <2>3
    <3>2. MayRetry(stage) => bp.stages[stage].onFailure \in DOMAIN bp.stages
      BY <1>1 DEF MayRetry, Validate
    <3>3. [retries EXCEPT ![stage] = @ + 1] \in [DOMAIN bp.stages -> Nat]
      BY <1>1, <2>1, Stepped, Zenon
    <3>4. /\ saved' = saved
          /\ retries' \in {retries, [retries EXCEPT ![stage] = @ + 1]}
          /\ total' \in {total, total + 1}
          /\ pc' \in {"loop", "returned"}
          /\ status' \in {status, "failed"}
          /\ stage' = stage \/ stage' \in DOMAIN bp.stages
      BY <3>1, <3>2, Zenon DEF RouteFailure
    <3>5. total' \in Nat
      BY <2>1, <3>4
    <3>6. retries' \in [DOMAIN bp.stages -> Nat]
      BY <2>1, <3>3, <3>4, Zenon
    <3>7. stage' \in DOMAIN bp.stages \cup {"complete", ""}
      BY <1>1, <3>4, Zenon
    <3> QED BY <2>1, <3>4, <3>5, <3>6, <3>7, Zenon
  <2> QED BY <2>2, <2>3
<1>8. Walking'
  BY <1>1, <1>2 DEF Walking, Stages, Validate
<1>9. /\ stage' \in DOMAIN bp.stages \cup {"complete", "", bp.initial}
      /\ pc' = "executing" => stage' \in DOMAIN bp.stages
      /\ pc' \in {"new", "loop", "executing", "returned", "reported"}
      /\ status' \in {"pending", "running", "paused", "completed", "failed",
                      "cancelled"}
  BY <1>7 DEF TypeOK
<1> QED BY <1>2, <1>5, <1>6, <1>7, <1>8, <1>9, Zenon DEF TypeOK

\* A step that leaves the blueprint, the results and the counters alone.
LEMMA QuietTypes ==
    ASSUME TypeOK, Walking,
           bp' = bp, executor' = executor, run' = run,
           pc' \in {"loop", "executing", "returned", "reported"} \cup {pc},
           pc' \in {"loop", "executing"} => Validate(bp),
           pc' = "executing" => stage \in DOMAIN bp.stages,
           status' \in {"pending", "running", "paused", "completed", "failed",
                        "cancelled"},
           receipt' \in Nat, cancelled' \in BOOLEAN, paused' \in BOOLEAN,
           outcome' \in {"none", "refused", "complete", "failed"},
           evidence' \in Nat \cup {Forged}
    PROVE  TypeOK' /\ Walking'
<1>1. /\ stage' = stage /\ retries' = retries /\ total' = total
      /\ results' = results /\ saved' = saved
  BY DEF run
<1>2. Result' = Result
  BY DEF Result
<1>3. Walking'
  BY DEF Walking, Stages, Validate
<1>4. pc' \in {"new", "loop", "executing", "returned", "reported"}
  BY DEF TypeOK
<1> QED BY <1>1, <1>2, <1>3, <1>4, Zenon DEF TypeOK

\* A walk starts only over a blueprint that Validate accepted.
LEMMA StartTypes ==
    ASSUME TypeOK, Walking, NEW review \in BOOLEAN, Start(review)
    PROVE  TypeOK' /\ Walking'
<1>1. CASE ~Validate(bp)
  <2>1. /\ bp' = bp /\ executor' = executor /\ run' = run
        /\ pc' = "reported" /\ outcome' = "refused" /\ status' = status
        /\ receipt' = receipt /\ cancelled' = cancelled /\ paused' = paused
        /\ evidence' = evidence
    BY <1>1, Zenon DEF Start, run
  <2> QED BY <2>1, QuietTypes, Zenon DEF TypeOK
<1>2. CASE Validate(bp)
  <2>1. /\ executor' = executor /\ stage' = stage /\ retries' = retries
        /\ total' = total /\ results' = results /\ saved' = saved
        /\ receipt' = receipt /\ cancelled' = cancelled /\ paused' = paused
        /\ evidence' = evidence /\ outcome' = outcome
        /\ pc' = "loop" /\ status' = "running"
        /\ bp' = WithReview(bp, review)
    BY <1>2, Zenon DEF Start, run
  <2>2. /\ Stages(bp') /\ DOMAIN bp'.stages = DOMAIN bp.stages
        /\ bp'.initial = bp.initial /\ Validate(bp')
    BY <1>2, <2>1, ReviewStages DEF Walking
  <2>3. Result' = Result
    BY <2>2 DEF Result
  <2>4. Walking'
    BY <2>1, <2>2 DEF Walking, Stages, Validate
  <2> QED BY <2>1, <2>2, <2>3, <2>4, Zenon DEF TypeOK
<1> QED BY <1>1, <1>2

\* A stage is begun only when the blueprint has it.
LEMMA BeginStageTypes ==
    ASSUME TypeOK, Walking, BeginStage
    PROVE  TypeOK' /\ Walking'
<1>1. /\ bp' = bp /\ executor' = executor /\ run' = run
      /\ cancelled' = cancelled /\ paused' = paused /\ outcome' = outcome
      /\ evidence' = evidence /\ pc = "loop"
  BY Zenon DEF BeginStage, run
<1>2. Validate(bp)
  BY <1>1 DEF Walking
<1>3. /\ pc' \in {"executing", "returned"}
      /\ pc' = "executing" => stage \in DOMAIN bp.stages
      /\ status' \in {status, "cancelled", "failed"}
      /\ receipt' \in {receipt, 0}
  BY Zenon DEF BeginStage
<1>4. receipt' \in Nat
  <2>1. receipt \in Nat
    BY Zenon DEF TypeOK
  <2> QED BY <1>3, <2>1
<1>5. status' \in {"pending", "running", "paused", "completed", "failed",
                   "cancelled"}
  BY <1>3 DEF TypeOK
<1>6. pc' \in {"loop", "executing", "returned", "reported"} \cup {pc}
  BY <1>3
<1> QED BY <1>1, <1>2, <1>3, <1>4, <1>5, <1>6, QuietTypes, Zenon DEF TypeOK

\* The end of a walk that ran out of stages.
LEMMA CompleteRunTypes ==
    ASSUME TypeOK, Walking, CompleteRun
    PROVE  TypeOK' /\ Walking'
<1>1. /\ bp' = bp /\ executor' = executor /\ run' = run
      /\ receipt' = receipt /\ cancelled' = cancelled /\ paused' = paused
      /\ outcome' = outcome /\ evidence' = evidence
      /\ pc' = "returned" /\ status' = "completed"
  BY Zenon DEF CompleteRun, run
<1> QED BY <1>1, QuietTypes, Zenon DEF TypeOK

\* The terminal event.
LEMMA ReportTypes ==
    ASSUME TypeOK, Walking, Report
    PROVE  TypeOK' /\ Walking'
<1>1. /\ bp' = bp /\ executor' = executor /\ run' = run
      /\ receipt' = receipt /\ cancelled' = cancelled /\ paused' = paused
      /\ status' = status /\ pc' = "reported"
  BY Zenon DEF Report, run
<1>2. /\ outcome' \in {"complete", "failed"}
      /\ evidence' \in {evidence, receipt, 0}
  BY Zenon DEF Report, FailureEvidence
<1>3. evidence' \in Nat \cup {Forged}
  <2>1. receipt \in Nat /\ evidence \in Nat \cup {Forged}
    BY Zenon DEF TypeOK
  <2> QED BY <1>2, <2>1
<1>4. outcome' \in {"none", "refused", "complete", "failed"}
  BY <1>2
<1> QED BY <1>1, <1>3, <1>4, QuietTypes, Zenon DEF TypeOK

\* Pause, resume and cancellation from outside.
LEMMA OutsideTypes ==
    ASSUME TypeOK, Walking, Outside
    PROVE  TypeOK' /\ Walking'
<1>1. /\ bp' = bp /\ executor' = executor /\ run' = run /\ pc' = pc
      /\ receipt' = receipt /\ outcome' = outcome /\ evidence' = evidence
  BY Zenon DEF Outside, CancelContext, PausePipeline, EnginePause,
               EngineResume, EngineCancel, SetStatus, run
<1>2. cancelled' \in {cancelled, TRUE} /\ paused' \in {paused, TRUE}
  BY Zenon DEF Outside, CancelContext, PausePipeline, EnginePause,
               EngineResume, EngineCancel, SetStatus
<1>3. status' \in {status, "paused", "running", "cancelled"}
  BY Zenon DEF Outside, CancelContext, PausePipeline, EnginePause,
               EngineResume, EngineCancel, SetStatus
<1>4. status' \in {"pending", "running", "paused", "completed", "failed",
                   "cancelled"}
  BY <1>3 DEF TypeOK
<1>5. cancelled' \in BOOLEAN /\ paused' \in BOOLEAN
  BY <1>2, Zenon DEF TypeOK
<1>6. /\ pc \in {"loop", "executing"} => Validate(bp)
      /\ pc = "executing" => stage \in DOMAIN bp.stages
  BY DEF TypeOK, Walking
<1> QED BY <1>1, <1>4, <1>5, <1>6, QuietTypes, Zenon DEF TypeOK

\* A step that changes nothing.
LEMMA StutterTypes ==
    ASSUME TypeOK, Walking, UNCHANGED vars
    PROVE  TypeOK' /\ Walking'
<1>1. /\ bp' = bp /\ executor' = executor /\ run' = run /\ pc' = pc
      /\ receipt' = receipt /\ outcome' = outcome /\ evidence' = evidence
      /\ cancelled' = cancelled /\ paused' = paused /\ status' = status
  BY Zenon DEF vars, run
<1>2. /\ pc \in {"loop", "executing"} => Validate(bp)
      /\ pc = "executing" => stage \in DOMAIN bp.stages
  BY DEF TypeOK, Walking
<1> QED BY <1>1, <1>2, QuietTypes, Zenon DEF TypeOK

\* Every step keeps the types, and the walk on a valid blueprint.
LEMMA NextTypes ==
    TypeOK /\ Walking /\ [Next]_vars => TypeOK' /\ Walking'
<1> SUFFICES ASSUME TypeOK, Walking, [Next]_vars PROVE TypeOK' /\ Walking'
  OBVIOUS
<1>1. CASE Walk
  BY <1>1, StartTypes, BeginStageTypes, CompleteRunTypes, ExecuteStageTypes,
     ReportTypes DEF Walk
<1>2. CASE Outside
  BY <1>2, OutsideTypes
<1>3. CASE Done \/ UNCHANGED vars
  BY <1>3, StutterTypes DEF Done
<1> QED BY <1>1, <1>2, <1>3 DEF Next

(* The type invariant holds of every walk: whatever the stages return and   *)
(* whoever interferes, Execute only ever looks up a stage its blueprint has.*)
THEOREM TypeCorrect == Spec => []TypeOK
<1>1. Init => TypeOK /\ Walking
  BY InitTypes
<1>2. TypeOK /\ Walking /\ [Next]_vars => TypeOK' /\ Walking'
  BY NextTypes
<1> QED BY <1>1, <1>2, PTL DEF Spec

----------------------------------------------------------------------------
(* Evidence *)

\* The strengthening: no event carries evidence before the report, and what
\* the report copies is current.
Evidence ==
    /\ ReceiptIsCurrent
    /\ EvidenceIsOfLastStage
    /\ pc # "reported" => evidence = 0

\* A step that leaves the results alone and only clears a receipt.
LEMMA QuietEvidence ==
    ASSUME Evidence, results' = results, evidence' = evidence, bp' = bp,
           receipt' \in {receipt, 0}, pc' = "executing" => receipt' = 0,
           pc = "reported" => pc' = "reported"
    PROVE  Evidence'
BY DEF Evidence, ReceiptIsCurrent, EvidenceIsOfLastStage

\* A stage leaves a receipt only of its own classified failure.
LEMMA ExecuteStageEvidence ==
    ASSUME TypeOK, Walking, Evidence, ExecuteStage
    PROVE  Evidence'
<1>1. /\ pc = "executing" /\ stage \in DOMAIN bp.stages
      /\ bp.stages[stage] \in Stage
  BY DEF ExecuteStage, TypeOK, Walking, Stages
<1>2. receipt = 0 /\ evidence = 0 /\ evidence' = evidence
  BY <1>1 DEF Evidence, ReceiptIsCurrent, ExecuteStage
<1>3. PICK o \in Outcomes(bp.stages[stage]) :
          /\ results' = Append(results,
                [stage |-> stage, status |-> o.status, verified |-> o.verified,
                 classified |-> o.classified, claims |-> o.claims])
          /\ receipt' = IF o.classified THEN Len(results) + 1 ELSE receipt
          /\ IF o.status = "completed" THEN RouteSuccess(stage)
             ELSE RouteFailure(stage)
  BY DEF ExecuteStage
<1> DEFINE e == [stage |-> stage, status |-> o.status,
                 verified |-> o.verified, classified |-> o.classified,
                 claims |-> o.claims]
<1>4. o \in Honest
  BY <1>1, OutcomesHonest
<1>5. results \in Seq(Result)
  BY Zenon DEF TypeOK
<1>6. Len(results') = Len(results) + 1 /\ Last(results') = e
  BY <1>1, <1>3, <1>4, <1>5, ResultType, Appended
<1>7. pc' \in {"loop", "returned"}
  BY <1>3, Zenon DEF RouteSuccess, RouteFailure
<1>8. receipt' # 0 => o.classified /\ receipt' = Len(results) + 1
  BY <1>2, <1>3, Zenon
<1>9. o.classified => o.status = "failed"
  BY <1>4, Zenon DEF Honest
<1>10. e.status = o.status /\ e.classified = o.classified
  OBVIOUS
<1>11. ReceiptIsCurrent'
  BY <1>6, <1>7, <1>8, <1>9, <1>10 DEF ReceiptIsCurrent
<1> QED BY <1>2, <1>11 DEF Evidence, EvidenceIsOfLastStage

\* The terminal event copies the receipt of the last, failed stage or none.
LEMMA ReportEvidence ==
    ASSUME Evidence, Report
    PROVE  Evidence'
<1>1. /\ results' = results /\ bp' = bp /\ receipt' = receipt
      /\ pc' = "reported" /\ evidence = 0
      /\ evidence' \in {evidence, FailureEvidence}
  BY DEF Report, Evidence, run
<1>2. FailureEvidence # 0 =>
        /\ receipt # 0 /\ FailureEvidence = receipt
        /\ bp.stages[Last(results).stage].runs # "agent"
  BY Zenon DEF FailureEvidence
<1>3. receipt # 0 => /\ receipt = Len(results)
                     /\ Last(results).status = "failed"
                     /\ Last(results).classified
  BY DEF Evidence, ReceiptIsCurrent
<1>4. ReceiptIsCurrent'
  BY <1>1, <1>3 DEF ReceiptIsCurrent
<1>5. EvidenceIsOfLastStage'
  BY <1>1, <1>2, <1>3 DEF EvidenceIsOfLastStage
<1> QED BY <1>1, <1>4, <1>5 DEF Evidence

\* Every step keeps Evidence.
LEMMA NextEvidence ==
    TypeOK /\ Walking /\ Evidence /\ [Next]_vars => Evidence'
<1> SUFFICES ASSUME TypeOK, Walking, Evidence, [Next]_vars PROVE Evidence'
  OBVIOUS
<1>1. ASSUME NEW review \in BOOLEAN, Start(review) PROVE Evidence'
  <2>1. /\ results' = results /\ receipt' = receipt /\ evidence' = evidence
        /\ pc = "new" /\ pc' \in {"loop", "reported"}
    BY <1>1, Zenon DEF Start, run
  <2>2. evidence = 0
    BY <2>1 DEF Evidence
  <2> QED BY <2>1, <2>2 DEF Evidence, ReceiptIsCurrent, EvidenceIsOfLastStage
<1>2. CASE BeginStage
  <2>1. /\ results' = results /\ evidence' = evidence /\ bp' = bp
        /\ receipt' \in {receipt, 0} /\ (pc' = "executing" => receipt' = 0)
        /\ pc = "loop"
    BY <1>2, Zenon DEF BeginStage, run
  <2> QED BY <2>1, QuietEvidence
<1>3. CASE CompleteRun
  <2>1. /\ results' = results /\ evidence' = evidence /\ bp' = bp
        /\ receipt' = receipt /\ pc' = "returned" /\ pc = "loop"
    BY <1>3, Zenon DEF CompleteRun, run
  <2> QED BY <2>1, QuietEvidence
<1>4. CASE ExecuteStage
  BY <1>4, ExecuteStageEvidence
<1>5. CASE Report
  BY <1>5, ReportEvidence
<1>6. CASE Outside \/ Done \/ UNCHANGED vars
  <2>1. /\ results' = results /\ evidence' = evidence /\ bp' = bp
        /\ receipt' = receipt /\ pc' = pc
    BY <1>6, Zenon DEF Outside, CancelContext, PausePipeline, EnginePause,
                 EngineResume, EngineCancel, SetStatus, run, Done, vars
  <2>2. pc' = "executing" => receipt' = 0
    BY <2>1 DEF Evidence, ReceiptIsCurrent
  <2> QED BY <2>1, <2>2, QuietEvidence
<1> QED BY <1>1, <1>2, <1>3, <1>4, <1>5, <1>6 DEF Next, Walk

(* Proof, never hearsay: for every blueprint, executor and interference, a  *)
(* receipt on BlueprintFailed is the trusted runner's own, of the last      *)
(* stage execution, which was deterministic and failed.                     *)
THEOREM EvidenceAlways == Spec => []EvidenceIsOfLastStage
<1>1. Init => TypeOK /\ Walking /\ Evidence
  <2>1. Init => Evidence
    BY DEF Init, Evidence, ReceiptIsCurrent, EvidenceIsOfLastStage
  <2> QED BY <2>1, InitTypes
<1>2. TypeOK /\ Walking /\ Evidence /\ [Next]_vars
        => TypeOK' /\ Walking' /\ Evidence'
  BY NextTypes, NextEvidence
<1>3. Evidence => EvidenceIsOfLastStage
  BY DEF Evidence
<1> QED BY <1>1, <1>2, <1>3, PTL DEF Spec

----------------------------------------------------------------------------
(* No receipt is lost *)

\* The strengthening: from the stage that failed a check to the report the
\* receipt is held, a walk that was not cancelled fails only after a stage has
\* run, and the outcome is set by the report.
Held ==
    /\ EvidenceNotLost
    /\ (pc \in {"loop", "returned"} /\ results # <<>> /\ Last(results).classified)
          => receipt # 0
    /\ pc = "new" => results = <<>>
    /\ pc \in {"new", "loop"} /\ results = <<>> => stage = bp.initial
    /\ pc = "returned" /\ ~cancelled /\ ~Ended => results # <<>>
    /\ outcome = "failed" => pc = "reported"

\* A stage that fails a check leaves the receipt of it.
LEMMA ExecuteStageHeld ==
    ASSUME TypeOK, Walking, Held, ExecuteStage
    PROVE  Held'
<1>1. /\ pc = "executing" /\ stage \in DOMAIN bp.stages
      /\ bp.stages[stage] \in Stage
  BY DEF ExecuteStage, TypeOK, Walking, Stages
<1>2. PICK o \in Outcomes(bp.stages[stage]) :
          /\ results' = Append(results,
                [stage |-> stage, status |-> o.status, verified |-> o.verified,
                 classified |-> o.classified, claims |-> o.claims])
          /\ receipt' = IF o.classified THEN Len(results) + 1 ELSE receipt
          /\ IF o.status = "completed" THEN RouteSuccess(stage)
             ELSE RouteFailure(stage)
  BY DEF ExecuteStage
<1> DEFINE e == [stage |-> stage, status |-> o.status,
                 verified |-> o.verified, classified |-> o.classified,
                 claims |-> o.claims]
<1>3. o \in Honest
  BY <1>1, OutcomesHonest
<1>4. results \in Seq(Result)
  BY Zenon DEF TypeOK
<1>5. results' # <<>> /\ Last(results') = e
  BY <1>1, <1>2, <1>3, <1>4, ResultType, Appended
<1>6. Len(results) + 1 # 0
  BY <1>4, LenProperties
<1>7. Last(results').classified => receipt' # 0
  BY <1>2, <1>5, <1>6
<1>8. pc' \in {"loop", "returned"} /\ outcome' = outcome
  BY <1>2, Zenon DEF RouteSuccess, RouteFailure, ExecuteStage
<1>9. outcome' # "failed"
  BY <1>1, <1>8 DEF Held
<1> QED BY <1>5, <1>7, <1>8, <1>9 DEF Held, EvidenceNotLost

\* The report copies the receipt it finds.
LEMMA ReportHeld ==
    ASSUME Evidence, Held, Report
    PROVE  Held'
<1>1. /\ results' = results /\ bp' = bp /\ cancelled' = cancelled
      /\ pc = "returned" /\ pc' = "reported"
  BY DEF Report, run
<1>2. CASE Ended
  <2>1. outcome' = "complete"
    BY <1>2 DEF Report
  <2> QED BY <1>1, <2>1 DEF Held, EvidenceNotLost
<1>3. CASE ~Ended
  <2>1. evidence' = FailureEvidence
    BY <1>3 DEF Report
  <2>2. ASSUME ~cancelled, Last(results).classified,
               bp.stages[Last(results).stage].runs # "agent"
        PROVE  FailureEvidence # 0
    <3>1. results # <<>>
      BY <1>1, <1>3, <2>2 DEF Held
    <3>2. receipt # 0
      BY <1>1, <2>2, <3>1 DEF Held
    <3>3. Last(results).status = "failed"
      BY <3>2 DEF Evidence, ReceiptIsCurrent
    <3> QED BY <2>2, <3>1, <3>2, <3>3 DEF FailureEvidence
  <2> QED BY <1>1, <2>1, <2>2 DEF Held, EvidenceNotLost
<1> QED BY <1>2, <1>3

\* Every step keeps Held.
LEMMA NextHeld ==
    TypeOK /\ Walking /\ Evidence /\ Held /\ [Next]_vars => Held'
<1> SUFFICES ASSUME TypeOK, Walking, Evidence, Held, [Next]_vars PROVE Held'
  OBVIOUS
<1>1. ASSUME NEW review \in BOOLEAN, Start(review) PROVE Held'
  <2>1. /\ results' = results /\ receipt' = receipt /\ stage' = stage
        /\ pc = "new" /\ pc' \in {"loop", "reported"}
        /\ outcome' \in {outcome, "refused"} /\ bp'.initial = bp.initial
    BY <1>1 DEF Start, run, WithReview
  <2>2. outcome' # "failed"
    BY <2>1 DEF Held
  <2> QED BY <2>1, <2>2 DEF Held, EvidenceNotLost
<1>2. CASE BeginStage
  <2>1. /\ results' = results /\ stage' = stage /\ bp' = bp
        /\ cancelled' = cancelled /\ outcome' = outcome /\ pc = "loop"
    BY <1>2, Zenon DEF BeginStage, run
  <2>2. \/ pc' = "executing"
        \/ pc' = "returned" /\ receipt' = receipt
             /\ (cancelled \/ stage \notin DOMAIN bp.stages)
    BY <1>2, Zenon DEF BeginStage
  <2>3. bp.initial \in DOMAIN bp.stages
    BY <2>1 DEF Walking, Validate
  <2>4. outcome' # "failed"
    BY <2>1 DEF Held
  <2> QED BY <2>1, <2>2, <2>3, <2>4 DEF Held, EvidenceNotLost
<1>3. CASE CompleteRun
  <2>1. /\ results' = results /\ stage' = stage /\ bp' = bp /\ receipt' = receipt
        /\ outcome' = outcome /\ pc = "loop" /\ pc' = "returned" /\ Ended
    BY <1>3, Zenon DEF CompleteRun, run
  <2>2. outcome' # "failed"
    BY <2>1 DEF Held
  <2> QED BY <2>1, <2>2 DEF Held, EvidenceNotLost, Ended
<1>4. CASE ExecuteStage
  BY <1>4, ExecuteStageHeld
<1>5. CASE Report
  BY <1>5, ReportHeld
<1>6. CASE Outside \/ Done \/ UNCHANGED vars
  <2>1. /\ results' = results /\ evidence' = evidence /\ bp' = bp /\ stage' = stage
        /\ receipt' = receipt /\ pc' = pc /\ outcome' = outcome
        /\ cancelled' = cancelled \/ cancelled' = TRUE
    BY <1>6, Zenon DEF Outside, CancelContext, PausePipeline, EnginePause,
                 EngineResume, EngineCancel, SetStatus, run, Done, vars
  <2>2. ~cancelled' => ~cancelled
    BY <2>1
  <2> QED BY <2>1, <2>2 DEF Held, EvidenceNotLost, Ended
<1> QED BY <1>1, <1>2, <1>3, <1>4, <1>5, <1>6 DEF Next, Walk

(* And none is lost: for every blueprint, executor and interference, a      *)
(* failed check that ends a walk which nobody cancelled reaches the manager *)
(* with the trusted runner's receipt.                                       *)
THEOREM EvidenceKept == Spec => []EvidenceNotLost
<1>1. Init => TypeOK /\ Walking /\ Evidence /\ Held
  <2>1. Init => Evidence
    BY DEF Init, Evidence, ReceiptIsCurrent, EvidenceIsOfLastStage
  <2>2. Init => Held
    BY DEF Init, Held, EvidenceNotLost
  <2> QED BY <2>1, <2>2, InitTypes
<1>2. TypeOK /\ Walking /\ Evidence /\ Held /\ [Next]_vars
        => TypeOK' /\ Walking' /\ Evidence' /\ Held'
  BY NextTypes, NextEvidence, NextHeld
<1>3. Held => EvidenceNotLost
  BY DEF Held
<1> QED BY <1>1, <1>2, <1>3, PTL DEF Spec

----------------------------------------------------------------------------
(* What a built-in blueprint delivers was verified *)

BuiltInIds == {"standard_task", "quick_fix"}

\* The blueprints that have the name of a built-in one are built in.
BuiltInsAreBuiltIn ==
    \A b \in Blueprints : /\ b.id = "standard_task" => b = DefaultBlueprint
                          /\ b.id = "quick_fix" => b = QuickFixBlueprint

\* Where no walk of a built-in blueprint gets.
Dead == {"fix_lint", "fix_tests", ""}

\* The checks that a walk has behind it when it comes to stage s.
Owed(id, s) ==
    {c \in {"lint", "test", "verify"} :
        \/ /\ id = "standard_task" /\ c = "lint"
           /\ s \in {"test", "production_readiness_check", "review", "complete"}
        \/ /\ id = "standard_task" /\ c = "test"
           /\ s \in {"production_readiness_check", "review", "complete"}
        \/ id = "quick_fix" /\ c = "verify" /\ s = "complete"}

\* A stage that completes only if a check ran and passed.
Proves(x) == x.runs \notin {"agent", "action"}

\* What a stage x named s must be for the checks to be behind the walk: the
\* checks prove, nothing edits after one, and each way out of a stage that is
\* taken leads to a stage that owes no more.
Sound(id, checks, s, x) ==
    /\ s \in checks => Proves(x)
    /\ Owed(id, s) # {} => ~x.edits
    /\ s \notin Dead =>
         /\ x.onSuccess \notin Dead
         /\ \A c \in Owed(id, x.onSuccess) : c \in Owed(id, s) \/ (c = s /\ c \in checks /\ ~x.edits)
         /\ x.onFailure # "" /\ x.maxRetries > 0 =>
               x.onFailure \notin Dead /\ Owed(id, x.onFailure) = {}

Guarded(b) ==
    /\ b.initial \notin Dead /\ Owed(b.id, b.initial) = {}
    /\ b.id = "quick_fix" => "test" \notin DOMAIN b.stages
    /\ \A s \in DOMAIN b.stages : Sound(b.id, Checks(b), s, b.stages[s])

\* The check c passed, and nothing has been edited since.
Passed(c) ==
    \E i \in DOMAIN results :
        /\ results[i].stage = c /\ results[i].verified
        /\ \A j \in i + 1 .. Len(results) : ~bp.stages[results[j].stage].edits

\* What makes VerifiedDelivery inductive: at every stage of a built-in
\* blueprint the checks that the walk owes there have passed.
Course ==
    /\ bp.id \in BuiltInIds =>
         /\ Guarded(bp)
         /\ stage \notin Dead
         /\ \A c \in Owed(bp.id, stage) : Passed(c)
    /\ pc = "new" => stage = bp.initial
    /\ outcome = "complete" => Ended /\ pc = "reported"

\* The standard task, stage by stage.
LEMMA DefaultGuarded == Guarded(DefaultBlueprint)
<1> DEFINE b == DefaultBlueprint
<1>1. b.id = "standard_task" /\ b.initial = "gather_context"
  BY DEF DefaultBlueprint
<1>2. DOMAIN b.stages = {"gather_context", "implement", "generate_contract_tests",
         "lint", "fix_lint", "test", "fix_tests", "production_readiness_check", "review"}
  BY DEF DefaultBlueprint
<1>3. Checks(b) = {"lint", "test"}
  BY <1>1 DEF Checks
<1>4. Sound("standard_task", {"lint", "test"}, "gather_context", b.stages["gather_context"])
  <2>1. /\ b.stages["gather_context"].onSuccess = "implement"
        /\ b.stages["gather_context"].maxRetries = 0
    BY DEF DefaultBlueprint, Plain
  <2> QED BY <2>1 DEF Sound, Dead, Owed
<1>5. Sound("standard_task", {"lint", "test"}, "implement", b.stages["implement"])
  <2>1. /\ b.stages["implement"].onSuccess = "generate_contract_tests"
        /\ b.stages["implement"].onFailure = "implement"
    BY DEF DefaultBlueprint, Plain, Agent
  <2> QED BY <2>1 DEF Sound, Dead, Owed
<1>6. Sound("standard_task", {"lint", "test"}, "generate_contract_tests",
            b.stages["generate_contract_tests"])
  <2>1. /\ b.stages["generate_contract_tests"].onSuccess = "lint"
        /\ b.stages["generate_contract_tests"].maxRetries = 0
    BY DEF DefaultBlueprint, Plain
  <2> QED BY <2>1 DEF Sound, Dead, Owed
<1>7. Sound("standard_task", {"lint", "test"}, "lint", b.stages["lint"])
  <2>1. /\ b.stages["lint"].onSuccess = "test" /\ b.stages["lint"].maxRetries = 0
        /\ b.stages["lint"].runs = "nothing" /\ ~b.stages["lint"].edits
    BY DEF DefaultBlueprint, Plain, Empty
  <2> QED BY <2>1 DEF Sound, Dead, Owed, Proves
<1>8. Sound("standard_task", {"lint", "test"}, "test", b.stages["test"])
  <2>1. /\ b.stages["test"].onSuccess = "production_readiness_check"
        /\ b.stages["test"].maxRetries = 0
        /\ b.stages["test"].runs = "nothing" /\ ~b.stages["test"].edits
    BY DEF DefaultBlueprint, Plain, Empty
  <2> QED BY <2>1 DEF Sound, Dead, Owed, Proves
<1>9. Sound("standard_task", {"lint", "test"}, "production_readiness_check",
            b.stages["production_readiness_check"])
  <2>1. /\ b.stages["production_readiness_check"].onSuccess = "review"
        /\ b.stages["production_readiness_check"].maxRetries = 0
        /\ ~b.stages["production_readiness_check"].edits
    BY DEF DefaultBlueprint, Plain
  <2> QED BY <2>1 DEF Sound, Dead, Owed
<1>10. Sound("standard_task", {"lint", "test"}, "review", b.stages["review"])
  <2>1. /\ b.stages["review"].onSuccess = "complete"
        /\ b.stages["review"].maxRetries = 0 /\ ~b.stages["review"].edits
    BY DEF DefaultBlueprint, Plain, Agent
  <2> QED BY <2>1 DEF Sound, Dead, Owed
<1>11. ASSUME NEW s \in {"fix_lint", "fix_tests"}
       PROVE  Sound("standard_task", {"lint", "test"}, s, b.stages[s])
  BY DEF Sound, Dead, Owed
<1>12. b.initial \notin Dead /\ Owed(b.id, b.initial) = {}
  BY <1>1 DEF Dead, Owed
<1> HIDE DEF b
<1>13. Guarded(b)
  BY <1>1, <1>2, <1>3, <1>4, <1>5, <1>6, <1>7, <1>8, <1>9, <1>10, <1>11, <1>12 DEF Guarded
<1> QED BY <1>13 DEF b

\* The quick fix, stage by stage.
LEMMA QuickFixGuarded == Guarded(QuickFixBlueprint)
<1> DEFINE b == QuickFixBlueprint
<1>1. b.id = "quick_fix" /\ b.initial = "implement" /\ DOMAIN b.stages = {"implement", "verify"}
  BY DEF QuickFixBlueprint
<1>2. Checks(b) = {"verify"}
  BY <1>1 DEF Checks
<1>3. Sound("quick_fix", {"verify"}, "implement", b.stages["implement"])
  <2>1. b.stages["implement"].onSuccess = "verify" /\ b.stages["implement"].onFailure = ""
    BY DEF QuickFixBlueprint, Plain, Agent
  <2> QED BY <2>1 DEF Sound, Dead, Owed
<1>4. Sound("quick_fix", {"verify"}, "verify", b.stages["verify"])
  <2>1. /\ b.stages["verify"].onSuccess = "complete" /\ b.stages["verify"].onFailure = ""
        /\ b.stages["verify"].runs = "gates" /\ ~b.stages["verify"].edits
    BY DEF QuickFixBlueprint, Plain
  <2> QED BY <2>1 DEF Sound, Dead, Owed, Proves
<1>5. b.initial \notin Dead /\ Owed(b.id, b.initial) = {}
  BY <1>1 DEF Dead, Owed
<1> HIDE DEF b
<1>6. Guarded(b)
  BY <1>1, <1>2, <1>3, <1>4, <1>5 DEF Guarded
<1> QED BY <1>6 DEF b

\* Soundness is of where a stage leads, whether it edits and whether it proves.
LEMMA SoundLike ==
    ASSUME NEW id, NEW checks, NEW s, NEW x, NEW y, Sound(id, checks, s, x),
           y.onSuccess = x.onSuccess, y.onFailure = x.onFailure,
           y.maxRetries = x.maxRetries, y.edits = x.edits, Proves(x) => Proves(y)
    PROVE  Sound(id, checks, s, y)
BY DEF Sound

\* The project's commands leave a stage where it leads, and what proves proves.
LEMMA CommandsStage ==
    ASSUME NEW x \in Stage, NEW k, k = x.runs \/ k = "commands"
    PROVE  LET y == [x EXCEPT !.check = TRUE, !.runs = k]
           IN  /\ y.onSuccess = x.onSuccess /\ y.onFailure = x.onFailure
               /\ y.maxRetries = x.maxRetries /\ y.edits = x.edits
               /\ Proves(x) => Proves(y)
<1> DEFINE z == [x EXCEPT !.check = TRUE]
<1>1. /\ z \in Stage
      /\ z.onSuccess = x.onSuccess /\ z.onFailure = x.onFailure
      /\ z.maxRetries = x.maxRetries /\ z.edits = x.edits
  BY DEF Stage
<1> HIDE DEF z
<1> DEFINE y == [z EXCEPT !.runs = k]
<1>2. /\ y.onSuccess = z.onSuccess /\ y.onFailure = z.onFailure
      /\ y.maxRetries = z.maxRetries /\ y.edits = z.edits /\ y.runs = k
  BY <1>1 DEF Stage
<1>3. Proves(x) => Proves(y)
  BY <1>2 DEF Proves
<1> HIDE DEF y
<1>4. y = [x EXCEPT !.check = TRUE, !.runs = k]
  BY DEF y, z
<1> QED BY <1>1, <1>2, <1>3, <1>4

\* A built-in blueprint with the project's commands is still guarded.
LEMMA CommandsGuarded ==
    ASSUME NEW b, Stages(b), Guarded(b), NEW names
    PROVE  Guarded(WithCommands(b, names))
<1> DEFINE r == WithCommands(b, names)
<1>1. r.id = b.id /\ r.initial = b.initial /\ DOMAIN r.stages = DOMAIN b.stages
  BY DEF WithCommands
<1>2. Checks(r) = Checks(b)
  BY <1>1 DEF Checks
<1>3. ASSUME NEW s \in DOMAIN b.stages PROVE Sound(b.id, Checks(b), s, r.stages[s])
  <2>1. Sound(b.id, Checks(b), s, b.stages[s]) /\ b.stages[s] \in Stage
    BY DEF Guarded, Stages
  <2>2. CASE s \notin names
    <3>1. r.stages[s] = b.stages[s]
      BY <2>2 DEF WithCommands
    <3> QED BY <2>1, <3>1
  <2>3. CASE s \in names
    <3> DEFINE k == IF b.stages[s].runs \in {"nothing", "unregistered"}
                    THEN "commands" ELSE b.stages[s].runs
               y == [b.stages[s] EXCEPT !.check = TRUE, !.runs = k]
    <3>1. r.stages[s] = y
      BY <2>3 DEF WithCommands
    <3>2. k = b.stages[s].runs \/ k = "commands"
      OBVIOUS
    <3> HIDE DEF k
    <3>3. /\ y.onSuccess = b.stages[s].onSuccess /\ y.onFailure = b.stages[s].onFailure
          /\ y.maxRetries = b.stages[s].maxRetries /\ y.edits = b.stages[s].edits
          /\ Proves(b.stages[s]) => Proves(y)
      BY <2>1, <3>2, CommandsStage
    <3> HIDE DEF y, r
    <3> QED BY <2>1, <3>1, <3>3, SoundLike
  <2> QED BY <2>2, <2>3
<1> HIDE DEF r
<1>4. Guarded(r)
  BY <1>1, <1>2, <1>3 DEF Guarded
<1> QED BY <1>4 DEF r

\* Without review the stage test ends the walk, with the same checks behind it.
LEMMA ReviewGuarded ==
    ASSUME NEW b, Stages(b), Guarded(b), b.id \in BuiltInIds, NEW review
    PROVE  Guarded(WithReview(b, review)) /\ WithReview(b, review).id = b.id
<1> DEFINE r == WithReview(b, review)
<1>1. r.id = b.id /\ r.initial = b.initial /\ DOMAIN r.stages = DOMAIN b.stages
  BY DEF WithReview
<1>2. Checks(r) = Checks(b)
  BY <1>1 DEF Checks
<1>3. ASSUME NEW s \in DOMAIN b.stages PROVE Sound(b.id, Checks(b), s, r.stages[s])
  <2>1. Sound(b.id, Checks(b), s, b.stages[s]) /\ b.stages[s] \in Stage
    BY DEF Guarded, Stages
  <2>2. CASE review \/ s # "test"
    <3>1. r.stages[s] = b.stages[s]
      BY <2>2 DEF WithReview
    <3> QED BY <2>1, <3>1
  <2>3. CASE ~review /\ s = "test"
    <3> DEFINE x == b.stages[s]
               y == [x EXCEPT !.onSuccess = "complete"]
    <3>1. r.stages[s] = y
      BY <2>3 DEF WithReview
    <3>2. /\ y.onSuccess = "complete" /\ y.onFailure = x.onFailure
          /\ y.maxRetries = x.maxRetries /\ y.edits = x.edits /\ y.runs = x.runs
      BY <2>1 DEF Stage
    <3> HIDE DEF x, y
    <3>3. Sound(b.id, Checks(b), s, x)
      BY <2>1 DEF x
    <3>4. "complete" \notin Dead
      BY DEF Dead
    <3>5. b.id = "standard_task"
      BY <2>3 DEF Guarded, BuiltInIds
    <3>6. Checks(b) = {"lint", "test"} /\ Owed(b.id, s) = {"lint"}
          /\ Owed(b.id, "complete") = {"lint", "test"}
      BY <2>3, <3>5 DEF Checks, Owed
    <3>7. Proves(y) /\ ~x.edits
      BY <2>3, <3>2, <3>3, <3>6 DEF Sound, Proves
    <3>8. ~y.edits
      BY <3>2, <3>7
    <3>9. s \notin Dead
      BY <2>3 DEF Dead
    <3>10. y.onFailure # "" /\ y.maxRetries > 0 =>
             y.onFailure \notin Dead /\ Owed(b.id, y.onFailure) = {}
      BY <3>2, <3>3, <3>9 DEF Sound
    <3>11. \A c \in Owed(b.id, y.onSuccess) :
              c \in Owed(b.id, s) \/ (c = s /\ c \in Checks(b) /\ ~y.edits)
      BY <2>3, <3>2, <3>6, <3>8
    <3>12. Sound(b.id, Checks(b), s, y)
      BY <3>2, <3>4, <3>7, <3>8, <3>10, <3>11 DEF Sound
    <3> QED BY <3>1, <3>12
  <2> QED BY <2>2, <2>3
<1> HIDE DEF r
<1>4. Guarded(r)
  BY <1>1, <1>2, <1>3 DEF Guarded
<1> QED BY <1>1, <1>4 DEF r

\* The blueprints of a run that have a built-in name are guarded.
LEMMA ConfiguredGuarded ==
    ASSUME BuiltInsAreBuiltIn, NEW b \in Configured, b.id \in BuiltInIds
    PROVE  Guarded(b)
<1>1. PICK c \in Blueprints, names \in SUBSET {"lint", "test"} : b = WithCommands(c, names)
  <2>1. \A c, name : Recapture(c, name).id = "verification_recapture"
    BY DEF Recapture
  <2>2. b \in Selected
    BY <2>1 DEF Configured, BuiltInIds
  <2> QED BY <2>2 DEF Selected
<1>2. c.id = b.id
  BY <1>1 DEF WithCommands
<1>3. Stages(c)
  BY BlueprintAssumption DEF Stages
<1>4. Guarded(c)
  BY <1>2, DefaultGuarded, QuickFixGuarded DEF BuiltInsAreBuiltIn, BuiltInIds
<1> QED BY <1>1, <1>3, <1>4, CommandsGuarded

\* A stage that proves completes verified.
LEMMA ProvesVerifies ==
    ASSUME NEW x \in Stage, Proves(x), NEW o \in Outcomes(x), o.status = "completed"
    PROVE  o.verified
<1>1. ASSUME NEW done \in Honest, NEW seen, NEW f \in CheckFailed(done, seen)
      PROVE  f.status = "failed"
  <2>1. ASSUME NEW c \in BOOLEAN
        PROVE  [done EXCEPT !.status = "failed", !.verified = FALSE,
                            !.classified = c].status = "failed"
    BY DEF Honest, Outcome
  <2> QED BY <1>1, <2>1 DEF CheckFailed
<1>2. Verified \in Honest /\ Completed \in Honest /\ Verified.verified
      /\ Failed.status = "failed" /\ [Failed EXCEPT !.claims = TRUE].status = "failed"
      /\ [Verified EXCEPT !.verified = TRUE].verified
  BY BasicOutcomes DEF Verified, Completed, Failed
<1>3. ASSUME NEW f \in AfterGates(x, Verified), f.status = "completed" PROVE f.verified
  BY <1>1, <1>2, <1>3 DEF AfterGates
<1>4. CASE executor = "admitted"
  <2>1. x.runs # "agent"
    BY DEF Proves
  <2> QED BY <1>1, <1>2, <1>4, <2>1 DEF Outcomes, AdmittedOutcomes
<1>5. CASE executor # "admitted"
  <2>1. o \in LocalOutcomes(x)
    BY <1>5 DEF Outcomes
  <2>2. x.runs \in {"gates", "commands", "unregistered", "nothing"}
    BY DEF Proves, Stage
  <2>3. CASE x.runs = "gates"
    <3>1. o \in CheckFailed(Completed, executor = "gated") \cup AfterGates(x, Verified)
      BY <2>1, <2>3 DEF LocalOutcomes
    <3> QED BY <1>1, <1>2, <1>3, <3>1
  <2>4. CASE x.runs = "commands"
    <3>1. o \in CheckFailed(Completed, x.check) \cup AfterGates(x, Verified)
      BY <2>1, <2>4 DEF LocalOutcomes
    <3> QED BY <1>1, <1>2, <1>3, <3>1
  <2>5. CASE x.runs \in {"unregistered", "nothing"}
    BY <1>2, <2>1, <2>5 DEF LocalOutcomes, NothingToRun
  <2> QED BY <2>2, <2>3, <2>4, <2>5
<1> QED BY <1>4, <1>5

\* A check that has passed stays passed after a stage that edits nothing ...
LEMMA PassedKept ==
    ASSUME results \in Seq(Result), NEW e \in Result, results' = Append(results, e),
           bp' = bp, ~bp.stages[e.stage].edits, NEW c, Passed(c)
    PROVE  Passed(c)'
<1>1. PICK i \in DOMAIN results :
        /\ results[i].stage = c /\ results[i].verified
        /\ \A j \in i + 1 .. Len(results) : ~bp.stages[results[j].stage].edits
  BY DEF Passed
<1>2. /\ Len(results) \in Nat /\ i \in 1 .. Len(results)
      /\ Len(results') = Len(results) + 1 /\ DOMAIN results' = 1 .. Len(results) + 1
      /\ \A k \in 1 .. Len(results) : results'[k] = results[k]
      /\ results'[Len(results) + 1] = e
  BY AppendProperties, LenProperties
<1>3. i \in DOMAIN results' /\ results'[i] = results[i]
  BY <1>2
<1>4. ASSUME NEW j \in i + 1 .. Len(results') PROVE ~bp'.stages[results'[j].stage].edits
  <2>1. CASE j = Len(results) + 1
    BY <1>2, <2>1
  <2>2. CASE j # Len(results) + 1
    <3>1. j \in i + 1 .. Len(results) /\ j \in 1 .. Len(results)
      BY <1>2, <2>2
    <3> QED BY <1>1, <1>2, <3>1
  <2> QED BY <2>1, <2>2
<1> QED BY <1>1, <1>3, <1>4 DEF Passed

\* ... and a check that passes has just passed.
LEMMA PassedNow ==
    ASSUME results \in Seq(Result), NEW e \in Result, results' = Append(results, e),
           e.verified, NEW c, e.stage = c
    PROVE  Passed(c)'
<1>1. /\ Len(results) \in Nat /\ Len(results') = Len(results) + 1
      /\ Len(results) + 1 \in DOMAIN results' /\ results'[Len(results) + 1] = e
  BY AppendProperties, LenProperties
<1>2. Len(results) + 1 + 1 .. Len(results') = {}
  BY <1>1
<1> QED BY <1>1, <1>2 DEF Passed

\* A stage of a built-in blueprint leads where its checks are behind the walk.
LEMMA ExecuteStageCourse ==
    ASSUME TypeOK, Walking, Course, ExecuteStage
    PROVE  Course'
<1>1. /\ pc = "executing" /\ stage \in DOMAIN bp.stages
      /\ bp.stages[stage] \in Stage /\ bp' = bp /\ outcome' = outcome
  BY DEF ExecuteStage, TypeOK, Walking, Stages
<1>2. PICK o \in Outcomes(bp.stages[stage]) :
          /\ results' = Append(results,
                [stage |-> stage, status |-> o.status, verified |-> o.verified,
                 classified |-> o.classified, claims |-> o.claims])
          /\ receipt' = IF o.classified THEN Len(results) + 1 ELSE receipt
          /\ IF o.status = "completed" THEN RouteSuccess(stage)
             ELSE RouteFailure(stage)
  BY DEF ExecuteStage
<1> DEFINE e == [stage |-> stage, status |-> o.status,
                 verified |-> o.verified, classified |-> o.classified,
                 claims |-> o.claims]
           x == bp.stages[stage]
<1>3. o \in Honest
  BY <1>1, OutcomesHonest
<1>4. e \in Result /\ e.stage = stage /\ e.verified = o.verified
  BY <1>1, <1>3, ResultType
<1>5. results' = Append(results, e) /\ results \in Seq(Result)
  BY <1>2, Zenon DEF TypeOK
<1> HIDE DEF e, x
<1>6. pc' # "new"
  BY <1>2 DEF RouteSuccess, RouteFailure
<1>7. outcome' # "complete"
  BY <1>1 DEF Course
<1>8. ASSUME bp.id \in BuiltInIds
      PROVE  stage' \notin Dead /\ \A c \in Owed(bp.id, stage') : Passed(c)'
  <2>1. /\ stage \notin Dead /\ Sound(bp.id, Checks(bp), stage, x)
        /\ \A c \in Owed(bp.id, stage) : Passed(c)
    BY <1>1, <1>8 DEF Course, Guarded, x
  <2>2. ASSUME ~x.edits, NEW c, Passed(c) PROVE Passed(c)'
    BY <1>1, <1>4, <1>5, <2>2, PassedKept DEF x
  <2>3. \A c \in Owed(bp.id, stage) : Passed(c)'
    BY <2>1, <2>2 DEF Sound
  <2>4. CASE o.status = "completed"
    <3>1. stage' = x.onSuccess
      BY <1>2, <2>4 DEF RouteSuccess, x
    <3>2. ASSUME NEW c, c = stage, c \in Checks(bp) PROVE Passed(c)'
      <4>1. Proves(x)
        BY <2>1, <3>2 DEF Sound
      <4>2. e.verified
        BY <1>1, <1>2, <1>4, <2>4, <4>1, ProvesVerifies DEF x
      <4> QED BY <1>4, <1>5, <3>2, <4>2, PassedNow
    <3> QED BY <2>1, <2>3, <3>1, <3>2 DEF Sound
  <2>5. CASE o.status # "completed"
    <3>1. RouteFailure(stage)
      BY <1>2, <2>5
    <3>2. stage' = stage \/ (MayRetry(stage) /\ stage' = x.onFailure)
      BY <3>1 DEF RouteFailure, x
    <3>3. MayRetry(stage) => x.onFailure # "" /\ x.maxRetries > 0
      <4>1. x.maxRetries \in Nat
        BY <1>1 DEF Stage, x
      <4>2. retries[stage] \in Nat
        BY <1>1 DEF TypeOK
      <4>3. MayRetry(stage) => x.onFailure # "" /\ retries[stage] < x.maxRetries
        BY DEF MayRetry, x
      <4>4. \A m, n \in Nat : m < n => n > 0
        OBVIOUS
      <4> QED BY <4>1, <4>2, <4>3, <4>4, Zenon
    <3> QED BY <2>1, <2>3, <3>2, <3>3 DEF Sound
  <2> QED BY <2>4, <2>5
<1> QED BY <1>1, <1>6, <1>7, <1>8 DEF Course

\* A step that leaves the blueprint, the stage and the results alone.
LEMMA QuietCourse ==
    ASSUME Course, bp' = bp, stage' = stage, results' = results,
           pc' = "new" => pc = "new", outcome' = "complete" => pc' = "reported" /\ (outcome = "complete" \/ Ended)
    PROVE  Course'
BY DEF Course, Passed, Ended

\* Every step keeps Course.
LEMMA NextCourse ==
    TypeOK /\ Walking /\ Course /\ [Next]_vars => Course'
<1> SUFFICES ASSUME TypeOK, Walking, Course, [Next]_vars PROVE Course'
  OBVIOUS
<1>1. ASSUME NEW review \in BOOLEAN, Start(review) PROVE Course'
  <2>1. CASE ~Validate(bp)
    BY <1>1, <2>1, QuietCourse DEF Start, run
  <2>2. CASE Validate(bp)
    <3>1. /\ bp' = WithReview(bp, review) /\ stage' = stage /\ outcome' = outcome
          /\ pc' = "loop" /\ stage = bp.initial
      BY <1>1, <2>2 DEF Start, run, Course
    <3>2. bp'.id = bp.id /\ bp'.initial = bp.initial
      BY <3>1 DEF WithReview
    <3>3. bp'.id \in BuiltInIds =>
             Guarded(bp') /\ stage' \notin Dead /\ Owed(bp'.id, stage') = {}
      <4>1. bp.id \in BuiltInIds => Guarded(bp) /\ Guarded(bp')
        BY <3>1, ReviewGuarded DEF Course, Walking
      <4> QED BY <3>1, <3>2, <4>1 DEF Guarded
    <3>4. outcome' # "complete"
      BY <1>1, <3>1 DEF Start, Course
    <3> QED BY <3>1, <3>3, <3>4 DEF Course
  <2> QED BY <2>1, <2>2
<1>2. CASE BeginStage \/ CompleteRun
  <2>1. /\ bp' = bp /\ stage' = stage /\ results' = results /\ outcome' = outcome
        /\ pc = "loop" /\ pc' # "new"
    BY <1>2, Zenon DEF BeginStage, CompleteRun, run
  <2>2. outcome # "complete"
    BY <2>1 DEF Course
  <2> QED BY <2>1, <2>2, QuietCourse
<1>3. CASE ExecuteStage
  BY <1>3, ExecuteStageCourse
<1>4. CASE Report
  <2>1. /\ bp' = bp /\ stage' = stage /\ results' = results /\ pc' = "reported"
        /\ outcome' = "complete" => Ended
    BY <1>4 DEF Report, run
  <2> QED BY <2>1, QuietCourse
<1>5. CASE Outside \/ Done \/ UNCHANGED vars
  <2>1. /\ bp' = bp /\ stage' = stage /\ results' = results /\ outcome' = outcome
        /\ pc' = pc /\ (outcome = "complete" => pc = "reported")
    BY <1>5, Zenon DEF Outside, CancelContext, PausePipeline, EnginePause,
                 EngineResume, EngineCancel, SetStatus, run, Done, vars, Course
  <2> QED BY <2>1, QuietCourse
<1> QED BY <1>1, <1>2, <1>3, <1>4, <1>5 DEF Next, Walk

\* What has been delivered has come to its end with its checks behind it.
LEMMA CourseGives == Course => VerifiedDelivery
<1> SUFFICES ASSUME Course, outcome = "complete", bp.id \in BuiltInIds,
                    NEW c \in Checks(bp)
             PROVE  Passed(c)
  BY DEF VerifiedDelivery, Passed, BuiltInIds
<1>1. stage = "complete"
  BY DEF Course, Ended, Dead
<1>2. c \in Owed(bp.id, "complete")
  BY DEF Checks, Owed, BuiltInIds
<1> QED BY <1>1, <1>2 DEF Course

(* Nothing unverified is delivered: a standard task or quick fix, with any  *)
(* of the project's commands or none, with or without review, under any     *)
(* executor, completes only after each of its checks really ran and passed, *)
(* with no stage that may edit the code after it.  The project may have any *)
(* other blueprints, not ones of its own under the built-in names.          *)
THEOREM DeliveryIsVerified == Spec => [](BuiltInsAreBuiltIn => VerifiedDelivery)
<1> DEFINE Inv == TypeOK /\ Walking /\ (BuiltInsAreBuiltIn => Course)
<1>1. Init => Inv
  <2>1. Init => (BuiltInsAreBuiltIn => Course)
    <3> SUFFICES ASSUME Init, BuiltInsAreBuiltIn PROVE Course
      OBVIOUS
    <3>1. bp.id \in BuiltInIds => Guarded(bp)
      BY ConfiguredGuarded DEF Init
    <3>2. stage = bp.initial /\ outcome # "complete"
      BY DEF Init
    <3> QED BY <3>1, <3>2 DEF Course, Guarded
  <2> QED BY <2>1, InitTypes
<1>2. Inv /\ [Next]_vars => Inv'
  <2>1. BuiltInsAreBuiltIn' <=> BuiltInsAreBuiltIn
    BY DEF BuiltInsAreBuiltIn
  <2> QED BY <2>1, NextTypes, NextCourse
<1>3. Inv => (BuiltInsAreBuiltIn => VerifiedDelivery)
  BY CourseGives
<1> QED BY <1>1, <1>2, <1>3, PTL DEF Spec
============================================================================
