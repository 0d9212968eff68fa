-------------------------- MODULE Validation_proofs --------------------------
(***************************************************************************)
(* Proofs about Validation, for any worktree, any number of clients, plans *)
(* items and run steps, and any number of builds.                          *)
(*                                                                         *)
(* SweptNeverPublished follows from the statuses the statements ask for.   *)
(* OneAuthority is inductive.  DoneIsBacked rests on Honest: a link says   *)
(* "passed" only of a step that completed, a claim says "supported" only   *)
(* of an item with such a link, and neither can be taken back, so that a   *)
(* request that has asked the ledger may use the answer later.             *)
(***************************************************************************)
EXTENDS Validation, TLAPS, FiniteSetTheorems

USE ValidationAssumption

\* What makes a later completion right: the links, the claims, and the requests
\* that have asked the ledger.
LinksHonest == \A l \in links : l.status = "passed" => steps[l.step] = "completed"
ClaimsHonest == \A q \in 1..MaxPlans, i \in Items : claims[q][i] = "supported" => HasPassed(q, i)
AnswerHonest(c) ==
    Doing(c, "done") /\ job[c].plan # 0 =>
        /\ job[c].plan \in Plans
        /\ \A i \in Items : plans[job[c].plan].items[i] = "required" => HasPassed(job[c].plan, i)
Honest == LinksHonest /\ ClaimsHonest /\ \A c \in Clients : AnswerHonest(c)

\* The parts of OneAuthority, without the cardinality.
Unique ==
    /\ \A q, r \in Plans : plans[q].status = "accepted" /\ plans[r].status = "accepted" => q = r
    /\ \A q, r \in Plans : plans[q].source = plans[r].source /\ plans[q].source # 0 => q = r

\* Who is about to accept a proposal holds one.
Pointed == \A c \in Clients : Doing(c, "accept") => job[c].plan \in Plans

----------------------------------------------------------------------------
(* The rows after each statement *)

\* Promotion keeps the rows and makes only g current.
LEMMA Promoted ==
    ASSUME gens \in Seq(Generation), NEW g \in Gens
    PROVE  /\ PromoteGeneration(g) \in Seq(Generation)
           /\ Len(PromoteGeneration(g)) = Len(gens)
           /\ \A h \in Gens : PromoteGeneration(g)[h].status = "current" => h = g
  <1>. DEFINE e(h) == CASE h = g -> [gens[h] EXCEPT !.status = "current"]
                        [] h # g /\ gens[h].status = "current" -> [gens[h] EXCEPT !.status = "superseded"]
                        [] OTHER -> gens[h]
  <1>1. ASSUME NEW h \in Gens
        PROVE  e(h) \in Generation /\ (e(h).status = "current" => h = g)
    <2>1. gens[h] \in Generation
      BY DEF Gens
    <2>2. CASE h = g
      BY <2>1, <2>2 DEF Generation, GenStatus
    <2>3. CASE h # g /\ gens[h].status = "current"
      BY <2>1, <2>3 DEF Generation, GenStatus
    <2>4. CASE h # g /\ gens[h].status # "current"
      BY <2>1, <2>4 DEF Generation
    <2>. QED  BY <2>2, <2>3, <2>4
  <1>2. PromoteGeneration(g) = [h \in 1..Len(gens) |-> e(h)]
    BY DEF PromoteGeneration, Gens
  <1>3. \A h \in 1..Len(gens) : e(h) \in Generation /\ (e(h).status = "current" => h = g)
    BY <1>1 DEF Gens
  <1>4. Len(gens) \in Nat
    OBVIOUS
  <1>. HIDE DEF e
  <1>. QED  BY <1>2, <1>3, <1>4 DEF Gens

\* One row gets another status.
LEMMA Restatus ==
    ASSUME gens \in Seq(Generation), NEW g \in Gens, NEW s \in GenStatus
    PROVE  /\ [gens EXCEPT ![g].status = s] \in Seq(Generation)
           /\ Len([gens EXCEPT ![g].status = s]) = Len(gens)
           /\ [gens EXCEPT ![g].status = s][g].status = s
           /\ \A h \in Gens : h # g => [gens EXCEPT ![g].status = s][h] = gens[h]
  <1>1. gens[g] \in Generation
    BY DEF Gens
  <1>2. [gens[g] EXCEPT !.status = s] \in Generation /\ [gens[g] EXCEPT !.status = s].status = s
    BY <1>1 DEF Generation
  <1>3. [gens EXCEPT ![g].status = s] = [gens EXCEPT ![g] = [gens[g] EXCEPT !.status = s]]
    BY DEF Gens
  <1>. QED  BY <1>2, <1>3 DEF Gens

\* A build that failed leaves its row, or marks it.
LEMMA Failed ==
    ASSUME gens \in Seq(Generation), NEW g \in Gens, NEW s \in {"failed", "inconsistent"}
    PROVE  /\ FailGeneration(g, s) \in Seq(Generation)
           /\ Len(FailGeneration(g, s)) = Len(gens)
           /\ \A h \in Gens : FailGeneration(g, s)[h] = gens[h] \/ FailGeneration(g, s)[h].status = s
  <1>1. CASE gens[g].status = "building"
    <2>1. FailGeneration(g, s) = [gens EXCEPT ![g].status = s]
      BY <1>1 DEF FailGeneration
    <2>2. s \in GenStatus
      BY DEF GenStatus
    <2>3. /\ [gens EXCEPT ![g].status = s] \in Seq(Generation)
          /\ Len([gens EXCEPT ![g].status = s]) = Len(gens)
          /\ [gens EXCEPT ![g].status = s][g].status = s
          /\ \A h \in Gens : h # g => [gens EXCEPT ![g].status = s][h] = gens[h]
      BY <2>2, Restatus
    <2>. QED  BY <2>1, <2>3
  <1>2. CASE gens[g].status # "building"
    BY <1>2 DEF FailGeneration
  <1>. QED  BY <1>1, <1>2

\* A full scan gives up the builds it finds and adds its own.
LEMMA Begun ==
    ASSUME TypeOK, NEW full \in BOOLEAN, BeginGeneration(full)
    PROVE  /\ gens' \in Seq(Generation) /\ Len(gens') = Len(gens) + 1
           /\ \A h \in Gens : gens'[h] = gens[h] \/ gens'[h].status = "failed"
  <1>. DEFINE e(h) == IF gens[h].status = "building" THEN [gens[h] EXCEPT !.status = "failed"] ELSE gens[h]
              rows == IF full THEN [h \in Gens |-> e(h)] ELSE gens
              new == [tree |-> tree, status |-> "building"]
  <1>1. gens \in Seq(Generation) /\ Len(gens) \in Nat /\ new \in Generation
    BY DEF TypeOK, Generation, GenStatus
  <1>2. ASSUME NEW h \in Gens
        PROVE  e(h) \in Generation /\ (e(h) = gens[h] \/ e(h).status = "failed")
    <2>1. gens[h] \in Generation
      BY <1>1 DEF Gens
    <2>. QED  BY <2>1 DEF Generation, GenStatus
  <1>3. gens' = Append(rows, new)
    BY DEF BeginGeneration
  <1>4. /\ rows \in Seq(Generation) /\ Len(rows) = Len(gens)
        /\ \A h \in Gens : rows[h] = gens[h] \/ rows[h].status = "failed"
    <2>1. CASE full
      <3>1. rows = [h \in 1..Len(gens) |-> e(h)]
        BY <2>1 DEF Gens
      <3>2. \A h \in 1..Len(gens) : e(h) \in Generation /\ (e(h) = gens[h] \/ e(h).status = "failed")
        BY <1>2 DEF Gens
      <3>. HIDE DEF e, rows
      <3>. QED  BY <1>1, <3>1, <3>2 DEF Gens
    <2>2. CASE ~full
      BY <1>1, <2>2
    <2>. QED  BY <2>1, <2>2
  <1>. HIDE DEF rows, new
  <1>. QED  BY <1>1, <1>3, <1>4 DEF Gens

\* A new revision: the rows keep what they say, but for an accepted one that is
\* superseded by an accepted one.
LEMMA Created ==
    ASSUME plans \in Seq(Plan), NEW new \in Plan, plans' = CreateValidationPlanRevision(new)
    PROVE  /\ plans' \in Seq(Plan) /\ Len(plans') = Len(plans) + 1
           /\ plans'[Len(plans) + 1] = new
           /\ \A q \in Plans : /\ plans'[q].gen = plans[q].gen
                               /\ plans'[q].source = plans[q].source
                               /\ plans'[q].items = plans[q].items
                               /\ plans'[q].status = "accepted" => plans[q].status = "accepted"
                               /\ new.status = "accepted" => plans'[q].status # "accepted"
  <1>. DEFINE e(q) == IF plans[q].status = "accepted"
                      THEN [plans[q] EXCEPT !.status = "superseded"] ELSE plans[q]
              old == IF new.status = "accepted" THEN [q \in Plans |-> e(q)] ELSE plans
  <1>1. plans' = Append(old, new) /\ Len(plans) \in Nat
    BY DEF CreateValidationPlanRevision
  <1>2. ASSUME NEW q \in Plans
        PROVE  /\ e(q) \in Plan /\ e(q).gen = plans[q].gen /\ e(q).source = plans[q].source
               /\ e(q).items = plans[q].items /\ e(q).status # "accepted"
    <2>1. plans[q] \in Plan
      BY DEF Plans
    <2>. QED  BY <2>1 DEF Plan
  <1>3. /\ old \in Seq(Plan) /\ Len(old) = Len(plans)
        /\ \A q \in Plans : /\ old[q].gen = plans[q].gen /\ old[q].source = plans[q].source
                            /\ old[q].items = plans[q].items
                            /\ old[q].status = "accepted" => plans[q].status = "accepted"
                            /\ new.status = "accepted" => old[q].status # "accepted"
    <2>1. CASE new.status = "accepted"
      <3>1. old = [q \in 1..Len(plans) |-> e(q)]
        BY <2>1 DEF Plans
      <3>2. \A q \in 1..Len(plans) :
               /\ e(q) \in Plan /\ e(q).gen = plans[q].gen /\ e(q).source = plans[q].source
               /\ e(q).items = plans[q].items /\ e(q).status # "accepted"
        BY <1>2 DEF Plans
      <3>. HIDE DEF e, old
      <3>. QED  BY <1>1, <3>1, <3>2 DEF Plans
    <2>2. CASE new.status # "accepted"
      BY <2>2
    <2>. QED  BY <2>1, <2>2
  <1>. HIDE DEF old
  <1>. QED  BY <1>1, <1>3 DEF Plans

----------------------------------------------------------------------------
(* Coverage *)

\* A link of the item says what coverage says, unless there is none.
LEMMA CoverageIsEvidence ==
    ASSUME TypeOK, NEW q, NEW i, NEW status \in coverageForItem(q, i)
    PROVE  /\ status \in EvidenceStatus
           /\ status = "passed" => \E l \in links : l.plan = q /\ l.item = i /\ l.status = "passed"
  <1>. DEFINE found == {l.status : l \in {m \in links : m.plan = q /\ m.item = i}}
              telling == found \ {"not_run", "unavailable"}
  <1>1. found \subseteq EvidenceStatus
    BY DEF TypeOK, Link
  <1>2. status \in found \/ status = "not_run"
    <2>1. CASE "failed" \in found
      BY <2>1 DEF coverageForItem
    <2>2. CASE "failed" \notin found /\ telling # {}
      BY <2>2 DEF coverageForItem
    <2>3. CASE telling = {} /\ found # {}
      BY <2>3 DEF coverageForItem
    <2>4. CASE found = {}
      BY <2>4 DEF coverageForItem
    <2>. QED  BY <2>1, <2>2, <2>3, <2>4
  <1>. QED  BY <1>1, <1>2 DEF EvidenceStatus

\* A claim is "supported" only on coverage "passed".
LEMMA ClaimIsCoverage ==
    ASSUME NEW status \in EvidenceStatus, NEW match \in BOOLEAN
    PROVE  /\ ClaimOf(status, match) \in Claims
           /\ ClaimOf(status, match) = "supported" => status = "passed"
  BY DEF EvidenceStatus, Claims, ClaimOf

----------------------------------------------------------------------------
(* Types *)

\* What concerns the graph, the plans with their evidence, and the clients.
GraphType ==
    /\ tree \in Trees /\ edits \in 0..MaxEdits
    /\ gens \in Seq(Generation) /\ builder \in Seq({"extracting", "revalidated", "over"})
    /\ Len(builder) = Len(gens) /\ Len(gens) <= MaxGens
PlanType ==
    /\ plans \in Seq(Plan) /\ Len(plans) <= MaxPlans
    /\ steps \in [Steps -> Outcomes \cup {"none"}]
    /\ links \subseteq Link
    /\ claims \in [1..MaxPlans -> [Items -> Claims]]
    /\ reports \in [1..MaxPlans -> [frozen : BOOLEAN, verified : SUBSET Items,
                                    canComplete : BOOLEAN]]
ClientType ==
    /\ done \in BOOLEAN
    /\ published \in [plan : Nat, gen : Nat]
    /\ job \in [Clients -> Job]

\* The types of the graph, of the plans and of the clients.
LEMMA TypeParts ==
    /\ TypeOK <=> GraphType /\ PlanType /\ ClientType
    /\ TypeOK' <=> GraphType' /\ PlanType' /\ ClientType'
  BY DEF TypeOK, GraphType, PlanType, ClientType

\* A step that leaves a part leaves its type.
LEMMA TypeFrame ==
    /\ GraphType /\ UNCHANGED graphVars => GraphType'
    /\ PlanType /\ UNCHANGED planVars => PlanType'
    /\ ClientType /\ UNCHANGED <<done, published, job>> => ClientType'
  BY DEF GraphType, PlanType, ClientType, graphVars, planVars

\* The graph's own steps.
LEMMA GraphStep ==
    ASSUME TypeOK, \/ MarkStale \/ Edit \/ \E full \in BOOLEAN : BeginGeneration(full)
                   \/ \E g \in Gens : Revalidate(g) \/ Publish(g)
    PROVE  GraphType' /\ UNCHANGED <<planVars, done, published, job>>
  <1>0. UNCHANGED <<planVars, done, published, job>>
    BY DEF MarkStale, Edit, BeginGeneration, Revalidate, Publish
  <1>t. GraphType
    BY TypeParts
  <1>1. CASE MarkStale
    <2>1. PICK g \in Gens : gens' = [gens EXCEPT ![g].status = "stale"]
      BY <1>1 DEF MarkStale
    <2>2. gens' \in Seq(Generation) /\ Len(gens') = Len(gens)
      BY <1>t, <2>1, Restatus DEF GraphType, GenStatus
    <2>. QED  BY <1>0, <1>1, <1>t, <2>2 DEF MarkStale, GraphType
  <1>2. CASE Edit
    BY <1>0, <1>2, <1>t DEF Edit, GraphType
  <1>3. ASSUME NEW full \in BOOLEAN, BeginGeneration(full) PROVE GraphType'
    <2>1. gens' \in Seq(Generation) /\ Len(gens') = Len(gens) + 1
      BY <1>3, Begun
    <2>2. /\ builder' = Append(builder, "extracting") /\ Len(gens) < MaxGens
          /\ UNCHANGED <<tree, edits>>
      BY <1>3 DEF BeginGeneration
    <2>. QED  BY <1>t, <2>1, <2>2 DEF GraphType
  <1>4. ASSUME NEW g \in Gens, Revalidate(g) \/ Publish(g) PROVE GraphType'
    <2>1. gens' \in Seq(Generation) /\ Len(gens') = Len(gens)
      <3>1. CASE UNCHANGED gens
        BY <1>t, <3>1 DEF GraphType
      <3>2. CASE \E s \in {"failed", "inconsistent"} : gens' = FailGeneration(g, s)
        BY <1>t, <3>2, Failed DEF GraphType
      <3>3. CASE gens' = [gens EXCEPT ![g].status = "partial"]
        BY <1>t, <3>3, Restatus DEF GraphType, GenStatus
      <3>4. CASE gens' = PromoteGeneration(g)
        BY <1>t, <3>4, Promoted DEF GraphType
      <3>5. CASE Revalidate(g)
        BY <3>1, <3>2, <3>5 DEF Revalidate
      <3>6. CASE Publish(g)
        BY <3>1, <3>2, <3>3, <3>4, <3>6 DEF Publish
      <3>. QED  BY <1>4, <3>5, <3>6
    <2>2. builder' \in Seq({"extracting", "revalidated", "over"}) /\ Len(builder') = Len(builder)
      <3>1. PICK b \in {"revalidated", "over"} : builder' = [builder EXCEPT ![g] = b]
        BY <1>4 DEF Revalidate, Publish
      <3>. QED  BY <1>t, <3>1 DEF GraphType, Gens
    <2>. QED  BY <1>4, <1>t, <2>1, <2>2 DEF Revalidate, Publish, GraphType
  <1>. QED  BY <1>0, <1>1, <1>2, <1>3, <1>4

\* A client starts with a job, and ends it.
LEMMA JobStarts ==
    ASSUME job \in [Clients -> Job], NEW c \in Clients, NEW j \in Job,
           NEW kind \in {"accept", "cover", "done", "publish"}, Start(c, kind, j)
    PROVE  /\ job' \in [Clients -> Job]
           /\ job'[c].kind = kind /\ job'[c].plan = j.plan
           /\ \A d \in Clients : d # c => job'[d] = job[d]
  <1>1. job' = [job EXCEPT ![c] = [j EXCEPT !.kind = kind]]
    BY DEF Start
  <1>2. /\ [j EXCEPT !.kind = kind] \in Job
        /\ [j EXCEPT !.kind = kind].kind = kind /\ [j EXCEPT !.kind = kind].plan = j.plan
    BY DEF Job
  <1>. QED  BY <1>1, <1>2

\* A client that is done with its job.
LEMMA JobEnds ==
    ASSUME job \in [Clients -> Job], NEW c \in Clients, EndJob(c)
    PROVE  /\ job' \in [Clients -> Job]
           /\ job'[c].kind = "none"
           /\ \A d \in Clients : d # c => job'[d] = job[d]
  <1>1. NoJob \in Job /\ NoJob.kind = "none"
    BY DEF NoJob, Job
  <1>. HIDE DEF NoJob
  <1>. QED  BY <1>1 DEF EndJob

\* A job is for a plan.
LEMMA JobFor ==
    ASSUME NEW n \in Nat
    PROVE  [NoJob EXCEPT !.plan = n] \in Job /\ [NoJob EXCEPT !.plan = n].plan = n
  BY DEF NoJob, Job

\* The revisions that are created.
LEMMA ProposeStep ==
    ASSUME TypeOK, Propose
    PROVE  \E new \in Plan : /\ plans' = CreateValidationPlanRevision(new)
                             /\ new.status = "proposed" /\ new.source = 0
  <1>1. PICK g \in Gens : plans' = CreateValidationPlanRevision(
                              [status |-> "proposed", gen |-> g, source |-> 0,
                               items |-> [i \in Items |-> "suggested"]])
    BY DEF Propose
  <1>. DEFINE new == [status |-> "proposed", gen |-> g, source |-> 0,
                      items |-> [i \in Items |-> "suggested"]]
  <1>2. new \in Plan /\ new.status = "proposed" /\ new.source = 0
    BY DEF Plan, Gens
  <1>. QED  BY <1>1, <1>2

\* An accepted revision comes from a proposal that none has come from.
LEMMA AcceptStep ==
    ASSUME TypeOK, Pointed, NEW c \in Clients, Accept(c)
    PROVE  \E new \in Plan : /\ plans' = CreateValidationPlanRevision(new)
                             /\ new.status = "accepted" /\ ~Consumed(new.source)
  <1>1. PICK items \in Decisions : plans' = CreateValidationPlanRevision(
                              [status |-> "accepted", gen |-> plans[job[c].plan].gen,
                               source |-> job[c].plan, items |-> items])
    BY DEF Accept
  <1>. DEFINE new == [status |-> "accepted", gen |-> plans[job[c].plan].gen,
                      source |-> job[c].plan, items |-> items]
  <1>2. job[c].plan \in Plans /\ ~Consumed(job[c].plan)
    BY DEF Accept, Pointed
  <1>3. plans[job[c].plan] \in Plan /\ job[c].plan \in Nat
    BY <1>2 DEF TypeOK, Plans
  <1>4. items \in [Items -> {"suggested", "required", "optional", "rejected"}]
    BY DEF Decisions
  <1>5. new \in Plan /\ new.status = "accepted" /\ new.source = job[c].plan
    BY <1>3, <1>4 DEF Plan
  <1>. QED  BY <1>1, <1>2, <1>5

\* A new revision.
LEMMA CreateType ==
    ASSUME PlanType, Len(plans) < MaxPlans, NEW new \in Plan,
           plans' = CreateValidationPlanRevision(new), UNCHANGED <<steps, links, claims, reports>>
    PROVE  PlanType' /\ Plans \subseteq Plans'
  <1>1. plans' \in Seq(Plan) /\ Len(plans') = Len(plans) + 1
    BY Created DEF PlanType
  <1>. QED  BY <1>1 DEF PlanType, Plans

\* Evidence and claims.
LEMMA EvidenceType ==
    ASSUME TypeOK, \/ \E s \in Steps : RegisterStep(s)
                   \/ \E q \in Plans, i \in Items, s \in Steps : LinkValidationEvidence(q, i, s)
    PROVE  PlanType' /\ UNCHANGED <<plans, graphVars, done, published, job>>
  <1>t. PlanType
    BY TypeParts
  <1>1. ASSUME NEW s \in Steps, RegisterStep(s) PROVE PlanType'
    <2>1. PICK o \in Outcomes : steps' = [steps EXCEPT ![s] = o]
      BY <1>1 DEF RegisterStep
    <2>. QED  BY <1>1, <1>t, <2>1 DEF RegisterStep, PlanType
  <1>2. ASSUME NEW q \in Plans, NEW i \in Items, NEW s \in Steps, LinkValidationEvidence(q, i, s)
        PROVE  PlanType'
    <2>1. PICK e \in EvidenceStatus :
              links' = {l \in links : <<l.plan, l.item, l.step>> # <<q, i, s>>}
                       \union {[plan |-> q, item |-> i, step |-> s, status |-> e]}
      BY <1>2 DEF LinkValidationEvidence
    <2>2. [plan |-> q, item |-> i, step |-> s, status |-> e] \in Link
      BY <1>t DEF Link, Plans, PlanType
    <2>3. links' \subseteq Link
      BY <1>t, <2>1, <2>2 DEF PlanType
    <2>. QED  BY <1>2, <1>t, <2>3 DEF LinkValidationEvidence, PlanType
  <1>. QED  BY <1>1, <1>2 DEF RegisterStep, LinkValidationEvidence

\* Coverage writes the claim of one item after the other.
LEMMA CoverType ==
    ASSUME TypeOK, NEW c \in Clients, Cover(c)
    PROVE  /\ PlanType' /\ job' \in [Clients -> Job] /\ UNCHANGED plans
           /\ job'[c].kind \in {"none", "cover"}
           /\ \A d \in Clients : d # c => job'[d] = job[d]
  <1>. DEFINE q == job[c].plan
  <1>t. PlanType /\ job \in [Clients -> Job] /\ job[c] \in Job /\ job[c].match \in BOOLEAN
    BY TypeParts DEF ClientType, Job
  <1>0. PICK i \in job[c].todo : \E status \in coverageForItem(q, i) :
          /\ claims' = [claims EXCEPT ![q][i] = ClaimOf(status, job[c].match)]
          /\ job' = [job EXCEPT ![c] = IF job[c].todo = {i} THEN NoJob
                                       ELSE [job[c] EXCEPT !.todo = job[c].todo \ {i}]]
    BY DEF Cover
  <1>1. PICK status \in coverageForItem(q, i) :
          /\ claims' = [claims EXCEPT ![q][i] = ClaimOf(status, job[c].match)]
          /\ job' = [job EXCEPT ![c] = IF job[c].todo = {i} THEN NoJob
                                       ELSE [job[c] EXCEPT !.todo = job[c].todo \ {i}]]
    BY <1>0
  <1>2. ClaimOf(status, job[c].match) \in Claims
    BY <1>t, CoverageIsEvidence, ClaimIsCoverage
  <1>3. claims' \in [1..MaxPlans -> [Items -> Claims]]
    BY <1>1, <1>2, <1>t DEF PlanType
  <1>4. /\ [job[c] EXCEPT !.todo = job[c].todo \ {i}] \in Job
        /\ [job[c] EXCEPT !.todo = job[c].todo \ {i}].kind = "cover"
        /\ NoJob \in Job /\ NoJob.kind = "none"
    BY <1>t DEF Job, NoJob, Cover, Doing
  <1>. HIDE DEF NoJob
  <1>5. /\ job' \in [Clients -> Job] /\ job'[c].kind \in {"none", "cover"}
        /\ \A d \in Clients : d # c => job'[d] = job[d]
    <2>1. CASE job[c].todo = {i}
      <3>1. job' = [job EXCEPT ![c] = NoJob]
        BY <1>1, <2>1
      <3>. QED  BY <1>4, <1>t, <3>1
    <2>2. CASE job[c].todo # {i}
      <3>1. job' = [job EXCEPT ![c] = [job[c] EXCEPT !.todo = job[c].todo \ {i}]]
        BY <1>1, <2>2
      <3>. QED  BY <1>4, <1>t, <3>1
    <2>. QED  BY <2>1, <2>2
  <1>. QED  BY <1>3, <1>5, <1>t DEF Cover, PlanType

\* Finalize freezes the report of a plan.
LEMMA FinalizeType ==
    ASSUME TypeOK, NEW q \in Plans, Finalize(q)
    PROVE  PlanType' /\ UNCHANGED <<plans, graphVars, done, published, job>>
  <1>t. PlanType
    BY TypeParts
  <1>1. PICK claim \in Coverages(q) :
          /\ claims' = [claims EXCEPT ![q] = [i \in Items |-> IF i \in ItemsOf(q) THEN claim[i]
                                                              ELSE claims[q][i]]]
          /\ reports' = [reports EXCEPT ![q] =
                [frozen |-> TRUE,
                 verified |-> {i \in ItemsOf(q) : claim[i] = "supported"},
                 canComplete |-> \A i \in ItemsOf(q) : plans[q].items[i] = "required" => claim[i] = "supported"]]
    BY DEF Finalize, Freeze
  <1>2. \A i \in ItemsOf(q) : claim[i] \in Claims
    BY DEF Coverages, Claims
  <1>3. q \in 1..MaxPlans /\ ItemsOf(q) \subseteq Items
    BY <1>t DEF PlanType, Plans, ItemsOf
  <1>4. claims' \in [1..MaxPlans -> [Items -> Claims]]
    BY <1>1, <1>2, <1>3, <1>t DEF PlanType
  <1>5. reports' \in [1..MaxPlans -> [frozen : BOOLEAN, verified : SUBSET Items,
                                      canComplete : BOOLEAN]]
    BY <1>1, <1>3, <1>t DEF PlanType
  <1>. QED  BY <1>4, <1>5, <1>t DEF Finalize, Freeze, PlanType

\* A request that only starts or ends its job.
ClientStep(c) ==
    \/ GiveUp(c) \/ AskAccept(c) \/ AskCover(c) \/ AskDone(c) \/ Done(c)

\* A client takes a job or drops it.
LEMMA ClientKeeps ==
    ASSUME TypeOK, Pointed, NEW c \in Clients, ClientStep(c)
    PROVE  ClientType' /\ Pointed' /\ UNCHANGED <<graphVars, planVars>>
  <1>0. UNCHANGED <<graphVars, planVars, published>> /\ done' \in BOOLEAN
    BY DEF ClientStep, GiveUp, AskAccept, AskCover, AskDone, Done, TypeOK
  <1>t. job \in [Clients -> Job] /\ published \in [plan : Nat, gen : Nat] /\ UNCHANGED plans
    BY <1>0 DEF TypeOK, planVars
  <1>1. CASE EndJob(c)
    BY <1>0, <1>1, <1>t, JobEnds DEF ClientType, Pointed, Doing, Plans
  <1>2. ASSUME NEW j \in Job, NEW kind \in {"accept", "cover", "done", "publish"}, Start(c, kind, j),
               kind = "accept" => j.plan \in Plans
        PROVE  ClientType' /\ Pointed'
    <2>1. /\ job' \in [Clients -> Job]
          /\ job'[c].kind = kind /\ job'[c].plan = j.plan
          /\ \A d \in Clients : d # c => job'[d] = job[d]
      BY <1>2, <1>t, JobStarts
    <2>. QED  BY <1>0, <1>2, <1>t, <2>1 DEF ClientType, Pointed, Doing, Plans
  <1>3. CASE AskAccept(c)
    <2>1. PICK q \in Plans : Start(c, "accept", [NoJob EXCEPT !.plan = q])
      BY <1>3 DEF AskAccept
    <2>2. q \in Nat
      BY DEF Plans, TypeOK
    <2>. QED  BY <1>0, <1>2, <2>1, <2>2, JobFor
  <1>4. CASE AskCover(c)
    <2>1. PICK q \in Accepted :
             Start(c, "cover", [NoJob EXCEPT !.plan = q, !.match = currentStateMatches(q), !.todo = ItemsOf(q)])
      BY <1>4 DEF AskCover
    <2>2. q \in Nat /\ currentStateMatches(q) \in BOOLEAN /\ ItemsOf(q) \subseteq Items
      BY DEF Accepted, Plans, TypeOK, currentStateMatches, ItemsOf
    <2>3. [NoJob EXCEPT !.plan = q, !.match = currentStateMatches(q), !.todo = ItemsOf(q)] \in Job
      BY <2>2 DEF NoJob, Job
    <2>. QED  BY <1>0, <1>2, <2>1, <2>3
  <1>5. CASE AskDone(c)
    <2>1. CASE Start(c, "done", NoJob)
      BY <1>0, <1>2, <2>1 DEF NoJob, Job
    <2>2. CASE \E q \in Accepted : Start(c, "done", [NoJob EXCEPT !.plan = q])
      <3>1. PICK q \in Accepted : Start(c, "done", [NoJob EXCEPT !.plan = q])
        BY <2>2
      <3>2. q \in Nat
        BY DEF Accepted, Plans, TypeOK
      <3>. QED  BY <1>0, <1>2, <3>1, <3>2, JobFor
    <2>. QED  BY <1>5, <2>1, <2>2 DEF AskDone
  <1>. QED  BY <1>0, <1>1, <1>3, <1>4, <1>5 DEF ClientStep, GiveUp, Done

\* Every step keeps the types, and jobs about plans that exist.
LEMMA NextType == TypeOK /\ Pointed /\ [Next]_vars => TypeOK' /\ Pointed'
  <1>. SUFFICES ASSUME TypeOK, Pointed, [Next]_vars PROVE TypeOK' /\ Pointed'
    OBVIOUS
  <1>t. GraphType /\ PlanType /\ ClientType
    BY TypeParts
  <1>f. ASSUME UNCHANGED <<plans, job>> PROVE Pointed'
    BY <1>f DEF Pointed, Doing, Plans
  <1>1. CASE \/ MarkStale \/ Edit \/ \E full \in BOOLEAN : BeginGeneration(full)
             \/ \E g \in Gens : Revalidate(g) \/ Publish(g)
    <2>1. GraphType' /\ UNCHANGED <<planVars, done, published, job>>
      BY <1>1, GraphStep
    <2>2. PlanType' /\ ClientType'
      BY <1>t, <2>1, TypeFrame
    <2>. QED  BY <1>f, <2>1, <2>2, TypeParts DEF planVars
  <1>2. CASE Propose
    <2>1. /\ UNCHANGED <<graphVars, steps, links, claims, reports, done, published, job>>
          /\ Len(plans) < MaxPlans
      BY <1>2 DEF Propose
    <2>2. PlanType' /\ Plans \subseteq Plans'
      BY <1>2, <1>t, <2>1, ProposeStep, CreateType
    <2>3. GraphType' /\ ClientType'
      BY <1>t, <2>1, TypeFrame
    <2>. QED  BY <2>1, <2>2, <2>3, TypeParts DEF Pointed, Doing
  <1>3. ASSUME NEW c \in Clients, Accept(c) PROVE TypeOK' /\ Pointed'
    <2>1. /\ UNCHANGED <<graphVars, steps, links, claims, reports, done, published>>
          /\ Len(plans) < MaxPlans /\ EndJob(c)
      BY <1>3 DEF Accept
    <2>2. PlanType' /\ Plans \subseteq Plans'
      BY <1>3, <1>t, <2>1, AcceptStep, CreateType
    <2>3. /\ job' \in [Clients -> Job] /\ job'[c].kind = "none"
          /\ \A d \in Clients : d # c => job'[d] = job[d]
      BY <1>t, <2>1, JobEnds DEF ClientType
    <2>4. GraphType' /\ ClientType'
      BY <1>t, <2>1, <2>3, TypeFrame DEF ClientType
    <2>. QED  BY <2>2, <2>3, <2>4, TypeParts DEF Pointed, Doing
  <1>4. ASSUME NEW c \in Clients, ClientStep(c) PROVE TypeOK' /\ Pointed'
    BY <1>4, <1>t, ClientKeeps, TypeFrame, TypeParts
  <1>5. ASSUME NEW c \in Clients, Cover(c) PROVE TypeOK' /\ Pointed'
    <2>1. /\ PlanType' /\ job' \in [Clients -> Job] /\ UNCHANGED plans
          /\ job'[c].kind \in {"none", "cover"}
          /\ \A d \in Clients : d # c => job'[d] = job[d]
      BY <1>5, CoverType
    <2>2. UNCHANGED <<graphVars, done, published>>
      BY <1>5 DEF Cover
    <2>3. GraphType' /\ ClientType'
      BY <1>t, <2>1, <2>2, TypeFrame DEF ClientType
    <2>. QED  BY <2>1, <2>3, TypeParts DEF Pointed, Doing, Plans
  <1>6. CASE \/ \E s \in Steps : RegisterStep(s)
             \/ \E q \in Plans, i \in Items, s \in Steps : LinkValidationEvidence(q, i, s)
             \/ \E q \in Plans : Finalize(q)
    <2>1. PlanType' /\ UNCHANGED <<plans, graphVars, done, published, job>>
      BY <1>6, EvidenceType, FinalizeType
    <2>2. GraphType' /\ ClientType'
      BY <1>t, <2>1, TypeFrame
    <2>. QED  BY <1>f, <2>1, <2>2, TypeParts
  <1>7. CASE UNCHANGED vars
    BY <1>f, <1>t, <1>7, TypeFrame, TypeParts DEF vars, planVars
  <1>. QED  BY <1>1, <1>2, <1>3, <1>4, <1>5, <1>6, <1>7 DEF Next, ClientStep

\* There is no generation, no plan and no job.
LEMMA InitType == Init => TypeOK /\ Pointed
  <1>. SUFFICES ASSUME Init PROVE TypeOK /\ Pointed
    OBVIOUS
  <1>1. GraphType
    BY DEF Init, GraphType
  <1>2. PlanType
    BY DEF Init, PlanType, NoReport, Claims
  <1>3. NoJob \in Job /\ NoJob.kind = "none"
    BY DEF NoJob, Job
  <1>. HIDE DEF NoJob
  <1>4. ClientType /\ Pointed
    BY <1>3 DEF Init, ClientType, Pointed, Doing
  <1>. QED  BY <1>1, <1>2, <1>4, TypeParts

\* Every reachable row, build and request has its type, and who is about to
\* accept a proposal holds one.
THEOREM TypeCorrect == Spec => [](TypeOK /\ Pointed)
  BY InitType, NextType, PTL DEF Spec

----------------------------------------------------------------------------
(* The graph *)

\* A generation that becomes current was being built.
LEMMA OnlyBuildsBecomeCurrent ==
    ASSUME TypeOK, [Next]_vars, NEW g \in Gens, gens'[g].status = "current"
    PROVE  gens[g].status \in {"building", "current"}
  <1>t. gens \in Seq(Generation)
    BY DEF TypeOK
  <1>1. CASE MarkStale
    <2>1. PICK h \in Gens : gens' = [gens EXCEPT ![h].status = "stale"]
      BY <1>1 DEF MarkStale
    <2>. QED  BY <1>t, <2>1, Restatus DEF GenStatus
  <1>2. ASSUME NEW full \in BOOLEAN, BeginGeneration(full)
        PROVE  gens[g].status \in {"building", "current"}
    BY <1>2, Begun
  <1>3. ASSUME NEW h \in Gens, Revalidate(h) PROVE gens[g].status \in {"building", "current"}
    <2>1. CASE UNCHANGED gens
      BY <2>1
    <2>2. CASE \E s \in {"failed", "inconsistent"} : gens' = FailGeneration(h, s)
      BY <1>t, <2>2, Failed
    <2>. QED  BY <1>3, <2>1, <2>2 DEF Revalidate
  <1>4. ASSUME NEW h \in Gens, Publish(h) PROVE gens[g].status \in {"building", "current"}
    <2>1. CASE UNCHANGED gens
      BY <2>1
    <2>2. CASE gens[h].status = "building" /\ gens' = PromoteGeneration(h)
      BY <1>t, <2>2, Promoted
    <2>3. CASE gens' = [gens EXCEPT ![h].status = "partial"]
      BY <1>t, <2>3, Restatus DEF GenStatus
    <2>4. CASE gens' = FailGeneration(h, "failed")
      BY <1>t, <2>4, Failed
    <2>. QED  BY <1>4, <2>1, <2>2, <2>3, <2>4 DEF Publish
  <1>5. CASE UNCHANGED gens
    BY <1>5
  <1>. QED
    BY <1>1, <1>2, <1>3, <1>4, <1>5
    DEF Next, Edit, Propose, GiveUp, AskAccept, Accept, AskCover, Cover, AskDone, Done,
        RegisterStep, LinkValidationEvidence, Finalize, Freeze, graphVars, vars

\* A generation becomes current only while it is building: what a scan gave up,
\* or what went stale or was superseded, is never published.
THEOREM OnlyBuildsArePublished == Spec => SweptNeverPublished
  <1>1. TypeOK /\ [Next]_vars =>
          [\A g \in Gens : gens'[g].status = "current" => gens[g].status \in {"building", "current"}]_vars
    BY OnlyBuildsBecomeCurrent
  <1>. QED  BY <1>1, TypeCorrect, PTL DEF Spec, SweptNeverPublished

----------------------------------------------------------------------------
(* Plans *)

\* Only Propose and Accept change the revisions.
LEMMA PlansChange ==
    ASSUME TypeOK, Pointed, [Next]_vars
    PROVE  \/ UNCHANGED plans
           \/ \E new \in Plan : /\ plans' = CreateValidationPlanRevision(new)
                                /\ \/ new.status = "proposed" /\ new.source = 0
                                   \/ new.status = "accepted" /\ ~Consumed(new.source)
  <1>1. CASE Propose
    BY <1>1, ProposeStep
  <1>2. ASSUME NEW c \in Clients, Accept(c)
        PROVE  \E new \in Plan : /\ plans' = CreateValidationPlanRevision(new)
                                 /\ new.status = "accepted" /\ ~Consumed(new.source)
    BY <1>2, AcceptStep
  <1>3. CASE UNCHANGED plans
    BY <1>3
  <1>. QED
    BY <1>1, <1>2, <1>3
    DEF Next, MarkStale, Edit, BeginGeneration, Revalidate, Publish, GiveUp, AskAccept, AskCover,
        Cover, AskDone, Done, RegisterStep, LinkValidationEvidence, Finalize, Freeze, planVars, vars

\* Every step keeps Unique.
LEMMA UniqueStep == TypeOK /\ Pointed /\ Unique /\ [Next]_vars => Unique'
  <1>. SUFFICES ASSUME TypeOK, Pointed, Unique, [Next]_vars PROVE Unique'
    OBVIOUS
  <1>1. CASE UNCHANGED plans
    BY <1>1 DEF Unique, Plans
  <1>2. ASSUME NEW new \in Plan, plans' = CreateValidationPlanRevision(new),
               \/ new.status = "proposed" /\ new.source = 0
               \/ new.status = "accepted" /\ ~Consumed(new.source)
        PROVE  Unique'
    <2>1. /\ Len(plans') = Len(plans) + 1 /\ Len(plans) \in Nat
          /\ plans'[Len(plans) + 1] = new
          /\ \A q \in Plans : /\ plans'[q].source = plans[q].source
                              /\ plans'[q].status = "accepted" => plans[q].status = "accepted"
                              /\ new.status = "accepted" => plans'[q].status # "accepted"
      BY <1>2, Created DEF TypeOK
    <2>2. \A q \in Plans' : q \in Plans \/ q = Len(plans) + 1
      BY <2>1 DEF Plans
    <2>3. \A q, r \in Plans' : plans'[q].status = "accepted" /\ plans'[r].status = "accepted" => q = r
      BY <1>2, <2>1, <2>2 DEF Unique
    <2>4. \A q \in Plans : new.source # 0 => plans[q].source # new.source
      BY <1>2 DEF Consumed
    <2>5. \A q, r \in Plans' : plans'[q].source = plans'[r].source /\ plans'[q].source # 0 => q = r
      BY <2>1, <2>2, <2>4 DEF Unique
    <2>. QED  BY <2>3, <2>5 DEF Unique
  <1>. QED  BY <1>1, <1>2, PlansChange

\* One accepted plan at a time, and every proposal consumed once, for any number
\* of clients that accept at once.
THEOREM OneAcceptedPlan == Spec => []OneAuthority
  <1>1. Init => Unique
    BY DEF Init, Unique, Plans
  <1>2. TypeOK /\ Unique => OneAuthority
    <2>. SUFFICES ASSUME TypeOK, Unique PROVE OneAuthority
      OBVIOUS
    <2>1. Cardinality(Accepted) <= 1
      <3>1. CASE Accepted = {}
        BY <3>1, FS_EmptySet
      <3>2. ASSUME NEW q \in Accepted PROVE Cardinality(Accepted) <= 1
        <4>1. Accepted = {q}
          BY <3>2 DEF Accepted, Unique
        <4>. QED  BY <4>1, FS_Singleton
      <3>. QED  BY <3>1, <3>2
    <2>. QED  BY <2>1 DEF Unique, OneAuthority
  <1>. QED  BY <1>1, <1>2, UniqueStep, TypeCorrect, PTL DEF Spec

----------------------------------------------------------------------------
(* Completion *)

\* Steps and links change by RegisterStep and LinkValidationEvidence only.
LEMMA EvidenceChange ==
    ASSUME [Next]_vars
    PROVE  \/ UNCHANGED <<steps, links>>
           \/ \E s \in Steps : RegisterStep(s)
           \/ \E q \in Plans, i \in Items, s \in Steps : LinkValidationEvidence(q, i, s)
  BY DEF Next, MarkStale, Edit, BeginGeneration, Revalidate, Publish, Propose, GiveUp, AskAccept,
         Accept, AskCover, Cover, AskDone, Done, Finalize, Freeze, planVars, vars

\* A completed step is evidence of nothing but success.
LEMMA LinkedStep ==
    ASSUME TypeOK, NEW q \in Plans, NEW i \in Items, NEW s \in Steps, LinkValidationEvidence(q, i, s)
    PROVE  \E e \in EvidenceStatus :
              /\ e = "passed" <=> steps[s] = "completed"
              /\ links' = {l \in links : <<l.plan, l.item, l.step>> # <<q, i, s>>}
                          \union {[plan |-> q, item |-> i, step |-> s, status |-> e]}
  <1>1. PICK e \in EvidenceStatus :
          /\ EvidenceStatusMatchesRunStep(e, steps[s])
          /\ links' = {l \in links : <<l.plan, l.item, l.step>> # <<q, i, s>>}
                      \union {[plan |-> q, item |-> i, step |-> s, status |-> e]}
    BY DEF LinkValidationEvidence
  <1>2. e = "passed" <=> steps[s] = "completed"
    BY <1>1 DEF EvidenceStatusMatchesRunStep
  <1>. QED  BY <1>1, <1>2

\* Passed evidence is never taken back.
LEMMA PassedStays ==
    ASSUME TypeOK, [Next]_vars, NEW p, NEW j, HasPassed(p, j) PROVE HasPassed(p, j)'
  <1>1. PICK l \in links : l.plan = p /\ l.item = j /\ l.status = "passed" /\ steps[l.step] = "completed"
    BY DEF HasPassed
  <1>2. l.step \in Steps
    BY DEF TypeOK, Link
  <1>3. CASE UNCHANGED <<steps, links>>
    BY <1>1, <1>3 DEF HasPassed
  <1>4. ASSUME NEW s \in Steps, RegisterStep(s) PROVE HasPassed(p, j)'
    <2>1. links' = links /\ steps[s] = "none" /\ \E o \in Outcomes : steps' = [steps EXCEPT ![s] = o]
      BY <1>4 DEF RegisterStep
    <2>2. steps'[l.step] = "completed"
      BY <1>1, <1>2, <2>1 DEF TypeOK
    <2>. QED  BY <1>1, <2>1, <2>2 DEF HasPassed
  <1>5. ASSUME NEW q \in Plans, NEW i \in Items, NEW s \in Steps, LinkValidationEvidence(q, i, s)
        PROVE  HasPassed(p, j)'
    <2>1. PICK e \in EvidenceStatus :
              /\ e = "passed" <=> steps[s] = "completed"
              /\ links' = {m \in links : <<m.plan, m.item, m.step>> # <<q, i, s>>}
                          \union {[plan |-> q, item |-> i, step |-> s, status |-> e]}
      BY <1>5, LinkedStep
    <2>2. UNCHANGED steps
      BY <1>5 DEF LinkValidationEvidence
    <2>3. CASE <<l.plan, l.item, l.step>> # <<q, i, s>>
      BY <1>1, <2>1, <2>2, <2>3 DEF HasPassed
    <2>4. CASE <<l.plan, l.item, l.step>> = <<q, i, s>>
      <3>1. q = p /\ i = j /\ e = "passed" /\ steps[s] = "completed"
        BY <1>1, <2>1, <2>4
      <3>2. [plan |-> q, item |-> i, step |-> s, status |-> e] \in links'
        BY <2>1
      <3>. QED  BY <2>2, <3>1, <3>2 DEF HasPassed
    <2>. QED  BY <2>3, <2>4
  <1>. QED  BY <1>3, <1>4, <1>5, EvidenceChange

\* The links that say "passed" stay right.
LEMMA LinksStep ==
    ASSUME TypeOK, LinksHonest, [Next]_vars PROVE LinksHonest'
  <1>1. CASE UNCHANGED <<steps, links>>
    BY <1>1 DEF LinksHonest
  <1>2. ASSUME NEW s \in Steps, RegisterStep(s) PROVE LinksHonest'
    <2>1. links' = links /\ steps[s] = "none" /\ \E o \in Outcomes : steps' = [steps EXCEPT ![s] = o]
      BY <1>2 DEF RegisterStep
    <2>2. \A l \in links : l.step \in Steps
      BY DEF TypeOK, Link
    <2>. QED  BY <2>1, <2>2 DEF LinksHonest, TypeOK
  <1>3. ASSUME NEW q \in Plans, NEW i \in Items, NEW s \in Steps, LinkValidationEvidence(q, i, s)
        PROVE  LinksHonest'
    <2>1. PICK e \in EvidenceStatus :
              /\ e = "passed" <=> steps[s] = "completed"
              /\ links' = {m \in links : <<m.plan, m.item, m.step>> # <<q, i, s>>}
                          \union {[plan |-> q, item |-> i, step |-> s, status |-> e]}
      BY <1>3, LinkedStep
    <2>2. UNCHANGED steps
      BY <1>3 DEF LinkValidationEvidence
    <2>. QED  BY <2>1, <2>2 DEF LinksHonest
  <1>. QED  BY <1>1, <1>2, <1>3, EvidenceChange

\* Coverage "passed" is passed evidence.
LEMMA CoveredIsPassed ==
    ASSUME TypeOK, LinksHonest, NEW q, NEW i, "passed" \in coverageForItem(q, i)
    PROVE  HasPassed(q, i)
  BY CoverageIsEvidence DEF LinksHonest, HasPassed

\* The claims stay right.
LEMMA ClaimsStep ==
    ASSUME TypeOK, LinksHonest, ClaimsHonest, [Next]_vars PROVE ClaimsHonest'
  <1>. SUFFICES ASSUME NEW p \in 1..MaxPlans, NEW j \in Items, claims'[p][j] = "supported"
                PROVE  HasPassed(p, j)
    BY PassedStays DEF ClaimsHonest
  <1>0. claims \in [1..MaxPlans -> [Items -> Claims]]
    BY DEF TypeOK
  <1>1. CASE UNCHANGED claims
    BY <1>1 DEF ClaimsHonest
  <1>2. ASSUME NEW c \in Clients, Cover(c) PROVE HasPassed(p, j)
    <2>. DEFINE q == job[c].plan
    <2>1. PICK i \in job[c].todo : \E status \in coverageForItem(q, i) :
             claims' = [claims EXCEPT ![q][i] = ClaimOf(status, job[c].match)]
      BY <1>2 DEF Cover
    <2>2. PICK status \in coverageForItem(q, i) :
             claims' = [claims EXCEPT ![q][i] = ClaimOf(status, job[c].match)]
      BY <2>1
    <2>3. status \in EvidenceStatus /\ job[c].match \in BOOLEAN
      BY <2>2, CoverageIsEvidence DEF TypeOK, Job
    <2>4. ClaimOf(status, job[c].match) = "supported" => HasPassed(q, i)
      BY <2>3, ClaimIsCoverage, CoveredIsPassed
    <2>5. CASE p = q /\ j = i
      <3>1. claims'[p][j] = ClaimOf(status, job[c].match)
        BY <1>0, <2>2, <2>5
      <3>. QED  BY <2>4, <2>5, <3>1
    <2>6. CASE ~(p = q /\ j = i)
      <3>1. claims'[p][j] = claims[p][j]
        BY <1>0, <2>2, <2>6
      <3>. QED  BY <3>1 DEF ClaimsHonest
    <2>. QED  BY <2>5, <2>6
  <1>3. ASSUME NEW q \in Plans, Finalize(q) PROVE HasPassed(p, j)
    <2>1. PICK claim \in Coverages(q) :
             claims' = [claims EXCEPT ![q] = [i \in Items |-> IF i \in ItemsOf(q) THEN claim[i]
                                                              ELSE claims[q][i]]]
      BY <1>3 DEF Finalize, Freeze
    <2>2. CASE p = q /\ j \in ItemsOf(q)
      <3>1. claim[j] = "supported"
        BY <1>0, <2>1, <2>2
      <3>2. PICK status \in coverageForItem(q, j) : claim[j] = ClaimOf(status, TRUE)
        BY <2>2 DEF Coverages
      <3>3. status = "passed"
        BY <3>1, <3>2, CoverageIsEvidence, ClaimIsCoverage
      <3>. QED  BY <2>2, <3>2, <3>3, CoveredIsPassed
    <2>3. CASE ~(p = q /\ j \in ItemsOf(q))
      <3>1. claims'[p][j] = claims[p][j]
        BY <1>0, <2>1, <2>3
      <3>. QED  BY <3>1 DEF ClaimsHonest
    <2>. QED  BY <2>2, <2>3
  <1>. QED
    BY <1>1, <1>2, <1>3
    DEF Next, MarkStale, Edit, BeginGeneration, Revalidate, Publish, Propose, GiveUp, AskAccept,
        Accept, AskCover, AskDone, Done, RegisterStep, LinkValidationEvidence, planVars, vars

\* A request that holds an answer of the ledger has just asked for it, or held
\* it before.
LEMMA AnswersChange ==
    ASSUME TypeOK, [Next]_vars, NEW c \in Clients, job'[c].kind = "done", job'[c].plan # 0
    PROVE  \/ job'[c] = job[c]
           \/ /\ UNCHANGED <<plans, steps, links>>
              /\ job'[c].plan \in Accepted /\ CanCompleteTask(job'[c].plan)
  <1>t. job \in [Clients -> Job]
    BY DEF TypeOK
  <1>1. CASE UNCHANGED job
    BY <1>1
  <1>2. ASSUME NEW d \in Clients, EndJob(d) PROVE job'[c] = job[c]
    BY <1>2, <1>t, JobEnds
  <1>3. ASSUME NEW d \in Clients, Cover(d) PROVE job'[c] = job[c]
    BY <1>3, CoverType
  <1>4. ASSUME NEW d \in Clients, AskAccept(d) PROVE job'[c] = job[c]
    <2>1. PICK q \in Plans : Start(d, "accept", [NoJob EXCEPT !.plan = q])
      BY <1>4 DEF AskAccept
    <2>2. q \in Nat
      BY DEF Plans, TypeOK
    <2>. QED  BY <1>t, <2>1, <2>2, JobFor, JobStarts
  <1>5. ASSUME NEW d \in Clients, AskCover(d) PROVE job'[c] = job[c]
    <2>1. PICK j : Start(d, "cover", j)
      BY <1>5 DEF AskCover
    <2>2. job' = [job EXCEPT ![d] = [j EXCEPT !.kind = "cover"]]
      BY <2>1 DEF Start
    <2>3. CASE c = d
      <3>1. PICK q \in Accepted :
               Start(d, "cover", [NoJob EXCEPT !.plan = q, !.match = currentStateMatches(q), !.todo = ItemsOf(q)])
        BY <1>5 DEF AskCover
      <3>2. q \in Nat /\ currentStateMatches(q) \in BOOLEAN /\ ItemsOf(q) \subseteq Items
        BY DEF Accepted, Plans, TypeOK, currentStateMatches, ItemsOf
      <3>3. [NoJob EXCEPT !.plan = q, !.match = currentStateMatches(q), !.todo = ItemsOf(q)] \in Job
        BY <3>2 DEF NoJob, Job
      <3>4. job'[d].kind = "cover"
        BY <1>t, <3>1, <3>3, JobStarts
      <3>. QED  BY <2>3, <3>4
    <2>4. CASE c # d
      BY <1>t, <2>2, <2>4
    <2>. QED  BY <2>3, <2>4
  <1>6. ASSUME NEW d \in Clients, AskDone(d), job'[c] # job[c]
        PROVE  /\ UNCHANGED <<plans, steps, links>>
               /\ job'[c].plan \in Accepted /\ CanCompleteTask(job'[c].plan)
    <2>1. UNCHANGED <<plans, steps, links>>
      BY <1>6 DEF AskDone, planVars
    <2>2. CASE Start(d, "done", NoJob)
      <3>1. NoJob \in Job /\ NoJob.plan = 0
        BY DEF NoJob, Job
      <3>. QED  BY <1>6, <1>t, <2>2, <3>1, JobStarts
    <2>3. ASSUME NEW q \in Accepted, CanCompleteTask(q), Start(d, "done", [NoJob EXCEPT !.plan = q])
          PROVE  job'[c].plan \in Accepted /\ CanCompleteTask(job'[c].plan)
      <3>1. q \in Nat
        BY DEF Accepted, Plans, TypeOK
      <3>2. [NoJob EXCEPT !.plan = q] \in Job /\ [NoJob EXCEPT !.plan = q].plan = q
        BY <3>1, JobFor
      <3>3. job'[d].plan = q /\ (c # d => job'[c] = job[c])
        BY <1>t, <2>3, <3>2, JobStarts
      <3>. QED  BY <1>6, <2>3, <3>3
    <2>. QED  BY <1>6, <2>1, <2>2, <2>3 DEF AskDone
  <1>. QED
    BY <1>1, <1>2, <1>3, <1>4, <1>5, <1>6
    DEF Next, MarkStale, Edit, BeginGeneration, Revalidate, Publish, Propose, GiveUp, Accept, Done,
        RegisterStep, LinkValidationEvidence, Finalize, Freeze, planVars, vars

\* Every step keeps Honest.
LEMMA HonestStep == TypeOK /\ Pointed /\ Honest /\ [Next]_vars => Honest'
  <1>. SUFFICES ASSUME TypeOK, Pointed, Honest, [Next]_vars PROVE Honest'
    OBVIOUS
  <1>1. LinksHonest' /\ ClaimsHonest'
    BY LinksStep, ClaimsStep DEF Honest
  <1>2. ASSUME NEW c \in Clients PROVE AnswerHonest(c)'
    <2>. SUFFICES ASSUME NEW p, job'[c].kind = "done", job'[c].plan = p, p # 0
                  PROVE  /\ p \in Plans'
                         /\ \A i \in Items : plans'[p].items[i] = "required" => HasPassed(p, i)'
      BY DEF AnswerHonest, Doing, HasPassed
    <2>1. CASE job'[c] = job[c]
      <3>1. /\ p \in Plans
            /\ \A i \in Items : plans[p].items[i] = "required" => HasPassed(p, i)
        BY <2>1 DEF Honest, AnswerHonest, Doing
      <3>2. Plans \subseteq Plans' /\ \A q \in Plans : plans'[q].items = plans[q].items
        <4>1. CASE UNCHANGED plans
          BY <4>1 DEF Plans
        <4>2. ASSUME NEW new \in Plan, plans' = CreateValidationPlanRevision(new)
              PROVE  Plans \subseteq Plans' /\ \A q \in Plans : plans'[q].items = plans[q].items
          <5>1. /\ Len(plans') = Len(plans) + 1 /\ Len(plans) \in Nat
                /\ \A q \in Plans : plans'[q].items = plans[q].items
            BY <4>2, Created DEF TypeOK
          <5>. QED  BY <5>1 DEF Plans
        <4>. QED  BY <4>1, <4>2, PlansChange
      <3>3. ASSUME NEW i \in Items, plans'[p].items[i] = "required" PROVE HasPassed(p, i)'
        <4>1. HasPassed(p, i)
          BY <3>1, <3>2, <3>3
        <4>. QED  BY <4>1, PassedStays
      <3>. QED  BY <3>1, <3>2, <3>3
    <2>2. CASE UNCHANGED <<plans, steps, links>> /\ p \in Accepted /\ CanCompleteTask(p)
      <3>1. p \in Plans /\ p \in 1..MaxPlans
        BY <2>2 DEF Accepted, Plans, TypeOK
      <3>2. \A i \in Items : plans[p].items[i] = "required" => claims[p][i] = "supported"
        BY <2>2 DEF CanCompleteTask
      <3>3. \A i \in Items : plans[p].items[i] = "required" => HasPassed(p, i)
        BY <3>1, <3>2 DEF Honest, ClaimsHonest
      <3>. QED  BY <2>2, <3>1, <3>3 DEF Plans, HasPassed
    <2>. QED  BY <2>1, <2>2, AnswersChange
  <1>. QED  BY <1>1, <1>2 DEF Honest

\* A task that is completed under a plan has passed evidence for every required
\* item, however the checks, the claims and the completion interleave.
THEOREM CompletionIsBacked == Spec => DoneIsBacked
  <1>1. Init => Honest
    BY DEF Init, Honest, LinksHonest, ClaimsHonest, AnswerHonest, Doing, NoJob
  <1>2. Honest =>
          [\A c \in Clients : Doing(c, "done") /\ job[c].plan # 0 /\ done' # done /\ job'[c] = NoJob
              => \A i \in Items : plans[job[c].plan].items[i] = "required"
                                  => HasPassed(job[c].plan, i)]_vars
    BY DEF Honest, AnswerHonest
  <1>. QED  BY <1>1, <1>2, HonestStep, TypeCorrect, PTL DEF Spec, DoneIsBacked
==============================================================================
