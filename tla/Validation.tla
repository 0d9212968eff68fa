----------------------------- MODULE Validation -----------------------------
(***************************************************************************)
(* The repository graph, and the validation plans, evidence and completion *)
(* that rest on it (internal/knowledge, pkg/db/state/verification.go, the  *)
(* handlers and commands around them, and the ledger's CanCompleteTask).   *)
(*                                                                         *)
(* A generation of the graph is built from the files of the worktree,      *)
(* revalidated and promoted; reads pass a gate that compares it with the   *)
(* files.  A plan is bound to the tree of a generation; an accepted plan   *)
(* says which items are required; a run step that ended is linked to an    *)
(* item as evidence; coverage turns links into claims, and the first       *)
(* report of a plan is frozen.  A task with an accepted plan is completed  *)
(* on the claims.                                                          *)
(*                                                                         *)
(* One task in one worktree.  The server and command-line processes share  *)
(* the database; graphMu orders the builds of one process only, so builds  *)
(* overlap.  A client is a request or a command: its transactions are one  *)
(* step, and it stops between two of its steps.  A process that dies takes *)
(* no more steps, which every action allows.                               *)
(***************************************************************************)
EXTENDS Naturals, Sequences, FiniteSets

CONSTANTS
    Trees,      \* what the worktree may contain
    Clients,    \* the requests and commands under way at a time
    Items,      \* what a proposal suggests to validate
    Requirements, \* what an accepted item may be
    Steps,      \* the run steps an external run registers
    Outcomes,   \* the terminal statuses of those steps
    MaxGens,    \* bound: generations ever begun
    MaxEdits,   \* bound: edits of the worktree
    MaxProposals, \* bound: proposals ever stored
    MaxPlans    \* bound: plan revisions ever created, accepted ones included

ASSUME ValidationAssumption ==
    /\ MaxGens \in Nat /\ MaxEdits \in Nat /\ MaxProposals \in Nat /\ MaxPlans \in Nat
    /\ Requirements \subseteq {"required", "optional"}
    /\ Outcomes \subseteq {"completed", "failed", "inconclusive", "unavailable"}

VARIABLES
    tree,      \* what the worktree contains
    edits,     \* how often it was edited
    gens,      \* the rows of graph_generations, in the order of created_at
    builder,   \* where the process that builds each generation is
    plans,     \* the rows of validation_plan_revisions, by revision
    steps,     \* what each run step ended with
    links,     \* the rows of validation_evidence_links
    claims,    \* the rows of completion_claims: of an item of a plan
    reports,   \* the frozen reports, by plan
    done,      \* whether the task's row says done
    published, \* the plan and the generation of the context published last
    job        \* what each client is about to do

graphVars == <<tree, edits, gens, builder>>
planVars == <<plans, steps, links, claims, reports>>
vars == <<graphVars, planVars, done, published, job>>

Gens == 1..Len(gens)
Plans == 1..Len(plans)
Accepted == {q \in Plans : plans[q].status = "accepted"}
ItemsOf(q) == {i \in Items : plans[q].items[i] \in {"required", "optional"}}
TreeOf(q) == gens[plans[q].gen].tree

NoJob == [kind |-> "none", plan |-> 0, match |-> FALSE, todo |-> {}]
NoReport == [frozen |-> FALSE, verified |-> {}, canComplete |-> FALSE]

Init ==
    /\ tree \in Trees /\ edits = 0
    /\ gens = <<>> /\ builder = <<>>
    /\ plans = <<>>
    /\ steps = [s \in Steps |-> "none"]
    /\ links = {}
    /\ claims = [q \in 1..MaxPlans |-> [i \in Items |-> "none"]]
    /\ reports = [q \in 1..MaxPlans |-> NoReport]
    /\ done = FALSE
    /\ published = [plan |-> 0, gen |-> 0]
    /\ job = [c \in Clients |-> NoJob]

----------------------------------------------------------------------------
(* The graph *)

\* The order of activeGeneration: current, then partial, then the newest.
Rank(status) == CASE status = "current" -> 2 [] status = "partial" -> 1 [] OTHER -> 0

\* Generation g answers for the worktree.
activeGeneration(g) ==
    /\ g \in Gens
    /\ \A h \in Gens : \/ Rank(gens[h].status) < Rank(gens[g].status)
                       \/ Rank(gens[h].status) = Rank(gens[g].status) /\ h <= g

\* What freshGeneration returns: the active generation, promoted, and found
\* equal to the files.  (A drifted one is marked stale and rebuilt, MarkStale
\* and the builds below, and the read looks again.  It then does not ask for
\* the status: a build of another process may answer.  Who binds a plan to the
\* answer asks for a current generation in the transaction.)
Fresh(g) ==
    /\ activeGeneration(g)
    /\ gens[g].status \in {"current", "partial"}
    /\ gens[g].tree = tree

\* A read finds that the current generation has drifted from the files.
MarkStale ==
    /\ \E g \in Gens :
          /\ gens[g].status = "current" /\ gens[g].tree # tree
          /\ gens' = [gens EXCEPT ![g].status = "stale"]
    /\ UNCHANGED <<tree, edits, builder, planVars, done, published, job>>

\* refreshRepository builds on the active generation: it is complete and the
\* files have changed.  (On any other one it scans all.)
Refreshable ==
    \E g \in Gens : /\ activeGeneration(g) /\ gens[g].tree # tree
                    /\ gens[g].status \in {"current", "stale", "superseded"}

\* A build starts: a full scan first gives up every build it finds, whoever
\* runs it; an incremental one does not.  An edit between
\* the manifest and the row is one after the row: Revalidate sees both.
BeginGeneration(full) ==
    LET rows == IF full THEN [g \in Gens |-> IF gens[g].status = "building"
                                             THEN [gens[g] EXCEPT !.status = "failed"] ELSE gens[g]]
                ELSE gens IN
    /\ Len(gens) < MaxGens
    /\ full \/ Refreshable
    /\ gens' = Append(rows, [tree |-> tree, status |-> "building"])
    /\ builder' = Append(builder, "extracting")
    /\ UNCHANGED <<tree, edits, planVars, done, published, job>>

\* FailGeneration changes only a generation that is still building.
FailGeneration(g, status) ==
    IF gens[g].status = "building" THEN [gens EXCEPT ![g].status = status] ELSE gens

\* The files are extracted and stored and the manifest is taken again: it has
\* changed, or an error ends the build, or the generation may be published.
Revalidate(g) ==
    /\ builder[g] = "extracting"
    /\ \/ /\ tree = gens[g].tree
          /\ builder' = [builder EXCEPT ![g] = "revalidated"] /\ UNCHANGED gens
       \/ /\ builder' = [builder EXCEPT ![g] = "over"]
          /\ gens' = FailGeneration(g, IF tree # gens[g].tree THEN "inconsistent" ELSE "failed")
    /\ UNCHANGED <<tree, edits, planVars, done, published, job>>

\* Promotion supersedes the current generation in the same transaction.
PromoteGeneration(g) ==
    [h \in Gens |-> CASE h = g -> [gens[h] EXCEPT !.status = "current"]
                      [] h # g /\ gens[h].status = "current" -> [gens[h] EXCEPT !.status = "superseded"]
                      [] OTHER -> gens[h]]

\* Mutant: promotion does not ask whether the generation is still building.
PublishUnchecked(g) ==
    /\ builder[g] = "revalidated"
    /\ builder' = [builder EXCEPT ![g] = "over"]
    /\ gens' = PromoteGeneration(g)
    /\ UNCHANGED <<tree, edits, planVars, done, published, job>>

\* A complete extraction is promoted and an incomplete one is partial, unless
\* the generation is no longer building or the statement fails.
Publish(g) ==
    /\ builder[g] = "revalidated"
    /\ builder' = [builder EXCEPT ![g] = "over"]
    /\ IF gens[g].status = "building"
       THEN gens' \in {PromoteGeneration(g), [gens EXCEPT ![g].status = "partial"],
                       FailGeneration(g, "failed")}
       ELSE UNCHANGED gens
    /\ UNCHANGED <<tree, edits, planVars, done, published, job>>

\* Somebody works in the worktree.
Edit ==
    /\ edits < MaxEdits
    /\ edits' = edits + 1
    /\ tree' \in Trees \ {tree}
    /\ UNCHANGED <<gens, builder, planVars, done, published, job>>

----------------------------------------------------------------------------
(* Clients *)

Doing(c, kind) == job[c].kind = kind
Start(c, kind, j) == Doing(c, "none") /\ job' = [job EXCEPT ![c] = [j EXCEPT !.kind = kind]]
EndJob(c) == job' = [job EXCEPT ![c] = NoJob]

\* A client gives up, is cancelled or dies between two of its steps.
GiveUp(c) ==
    /\ ~Doing(c, "none")
    /\ EndJob(c)
    /\ UNCHANGED <<graphVars, planVars, done, published>>

----------------------------------------------------------------------------
(* Plans *)

\* Mutant: the accepted plan of the task stays accepted.
CreateBeside(new) == Append(plans, new)

\* The rows after one more revision; an accepted one supersedes the accepted
\* plan of the task in the same transaction.
CreateValidationPlanRevision(new) ==
    LET old == IF new.status = "accepted"
               THEN [q \in Plans |-> IF plans[q].status = "accepted"
                                     THEN [plans[q] EXCEPT !.status = "superseded"] ELSE plans[q]]
               ELSE plans
    IN  Append(old, new)

\* A revision was already made from proposal q, whatever became of it.
Consumed(q) == \E r \in Plans : plans[r].source = q

Proposals == {q \in Plans : plans[q].source = 0}

\* A proposal: the impact of a change is analysed on a fresh generation that is
\* current, and stored against it.
Propose ==
    /\ Len(plans) < MaxPlans /\ Cardinality(Proposals) < MaxProposals
    /\ \E g \in Gens :
          /\ Fresh(g) /\ gens[g].status = "current"
          /\ plans' = CreateValidationPlanRevision([status |-> "proposed", gen |-> g, source |-> 0,
                                                    items |-> [i \in Items |-> "suggested"]])
    /\ UNCHANGED <<graphVars, steps, links, claims, reports, done, published, job>>

\* The retry of a consumed proposal returns what it made; otherwise the fresh
\* generation must be the one the proposal is bound to.
AskAccept(c) ==
    /\ \E q \in Plans : ~Consumed(q) /\ Fresh(plans[q].gen) /\ Start(c, "accept", [NoJob EXCEPT !.plan = q])
    /\ UNCHANGED <<graphVars, planVars, done, published>>

\* The decisions a caller may send; suggestions it does not name are rejected.
Decisions == [Items -> Requirements \union {"rejected"}]

\* AcceptValidationPlanRevision makes a revision of a proposal that nobody
\* consumed meanwhile, while its generation is current in the transaction.
Accept(c) ==
    LET q == job[c].plan IN
    /\ Doing(c, "accept") /\ Len(plans) < MaxPlans
    /\ plans[q].status = "proposed" /\ ~Consumed(q)
    /\ gens[plans[q].gen].status = "current"
    /\ \E items \in Decisions :
          plans' = CreateValidationPlanRevision([status |-> "accepted", gen |-> plans[q].gen,
                                                 source |-> q, items |-> items])
    /\ EndJob(c)
    /\ UNCHANGED <<graphVars, steps, links, claims, reports, done, published>>

----------------------------------------------------------------------------
(* Evidence *)

\* The evidence a terminal run step may be.
EvidenceStatusMatchesRunStep(evidence, step) ==
    <<evidence, step>> \in {<<"passed", "completed">>, <<"failed", "failed">>,
                            <<"inconclusive", "inconclusive">>,
                            <<"not_run", "unavailable">>, <<"unavailable", "unavailable">>}

EvidenceStatus == {"passed", "failed", "inconclusive", "not_run", "unavailable"}

\* A step is registered once: another status under its id is refused.
RegisterStep(s) ==
    /\ steps[s] = "none"
    /\ steps' \in {[steps EXCEPT ![s] = o] : o \in Outcomes}
    /\ UNCHANGED <<graphVars, plans, links, claims, reports, done, published, job>>

\* LinkValidationEvidence: an accepted item of an accepted plan, and a status
\* that the step supports; a link of the same item and step is replaced.  (The
\* rows it checks do not change, but for a plan that is superseded meanwhile:
\* nobody reads the links of one.)
LinkValidationEvidence(q, i, s) ==
    LET rest == {l \in links : <<l.plan, l.item, l.step>> # <<q, i, s>>} IN
    /\ q \in Accepted /\ i \in ItemsOf(q)
    /\ \E e \in EvidenceStatus :
          /\ EvidenceStatusMatchesRunStep(e, steps[s])
          /\ links' = rest \union {[plan |-> q, item |-> i, step |-> s, status |-> e]}
    /\ UNCHANGED <<graphVars, plans, steps, claims, reports, done, published, job>>

\* coverageForItem walks the links from the newest: a failed one decides, else
\* the first that is neither not_run nor unavailable does.  created_at counts
\* seconds, so links may come in either order.
coverageForItem(q, i) ==
    LET found == {l.status : l \in {m \in links : m.plan = q /\ m.item = i}}
        telling == found \ {"not_run", "unavailable"} IN
    CASE "failed" \in found -> {"failed"}
      [] "failed" \notin found /\ telling # {} -> telling
      [] telling = {} /\ found # {} -> found
      [] found = {} -> {"not_run"}

\* Mutant: whatever did not fail counts as supported.
ClaimUnlessFailed(status, match) ==
    CASE ~match -> "unavailable"
      [] match /\ status = "failed" -> "unsupported"
      [] OTHER -> "supported"

\* The claim a coverage status becomes; of another tree nothing can be said.
ClaimOf(status, match) ==
    CASE ~match -> "unavailable"
      [] match /\ status = "passed" -> "supported"
      [] match /\ status = "failed" -> "unsupported"
      [] OTHER -> status

\* Whether the current generation describes the tree of plan q.
currentStateMatches(q) == \E g \in Gens : gens[g].status = "current" /\ gens[g].tree = TreeOf(q)

\* A request for the repository context asks for the coverage of a plan, in no
\* transaction: the state is compared first ...
AskCover(c) ==
    /\ \E q \in Accepted :
          Start(c, "cover", [NoJob EXCEPT !.plan = q, !.match = currentStateMatches(q), !.todo = ItemsOf(q)])
    /\ UNCHANGED <<graphVars, planVars, done, published>>

\* ... and then the claim of one item after the other is written.
Cover(c) ==
    LET q == job[c].plan IN
    /\ Doing(c, "cover")
    /\ \E i \in job[c].todo : \E status \in coverageForItem(q, i) :
          /\ claims' = [claims EXCEPT ![q][i] = ClaimOf(status, job[c].match)]
          /\ job' = [job EXCEPT ![c] = IF job[c].todo = {i} THEN NoJob
                                       ELSE [job[c] EXCEPT !.todo = job[c].todo \ {i}]]
    /\ UNCHANGED <<graphVars, plans, steps, links, reports, done, published>>

\* What coverage may say of the items of plan q on the current state.
Coverages(q) ==
    {claim \in [ItemsOf(q) -> {"supported", "unsupported", "inconclusive", "not_run", "unavailable"}] :
        \A i \in ItemsOf(q) : \E status \in coverageForItem(q, i) : claim[i] = ClaimOf(status, TRUE)}

\* The claims and the report that coverage makes of plan q.
Freeze(q) ==
    /\ \E claim \in Coverages(q) :
          /\ claims' = [claims EXCEPT ![q] = [i \in Items |-> IF i \in ItemsOf(q) THEN claim[i] ELSE @[i]]]
          /\ reports' = [reports EXCEPT ![q] =
                [frozen |-> TRUE,
                 verified |-> {i \in ItemsOf(q) : claim[i] = "supported"},
                 canComplete |-> \A i \in ItemsOf(q) : plans[q].items[i] = "required" => claim[i] = "supported"]]
    /\ UNCHANGED <<graphVars, plans, steps, links, done, published, job>>

\* FinalizeEvidenceCoverage, one transaction: the first report of an accepted
\* plan on the current state, with some evidence unless nothing was accepted.
Finalize(q) ==
    /\ q \in Accepted /\ ~reports[q].frozen
    /\ currentStateMatches(q)
    /\ ItemsOf(q) # {} => \E l \in links : l.plan = q
    /\ Freeze(q)

----------------------------------------------------------------------------
(* Completion and publication *)

\* CanCompleteTask: the plan's own generation is current, and each required
\* item has a supported claim.
CanCompleteTask(q) ==
    /\ gens[plans[q].gen].status = "current"
    /\ \A i \in Items : plans[q].items[i] = "required" => claims[q][i] = "supported"

\* UpdateTask asks the ledger first; a task without an accepted plan may be done ...
AskDone(c) ==
    /\ ~done
    /\ \/ Accepted = {} /\ Start(c, "done", NoJob)
       \/ \E q \in Accepted : CanCompleteTask(q) /\ Start(c, "done", [NoJob EXCEPT !.plan = q])
    /\ UNCHANGED <<graphVars, planVars, done, published>>

\* ... and writes the row.
Done(c) ==
    /\ Doing(c, "done")
    /\ done' = TRUE
    /\ EndJob(c)
    /\ UNCHANGED <<graphVars, planVars, published>>

\* The command `publish` reads the fresh state and takes the frozen report of a
\* plan that is bound to it ...
AskPublish(c) ==
    /\ \E q \in Plans : /\ Fresh(plans[q].gen) /\ reports[q].frozen
                        /\ Start(c, "publish", [NoJob EXCEPT !.plan = q])
    /\ UNCHANGED <<graphVars, planVars, done, published>>

\* ... then BuildRepositoryContext passes the gate again, and the report goes
\* out with the generation found there.
PublishContext(c) ==
    /\ Doing(c, "publish")
    /\ \E g \in Gens : Fresh(g) /\ published' = [plan |-> job[c].plan, gen |-> g]
    /\ EndJob(c)
    /\ UNCHANGED <<graphVars, planVars, done>>

----------------------------------------------------------------------------

Next ==
    \/ MarkStale \/ Edit \/ Propose
    \/ \E full \in BOOLEAN : BeginGeneration(full)
    \/ \E g \in Gens : Revalidate(g) \/ Publish(g)
    \/ \E c \in Clients :
          \/ GiveUp(c) \/ AskAccept(c) \/ Accept(c)
          \/ AskCover(c) \/ Cover(c) \/ AskDone(c) \/ Done(c)
    \/ \E s \in Steps : RegisterStep(s)
    \/ \E q \in Plans, i \in Items, s \in Steps : LinkValidationEvidence(q, i, s)
    \/ \E q \in Plans : Finalize(q)

Spec == Init /\ [][Next]_vars

\* With the command that publishes what nobody reads back.
PublishingSpec == Init /\ [][Next \/ \E c \in Clients : AskPublish(c) \/ PublishContext(c)]_vars

----------------------------------------------------------------------------
(* Properties *)

GenStatus == {"building", "current", "partial", "stale", "superseded", "failed", "inconsistent"}
Generation == [tree : Trees, status : GenStatus]
Plan == [status : {"proposed", "accepted", "superseded"}, gen : Nat, source : Nat,
         items : [Items -> {"suggested", "required", "optional", "rejected"}]]
Link == [plan : Nat, item : Items, step : Steps, status : EvidenceStatus]
Claims == {"none", "supported", "unsupported", "inconclusive", "not_run", "unavailable"}
Job == [kind : {"none", "accept", "cover", "done", "publish"}, plan : Nat, match : BOOLEAN,
        todo : SUBSET Items]

\* Every variable holds a value of its type.
TypeOK ==
    /\ tree \in Trees /\ edits \in 0..MaxEdits
    /\ gens \in Seq(Generation) /\ builder \in Seq({"extracting", "revalidated", "over"})
    /\ Len(builder) = Len(gens) /\ Len(gens) <= MaxGens
    /\ plans \in Seq(Plan) /\ Len(plans) <= MaxPlans
    /\ steps \in [Steps -> Outcomes \cup {"none"}]
    /\ links \subseteq Link
    /\ claims \in [1..MaxPlans -> [Items -> Claims]]
    /\ reports \in [1..MaxPlans -> [frozen : BOOLEAN, verified : SUBSET Items,
                                    canComplete : BOOLEAN]]
    /\ done \in BOOLEAN
    /\ published \in [plan : Nat, gen : Nat]
    /\ job \in [Clients -> Job]

\* A build that was given up is never published: a scan that another process
\* swept while it was still running cannot promote its generation later, nor
\* does a stale, partial or superseded generation come back.
SweptNeverPublished ==
    [][\A g \in Gens : gens'[g].status = "current" => gens[g].status \in {"building", "current"}]_vars

\* Two tabs, retries and two processes accept plans of the task: it has one
\* accepted plan at a time, and a proposal is consumed once.
OneAuthority ==
    /\ Cardinality(Accepted) <= 1
    /\ \A q, r \in Plans : plans[q].source = plans[r].source /\ plans[q].source # 0 => q = r

\* An item has passed evidence: a run step that completed is linked to it.
HasPassed(q, i) ==
    \E l \in links : l.plan = q /\ l.item = i /\ l.status = "passed" /\ steps[l.step] = "completed"

\* A task that is completed under a plan has evidence for each item the plan
\* requires, although the check reads claims that other requests write, and
\* its answer is used after the plan or the graph may have moved.
DoneIsBacked ==
    [][\A c \in Clients : Doing(c, "done") /\ job[c].plan # 0 /\ done' # done /\ job'[c] = NoJob
          => \A i \in Items : plans[job[c].plan].items[i] = "required" => HasPassed(job[c].plan, i)]_vars

----------------------------------------------------------------------------
(* Statements of the repository that the code does not keep *)

\* "A stale plan is refused; its green result is never paired with a newer
\* repository snapshot" (docs/REPOSITORY_POINTER_GRAPH_PLAN.md).
NeverPairedWithNewer ==
    published.plan # 0 => gens[published.gen].tree = TreeOf(published.plan)

\* "Freezes the first evidence-coverage report only while repository state is
\* current" (docs/API_REFERENCE.md).
FrozenWhileCurrent ==
    [][\A q \in Plans : ~reports[q].frozen /\ reports'[q].frozen => TreeOf(q) = tree]_vars
=============================================================================
