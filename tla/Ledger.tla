------------------------------- MODULE Ledger -------------------------------
(***************************************************************************)
(* Release managers (internal/release) over one SQLite ledger.             *)
(*                                                                         *)
(* The daemon, the MCP backlog tools and every command line call own a     *)
(* Manager: a cache of the release, the stories and the tasks, filled by   *)
(* Load.  Most operations change the cache and then write ALL of it back,  *)
(* row by row and without a transaction (saveUnlocked); only a task-local  *)
(* update writes its one row.  A manager's mutex makes its own operations  *)
(* exclusive, so only the single statements of different managers, and     *)
(* crashes between two statements, interleave.                             *)
(*                                                                         *)
(* The release, a story and a task are rows of one shape: list holds the   *)
(* stories of the release or the tasks of a story, story the story of a    *)
(* task.  Goals (rows without a status) and texts are left out; a task     *)
(* closed with its fix is in TaskQueue.                                    *)
(***************************************************************************)
EXTENDS Naturals, FiniteSets

CONSTANTS
    Managers,         \* the managers of all processes
    Stories, Tasks,
    Release,          \* the row 'current' of releases
    NoStory,
    Home,             \* Home[t]: the story a new task is filed under
    JsonTasks,        \* tasks of the JSON files that an empty ledger is filled from
    PlanTasks,        \* tasks of a reviewed plan
    NeedsReview,      \* tasks with needs_review
    ApprovalEnabled,  \* config approval_enabled
    AutoMerge,        \* auto_merge_stories and auto_merge_to_main
    MaxOps,           \* bound: operations of all managers
    MaxFaults         \* bound: failed statements and crashes

ASSUME LedgerAssumption ==
    /\ Home \in [Tasks -> Stories] /\ Tasks # {}
    /\ JsonTasks \subseteq Tasks /\ PlanTasks \subseteq Tasks
    /\ Release \notin Stories \cup Tasks /\ Stories \cap Tasks = {}
    /\ NoStory \notin Stories
    /\ ApprovalEnabled \in BOOLEAN /\ AutoMerge \in BOOLEAN
    /\ MaxOps \in Nat /\ MaxFaults \in Nat

VARIABLES
    db,      \* the rows
    mgr,     \* the managers
    merged,  \* stories merged into the release branch by git
    shipped, \* the release branch is merged into the base branch
    receipt, \* run_steps holds the receipt of the reviewed plan
    people,  \* history: what a person approved
    gone,    \* history: what a manager has deleted and not filed again
    ops, faults

repo == <<merged, shipped>>
history == <<people, gone>>
vars == <<db, mgr, merged, shipped, receipt, people, gone, ops, faults>>

----------------------------------------------------------------------------
(* Rows *)

Keys == {Release} \cup Stories \cup Tasks
Status == {"absent", "draft", "pending", "in_progress", "needs_review",
           "approved", "done", "conflict", "deployed"}
Row == [status : Status, approval : {"pending", "approved", "rejected"},
        list : SUBSET (Stories \cup Tasks), story : Stories \cup {NoStory}]

Absent == [status |-> "absent", approval |-> "pending", list |-> {}, story |-> NoStory]
Nothing == [k \in Keys |-> Absent]
Has(c, k) == c[k].status # "absent"
StoryRow(list) == [Absent EXCEPT !.status = "pending", !.list = list]
TaskRow(s) == [Absent EXCEPT !.status = "pending", !.story = s]

\* Rows a save writes before k's: the release, then stories, then tasks.
Before(k) == CASE k = Release -> {} [] k \in Stories -> {Release}
               [] OTHER -> {Release} \cup Stories

\* Statements of the SQLite store: an insert keeps a row that is there.
Insert(d, k, row) == IF Has(d, k) THEN d ELSE [d EXCEPT ![k] = row]
Overwrite(d, k, row) == [d EXCEPT ![k] = row]
InsertAll(d, K, rows) == [k \in Keys |-> IF k \in K /\ ~Has(d, k) THEN rows[k] ELSE d[k]]
\* The cache c after the rows K were queried.
Query(d, c, K) == [k \in Keys |-> IF k \in K THEN d[k] ELSE c[k]]
\* SQLite's foreign key of tasks on stories.
ForeignKey(d, k, row) == k \in Tasks => Has(d, row.story)

Delivered(c, t) == c[t].status \in {"done", "approved"}

StoryComplete(c, s) ==
    Has(c, s) /\ c[s].list # {} /\ \A t \in c[s].list : Delivered(c, t)

ReleaseComplete(c) ==
    /\ Has(c, Release) /\ c[Release].list # {}
    /\ \A s \in c[Release].list : c[s].status = "done"

\* (Mutation: an approval is taken for granted when it was not refused.)
ApprovedUnlessRejected(c, k) == ApprovalEnabled => c[k].approval # "rejected"
Approved(c, k) == ApprovalEnabled => c[k].approval = "approved"

\* mergeStoryUnlocked before it touches git.
Mergeable(c, s) ==
    /\ Has(c, Release)
    /\ ApprovalEnabled => \A t \in c[s].list :
          Delivered(c, t) /\ (t \in NeedsReview => c[t].approval = "approved")

----------------------------------------------------------------------------
(* Managers *)

Manager == [at : {"down", "boot", "load", "idle", "read", "save"},
            cache : [Keys -> Row],
            todo : SUBSET Keys,      \* rows still to be read or written
            creating : SUBSET Keys,  \* the row a save has found to be absent
            task : Tasks,            \* the task of a status update ...
            row : Row,               \* ... and the row it has read
            sole : BOOLEAN]          \* history: see Coherent

Down == [at |-> "down", cache |-> Nothing, todo |-> {}, creating |-> {},
         task |-> CHOOSE t \in Tasks : TRUE, row |-> Absent, sole |-> FALSE]

\* The other managers after the rows have become d.
Others(m, d, next) ==
    [x \in Managers |-> IF x = m THEN next
                        ELSE [mgr[x] EXCEPT !.sole = @ /\ d = db]]

Idle(m) == mgr[m].at = "idle"
Counted == ops < MaxOps /\ ops' = ops + 1

\* An operation has changed its cache to c: saveUnlocked begins.  It writes the
\* rows there are, so nothing is left to do when there are none.
Saving(m, c) ==
    LET rows == {k \in Keys : Has(c, k)}
    IN  mgr' = [mgr EXCEPT ![m].at = IF rows = {} THEN "idle" ELSE "save",
                           ![m].cache = c, ![m].creating = {}, ![m].todo = rows]

\* An operation of an idle manager that changes its cache to c and saves; rows
\* of K are filed, rows of G dropped.
Operate(m, c, K, G) ==
    /\ Idle(m) /\ Counted /\ Saving(m, c)
    /\ gone' = [gone EXCEPT ![m] = (@ \ K) \cup G]
    /\ UNCHANGED <<db, repo, receipt, people, faults>>

----------------------------------------------------------------------------
(* Load *)

\* NewManager, or Load on a long-lived manager: an empty ledger is filled from
\* the JSON files first, if there are any.
Load(m) ==
    /\ mgr[m].at \in {"down", "idle"} /\ Counted
    /\ LET empty == \A s \in Stories : ~Has(db, s)
       IN  mgr' = [mgr EXCEPT ![m] = [Down EXCEPT !.at = IF empty THEN "boot" ELSE "load",
                                                 !.todo = Keys, !.sole = TRUE]]
    /\ UNCHANGED <<db, repo, receipt, history, faults>>

\* bootstrapFromJSONUnlocked: the release, all stories and all tasks are
\* inserted by one transaction each; rows that exist are skipped.
JsonStories == {Home[t] : t \in JsonTasks}
JsonRows == [k \in Keys |->
    CASE k = Release -> [Absent EXCEPT !.status = "draft", !.list = JsonStories]
      [] k \in Stories -> StoryRow({t \in JsonTasks : Home[t] = k})
      [] OTHER -> TaskRow(Home[k])]
JsonKeys == {Release} \cup JsonStories \cup JsonTasks
Bootstrap(m) ==
    LET now == CASE Release \in mgr[m].todo -> {Release}
                 [] mgr[m].todo \cap Stories # {} -> Stories
                 [] OTHER -> Tasks
        d == InsertAll(db, now \cap JsonKeys, JsonRows)
        rest == mgr[m].todo \ now
    IN  /\ mgr[m].at = "boot"
        /\ db' = d
        /\ mgr' = Others(m, d, [mgr[m] EXCEPT
                      !.at = IF rest = {} THEN "load" ELSE "boot",
                      !.todo = IF rest = {} THEN Keys ELSE rest])
        /\ UNCHANGED <<repo, receipt, history, ops, faults>>

\* refreshCacheUnlocked: one query for the release, one for the stories, one
\* for the tasks.
Refresh(m) ==
    LET now == CASE Release \in mgr[m].todo -> {Release}
                 [] mgr[m].todo \cap Stories # {} -> Stories
                 [] OTHER -> Tasks
        rest == mgr[m].todo \ now
    IN  /\ mgr[m].at = "load"
        /\ mgr' = [mgr EXCEPT
              ![m].cache = Query(db, mgr[m].cache, now),
              ![m].at = IF rest = {} THEN "idle" ELSE "load",
              ![m].todo = rest]
        /\ UNCHANGED <<db, repo, receipt, history, ops, faults>>

----------------------------------------------------------------------------
(* saveUnlocked *)

Turn(m, k) == mgr[m].at = "save" /\ k \in mgr[m].todo
               /\ mgr[m].todo \cap Before(k) = {}

Wrote(m, k, at) == [mgr[m] EXCEPT !.at = IF @ = "save" /\ mgr[m].todo = {k} THEN at ELSE @,
                                  !.todo = @ \ {k}, !.creating = {}]

\* The row exists: it is overwritten with the cached one.
SaveUpdate(m, k) ==
    /\ Turn(m, k) /\ mgr[m].creating = {} /\ Has(db, k)
    /\ ForeignKey(db, k, mgr[m].cache[k])
    /\ LET d == Overwrite(db, k, mgr[m].cache[k])
       IN  db' = d /\ mgr' = Others(m, d, Wrote(m, k, "idle"))
    /\ UNCHANGED <<repo, receipt, history, ops, faults>>

\* The row is not there ...
SaveMissing(m, k) ==
    /\ Turn(m, k) /\ mgr[m].creating = {} /\ ~Has(db, k)
    /\ mgr' = [mgr EXCEPT ![m].creating = {k}]
    /\ UNCHANGED <<db, repo, receipt, history, ops, faults>>

\* ... and is inserted, unless another manager was faster: then its row stays
\* and the save goes on, except for the release, where the save fails.
SaveCreate(m, k) ==
    /\ Turn(m, k) /\ k \in mgr[m].creating
    /\ IF Has(db, k)
       THEN /\ mgr' = IF k = Release
                      THEN [mgr EXCEPT ![m].at = "idle", ![m].todo = {},
                                       ![m].creating = {}, ![m].sole = FALSE]
                      ELSE [mgr EXCEPT ![m] = Wrote(m, k, "idle")]
            /\ UNCHANGED db
       ELSE /\ ForeignKey(db, k, mgr[m].cache[k])
            /\ LET d == Insert(db, k, mgr[m].cache[k])
               IN  db' = d /\ mgr' = Others(m, d, Wrote(m, k, "idle"))
    /\ UNCHANGED <<repo, receipt, history, ops, faults>>

\* A statement of the save is refused by the foreign key or fails: the
\* operation returns the error, its cache keeps the change.
Refused(m, k) == Turn(m, k) /\ ~ForeignKey(db, k, mgr[m].cache[k])
SaveFails(m) ==
    /\ mgr[m].at = "save"
    /\ \/ faults < MaxFaults /\ faults' = faults + 1
       \/ (\E k \in Keys : Refused(m, k)) /\ UNCHANGED faults
    /\ mgr' = [mgr EXCEPT ![m].at = "idle", ![m].todo = {}, ![m].creating = {},
                          ![m].sole = FALSE]
    /\ UNCHANGED <<db, repo, receipt, history, ops>>

\* The process dies between two statements.
Crash(m) ==
    /\ mgr[m].at # "down"
    /\ faults < MaxFaults /\ faults' = faults + 1
    /\ mgr' = [mgr EXCEPT ![m] = Down]
    /\ UNCHANGED <<db, repo, receipt, history, ops>>

----------------------------------------------------------------------------
(* Task-local updates *)

\* A task moves to story s: the lists of both stories are repaired.
Moved(c, t, from, row) ==
    [k \in Keys |-> CASE k = t -> row
                      [] k = from /\ Has(c, k) -> [c[k] EXCEPT !.list = @ \ {t}]
                      [] k = row.story /\ k # from /\ Has(c, k)
                            -> [c[k] EXCEPT !.list = @ \cup {t}]
                      [] OTHER -> c[k]]

\* (Mutation: the cache is changed before the row is written.)
UpdateTaskCacheFirst(m, t, row) ==
    IF row.story = db[t].story
    THEN \E ok \in BOOLEAN :
            LET d == IF ok THEN Overwrite(db, t, row) ELSE db
            IN  /\ db' = d
                /\ mgr' = Others(m, d, [mgr[m] EXCEPT !.at = "idle", !.row = Absent,
                                                      !.cache[t] = row])
    ELSE /\ Saving(m, Moved(mgr[m].cache, t, db[t].story, row))
         /\ UNCHANGED db

\* UpdateTask: a write of one row, then of the cache, when the story is the
\* stored one; a whole save otherwise.  The write may be refused (validation
\* evidence, CanCompleteTask) or fail, and then nothing has changed.
UpdateTask(m, t, row) ==
    IF row.story = db[t].story
    THEN \/ /\ db' = Overwrite(db, t, row)
            /\ mgr' = Others(m, Overwrite(db, t, row),
                             [mgr[m] EXCEPT !.at = "idle", !.row = Absent,
                                            !.cache[t] = row])
         \/ /\ mgr' = [mgr EXCEPT ![m].at = "idle", ![m].row = Absent]
            /\ UNCHANGED db
    ELSE /\ Saving(m, Moved(mgr[m].cache, t, db[t].story, row))
         /\ UNCHANGED db

\* SetTaskStatus reads the stored row ...
SetTaskStatus(m, t) ==
    /\ Idle(m) /\ Counted /\ Has(db, t)
    /\ mgr' = [mgr EXCEPT ![m].at = "read", ![m].task = t, ![m].row = db[t]]
    /\ UNCHANGED <<db, repo, receipt, history, faults>>

\* ... and hands it to UpdateTask with the new status.
SetTaskStatusWrite(m, status) ==
    /\ mgr[m].at = "read"
    /\ UpdateTask(m, mgr[m].task, [mgr[m].row EXCEPT !.status = status])
    /\ UNCHANGED <<repo, receipt, history, ops, faults>>

\* ReassignTask starts from the cached row instead.
ReassignTask(m, t, s) ==
    /\ Idle(m) /\ Counted /\ Has(mgr[m].cache, t) /\ Has(mgr[m].cache, s) /\ Has(db, t)
    /\ UpdateTask(m, t, [mgr[m].cache[t] EXCEPT !.story = s])
    /\ UNCHANGED <<repo, receipt, history, faults>>

----------------------------------------------------------------------------
(* Operations on the cache that save all of it *)

CreateRelease(m) ==
    Operate(m, [mgr[m].cache EXCEPT ![Release] = [Absent EXCEPT !.status = "draft"]], {}, {})

\* The callers file only stories and tasks that their cache does not know.
CreateStory(m, s) ==
    LET c == mgr[m].cache
    IN  /\ ~Has(c, s)
        /\ Operate(m, [c EXCEPT ![s] = StoryRow({}),
                                ![Release].list = IF Has(c, Release) THEN @ \cup {s} ELSE @], {s}, {})

CreateTask(m, t) ==
    LET c == mgr[m].cache
        s == Home[t]
    IN  /\ ~Has(c, t) /\ Has(c, s)
        /\ Operate(m, [c EXCEPT ![t] = [TaskRow(s) EXCEPT
                                          !.status = IF c[s].status = "done"
                                                     THEN "done" ELSE "pending"],
                                ![s].list = @ \cup {t}], {t}, {})

\* Save, CreateGoal, LinkCommitToTask, UpdateStory and TagRelease change
\* nothing that the model keeps, and save everything.
Save(m) == Operate(m, mgr[m].cache, {}, {})

ResetStatuses(m) ==
    Operate(m, [k \in Keys |-> IF Has(mgr[m].cache, k) /\ k # Release
                               THEN [mgr[m].cache[k] EXCEPT !.status = "pending"]
                               ELSE mgr[m].cache[k]], {}, {})

\* backlog_claim_story: one story in progress at a time, as far as this cache
\* knows.
ClaimStory(m, s) ==
    LET c == mgr[m].cache
    IN  /\ Has(c, s) /\ c[s].status \notin {"done", "approved", "in_progress"}
        /\ \A o \in Stories \ {s} : c[o].status # "in_progress"
        /\ Operate(m, [c EXCEPT ![s].status = "in_progress"], {}, {})

\* backlog_complete_story.
CompleteStory(m, s) ==
    LET c == mgr[m].cache
    IN  /\ Has(c, s)
        /\ \A t \in Tasks : Has(c, t) /\ c[t].story = s => Delivered(c, t)
        /\ Operate(m, [c EXCEPT ![s].status = "done"], {}, {})

\* DeleteTask and DeleteStory drop the cached rows; a save writes rows and
\* deletes none.
Deleted(m, K, c) == Operate(m, [k \in Keys |-> IF k \in K THEN Absent ELSE c[k]], {}, K)
DeleteTask(m, t) ==
    LET c == mgr[m].cache
    IN  Has(c, t) /\ Deleted(m, {t}, IF Has(c, c[t].story)
                                     THEN [c EXCEPT ![c[t].story].list = @ \ {t}] ELSE c)
DeleteStory(m, s) ==
    Has(mgr[m].cache, s) /\ Deleted(m, {s} \cup mgr[m].cache[s].list, mgr[m].cache)

\* A person approves the release, a story or a task, or rejects a task.
Approve(m, k) ==
    /\ ApprovalEnabled /\ Idle(m) /\ Counted /\ Has(mgr[m].cache, k)
    /\ Saving(m, [mgr[m].cache EXCEPT ![k].approval = "approved", ![k].status = "approved"])
    /\ people' = people \cup {k}
    /\ UNCHANGED <<db, repo, receipt, gone, faults>>
RejectTask(m, t) ==
    /\ ApprovalEnabled /\ Has(mgr[m].cache, t)
    /\ Operate(m, [mgr[m].cache EXCEPT ![t].approval = "rejected",
                                       ![t].status = "needs_review"], {}, {})

----------------------------------------------------------------------------
(* Merging *)

\* The stories S are merged by git with outcome[s]; when all stories of the
\* release are done by then, it is merged to the base branch (main: git
\* succeeds) and saved with everything else.
MergeAll(m, c, S, outcome, main) ==
    LET ok == {s \in S : outcome[s] = "merged"}
        c1 == [k \in Keys |->
                 IF k \in S /\ outcome[k] \in {"merged", "conflict"}
                 THEN [c[k] EXCEPT !.status = IF k \in ok THEN "done" ELSE "conflict"]
                 ELSE c[k]]
        ship == /\ ok # {} /\ ReleaseComplete(c1) /\ Approved(c1, Release)
                /\ AutoMerge /\ main
    IN  /\ Idle(m) /\ Counted
        /\ merged' = merged \cup ok
        /\ shipped' = (shipped \/ ship)
        /\ Saving(m, IF ship THEN [c1 EXCEPT ![Release].status = "deployed"] ELSE c1)
        /\ UNCHANGED <<db, receipt, history, faults>>

Outcomes == {"merged", "conflict", "failed"}

\* CompleteTask: the task is done, its story is merged when it is complete and
\* approved.
CompleteTask(m, t, outcome, main) ==
    LET c == [mgr[m].cache EXCEPT ![t].status = "done"]
        s == c[t].story
    IN  /\ Has(mgr[m].cache, t)
        /\ MergeAll(m, c, IF /\ AutoMerge /\ StoryComplete(c, s) /\ Approved(c, s)
                             /\ Mergeable(c, s)
                          THEN {s} ELSE {}, outcome, main)

\* ProcessApprovedStories: every story that is complete, approved and not done.
ProcessApprovedStories(m, outcome, main) ==
    LET c == mgr[m].cache
    IN  MergeAll(m, c, {s \in Stories : /\ StoryComplete(c, s) /\ c[s].status # "done"
                                         /\ Approved(c, s) /\ Mergeable(c, s)},
                 outcome, main)

\* MergeStoryToRelease: an explicit merge asks for the story's approval only,
\* and leaves the ledger alone when git fails.
MergeStoryToRelease(m, s) ==
    /\ Idle(m) /\ Counted
    /\ Has(mgr[m].cache, s) /\ Has(mgr[m].cache, Release) /\ Approved(mgr[m].cache, s)
    /\ merged' = merged \cup {s}
    /\ Saving(m, [mgr[m].cache EXCEPT ![s].status = "done"])
    /\ UNCHANGED <<db, shipped, receipt, history, faults>>

----------------------------------------------------------------------------
(* The reviewed plan *)

PlanStories == {Home[t] : t \in PlanTasks}
PlanRows == [k \in PlanStories \cup PlanTasks |->
    IF k \in Stories THEN StoryRow({t \in PlanTasks : Home[t] = k}) ELSE TaskRow(Home[k])]

\* importReviewedPlan: one transaction with its receipt.  A row that exists must
\* agree with the plan; a plan with a receipt changes nothing.
ImportReviewedPlan(m) ==
    LET plan == PlanStories \cup PlanTasks
        d == InsertAll(db, plan, PlanRows)
    IN  /\ Idle(m) /\ Counted /\ ~receipt
        /\ \A k \in plan : Has(db, k) => /\ db[k].list = PlanRows[k].list
                                         /\ db[k].story = PlanRows[k].story
        /\ db' = d
        /\ receipt' = TRUE
        /\ gone' = [gone EXCEPT ![m] = @ \ plan]
        /\ mgr' = Others(m, d, [mgr[m] EXCEPT !.at = "load", !.todo = Keys, !.sole = TRUE,
                                              !.cache = Nothing])
        /\ UNCHANGED <<repo, people, faults>>

----------------------------------------------------------------------------

Init ==
    /\ db = Nothing
    /\ mgr = [m \in Managers |-> Down]
    /\ merged = {} /\ shipped = FALSE /\ receipt = FALSE
    /\ people = {} /\ gone = [m \in Managers |-> {}]
    /\ ops = 0 /\ faults = 0

Statement(m) ==
    \/ Bootstrap(m) \/ Refresh(m)
    \/ \E k \in Keys : SaveUpdate(m, k) \/ SaveMissing(m, k) \/ SaveCreate(m, k)
    \/ SaveFails(m) \/ Crash(m)

TaskOperation(m, t) ==
    \/ SetTaskStatus(m, t) \/ CreateTask(m, t) \/ DeleteTask(m, t)
    \/ Approve(m, t) \/ RejectTask(m, t)
    \/ \E s \in Stories : ReassignTask(m, t, s)
    \/ \E outcome \in [Stories -> Outcomes], main \in BOOLEAN :
          CompleteTask(m, t, outcome, main)

StoryOperation(m, s) ==
    \/ CreateStory(m, s) \/ DeleteStory(m, s) \/ ClaimStory(m, s) \/ CompleteStory(m, s)
    \/ Approve(m, s) \/ MergeStoryToRelease(m, s)

Operation(m) ==
    \/ Load(m) \/ CreateRelease(m) \/ Approve(m, Release) \/ Save(m)
    \/ ResetStatuses(m) \/ ImportReviewedPlan(m)
    \/ \E status \in {"in_progress", "done"} : SetTaskStatusWrite(m, status)
    \/ \E outcome \in [Stories -> Outcomes], main \in BOOLEAN :
          ProcessApprovedStories(m, outcome, main)

Next == \E m \in Managers : \/ Statement(m) \/ Operation(m)
                            \/ \E t \in Tasks : TaskOperation(m, t)
                            \/ \E s \in Stories : StoryOperation(m, s)

Spec == Init /\ [][Next]_vars

----------------------------------------------------------------------------
(* Properties *)

\* Every row, cache and history variable holds a value of its type.
TypeOK ==
    /\ db \in [Keys -> Row]
    /\ mgr \in [Managers -> Manager]
    /\ merged \subseteq Stories /\ shipped \in BOOLEAN /\ receipt \in BOOLEAN
    /\ people \subseteq Keys /\ gone \in [Managers -> SUBSET Keys]
    /\ ops \in 0..MaxOps /\ faults \in 0..MaxFaults

\* With approvals enabled nothing reaches the release branch, and the release
\* nothing but the base branch, that a person has not approved: no stale cache,
\* torn save, lost race or automatic merge manufactures an approval.
MergesAreApproved ==
    ApprovalEnabled => /\ merged \subseteq people
                       /\ shipped => Release \in people

\* A manager that no other manager has written behind since it loaded, and
\* whose statements have not failed ("sole"), differs from the ledger at most
\* in the rows its current operation has still to write: the whole-cache save
\* then overwrites nobody, and a refused task update has not advanced the
\* cache (UpdateTask, "Persist first so a rejected write cannot advance this
\* cache").
Coherent ==
    \A m \in Managers : mgr[m].sole /\ mgr[m].at \in {"idle", "read", "save"} =>
        \A k \in Keys : mgr[m].cache[k] # db[k] =>
            \/ mgr[m].at = "save" /\ k \in mgr[m].todo
            \/ k \in gone[m]

\* DeleteTask "removes a task from the tracking system", DeleteStory "a story
\* and all of its tasks from the backlog": with a single manager no later
\* cache has the row again, unless it was filed again.
DeletedStaysDeleted ==
    \A m \in Managers : Idle(m) => \A k \in gone[m] : ~Has(mgr[m].cache, k)
=============================================================================
