--------------------------- MODULE BatchScheduler ---------------------------
(***************************************************************************)
(* The batch scheduler (pkg/manager/scheduler.go, ExecuteTasks without     *)
(* TaskOriented): a pool of workers over one channel of ready tasks.       *)
(*                                                                         *)
(* The pending tasks that a human need not run become nodes.  checkReady,  *)
(* one critical section, fails the nodes whose dependency failed, closes   *)
(* the channel when every node is finished, and otherwise puts the nodes   *)
(* whose dependencies are over into the channel.  It runs once at the      *)
(* start and after each task, in the worker that ran it.  The order of the *)
(* channel is left open: the scheduler only sorts by id and resumability.  *)
(***************************************************************************)
EXTENDS Integers, FiniteSets

CONSTANTS
    Tasks,      \* the tasks of the ledger
    Deps,       \* Deps[t]: the tasks t depends on
    Stories,    \* the stories
    StoryOf,    \* StoryOf[t]: the story of t
    StoryDeps,  \* StoryDeps[s]: the stories s depends on
    Hitl,       \* the tasks whose mode is HITL
    Ledgers,    \* the statuses a task can have when the batch starts
    Workers     \* the workers of the pool

ASSUME BatchAssumption ==
    /\ Deps \in [Tasks -> SUBSET Tasks]
    /\ StoryOf \in [Tasks -> Stories]
    /\ StoryDeps \in [Stories -> SUBSET Stories]
    /\ Hitl \subseteq Tasks
    /\ Ledgers \subseteq {"pending", "done", "error"}
    /\ IsFiniteSet(Tasks)

VARIABLES
    status,      \* the tasks' statuses in the ledger ("error": any that is
                 \* neither pending nor done)
    nodes,       \* the tasks of this batch
    dispatched,  \* nodes put into the channel so far
    finished,    \* nodes marked Finished
    count,       \* finishedCount
    ready,       \* the content of the channel readyTasks
    closed,      \* readyTasks is closed
    panicked,    \* readyTasks was closed twice: the process is gone
    first,       \* the initial "go checkReady()" has not run yet
    worker,      \* where each worker is, and with which task
    errors       \* how many errors the channel errors holds

batchVars == <<status, nodes, dispatched, finished, count, ready, closed, panicked,
               first, worker, errors>>

----------------------------------------------------------------------------
(* What is run: filterAutoDispatchable and selectTasks *)

StoryWaits(t, u) == StoryOf[u] \in StoryDeps[StoryOf[t]]

\* (Mutation: the exclusion goes one step only.)
HeldDirect(pending) ==
    {t \in pending : t \in Hitl \/ Deps[t] \cap pending \cap Hitl # {}}

\* The tasks that need a human, or wait for a task or a story that does.
Held(pending) ==
    LET H[n \in 0..Cardinality(pending)] ==
            IF n = 0 THEN pending \cap Hitl
            ELSE H[n - 1] \cup {t \in pending : \E u \in H[n - 1] :
                                    u \in Deps[t] \/ StoryWaits(t, u)}
    IN  H[Cardinality(pending)]

Pending(st) == {t \in Tasks : st[t] = "pending"}

\* selectTasks: a selection whose every dependency is done or selected too.
Accepted(selected, st) ==
    /\ selected # {} /\ selected \subseteq Pending(st)
    /\ selected \cap Held(Pending(st)) = {}
    /\ \A t \in selected :
          /\ \A d \in Deps[t] : d \in selected \/ st[d] = "done"
          /\ \A u \in Tasks : StoryWaits(t, u) => u \in selected \/ st[u] = "done"

\* All pending tasks, or a selection.
Batches(st) == {Pending(st)} \cup {s \in SUBSET Tasks : Accepted(s, st)}

Idle == [at |-> "recv", task |-> CHOOSE t \in Tasks : TRUE]

BatchInit ==
    /\ status \in [Tasks -> Ledgers]
    /\ nodes \in {batch \ Held(batch) : batch \in Batches(status)} \ {{}}
    /\ dispatched = {} /\ finished = {} /\ count = 0
    /\ ready = {} /\ closed = FALSE /\ panicked = FALSE /\ first = TRUE
    /\ worker = [w \in Workers |-> Idle]
    /\ errors = 0

----------------------------------------------------------------------------
(* checkReady, under the mutex *)

Waiting == nodes \ (dispatched \cup finished)

\* Nodes whose failed dependency this pass certainly sees.
Doomed == {n \in Waiting : \E d \in Deps[n] \cap finished : status[d] = "error"}

\* The nodes one pass over the map of nodes fails: the doomed, and those that
\* happen to be visited after a dependency failed in the same pass.
Cascades ==
    {c \in SUBSET Waiting :
        /\ Doomed \subseteq c
        /\ \E visit \in [c -> 1..Cardinality(c)] : \A n \in c :
              n \in Doomed \/ \E d \in Deps[n] \cap c : visit[d] < visit[n]}

\* (Mutations: stories are not looked at; a dispatched node is dispatched
\* again.)
ReadyIgnoringStories(done, st) ==
    {n \in nodes \ (dispatched \cup done) :
        \A d \in Deps[n] : IF d \in nodes THEN d \in done ELSE st[d] = "done"}

\* The nodes whose dependencies are over, once those in done are finished and
\* the ledger is st.
Ready(done, st) ==
    {n \in nodes \ (dispatched \cup done) :
        /\ \A d \in Deps[n] : IF d \in nodes THEN d \in done ELSE st[d] = "done"
        /\ \A u \in Tasks : StoryWaits(n, u) => st[u] = "done"}

\* close(readyTasks): closing it twice panics.
Close == IF closed THEN panicked' = TRUE /\ UNCHANGED closed
                   ELSE closed' = TRUE /\ UNCHANGED panicked

CheckReady ==
    \E c \in Cascades :
        LET done == finished \cup c
            st == [t \in Tasks |-> IF t \in c THEN "error" ELSE status[t]]
            new == IF count + Cardinality(c) = Cardinality(nodes) THEN {}
                   ELSE Ready(done, st)
        IN  /\ finished' = done
            /\ count' = count + Cardinality(c)
            /\ status' = st
            /\ dispatched' = dispatched \cup new
            /\ ready' = ready \cup new
            /\ IF count' = Cardinality(nodes) THEN Close
               ELSE UNCHANGED <<closed, panicked>>

FirstCheck ==
    /\ first /\ ~panicked
    /\ first' = FALSE
    /\ CheckReady
    /\ UNCHANGED <<nodes, worker, errors>>

----------------------------------------------------------------------------
(* A worker *)

At(w, place) == worker[w].at = place /\ ~panicked
MoveTo(w, place) == worker' = [worker EXCEPT ![w].at = place]

TakeTask(w, t) ==
    /\ At(w, "recv") /\ t \in ready
    /\ ready' = ready \ {t}
    /\ worker' = [worker EXCEPT ![w] = [at |-> "run", task |-> t]]
    /\ UNCHANGED <<status, nodes, dispatched, finished, count, closed, panicked,
                   first, errors>>

\* The range over the channel ends when it is closed and empty.
Leave(w) ==
    /\ At(w, "recv") /\ closed /\ ready = {}
    /\ MoveTo(w, "exit")
    /\ UNCHANGED <<status, nodes, dispatched, finished, count, ready, closed,
                   panicked, first, errors>>

\* The pipeline ran to its end: the task is done, unless the ledger refuses to
\* complete it (the refusal is only logged).
Succeed(w, refused) ==
    /\ At(w, "run")
    /\ status' = IF refused THEN status
                 ELSE [status EXCEPT ![worker[w].task] = "done"]
    /\ MoveTo(w, "count")
    /\ UNCHANGED <<nodes, dispatched, finished, count, ready, closed, panicked,
                   first, errors>>

\* The start was refused, or the pipeline failed or was stopped.
TaskFails(w) ==
    /\ At(w, "run")
    /\ status' = [status EXCEPT ![worker[w].task] = "error"]
    /\ errors' = errors + 1
    /\ MoveTo(w, "count")
    /\ UNCHANGED <<nodes, dispatched, finished, count, ready, closed, panicked, first>>

\* (Mutation: the node is marked finished, its count is forgotten.)
CountFinishedLost(w) ==
    /\ At(w, "count")
    /\ finished' = finished \cup {worker[w].task}
    /\ count' = IF status[worker[w].task] = "error" THEN count ELSE count + 1
    /\ MoveTo(w, IF count' = Cardinality(nodes) THEN "close" ELSE "check")
    /\ UNCHANGED <<status, nodes, dispatched, ready, closed, panicked, first, errors>>

\* Under the mutex the node is finished and counted ...
CountFinished(w) ==
    /\ At(w, "count")
    /\ finished' = finished \cup {worker[w].task}
    /\ count' = count + 1
    /\ MoveTo(w, IF count' = Cardinality(nodes) THEN "close" ELSE "check")
    /\ UNCHANGED <<status, nodes, dispatched, ready, closed, panicked, first, errors>>

\* ... and after it the last worker closes the channel ...
CloseLast(w) ==
    /\ At(w, "close")
    /\ Close
    /\ MoveTo(w, "recv")
    /\ UNCHANGED <<status, nodes, dispatched, finished, count, ready, first, errors>>

\* ... and every other one looks for ready tasks.
Recheck(w) ==
    /\ At(w, "check")
    /\ CheckReady
    /\ MoveTo(w, "recv")
    /\ UNCHANGED <<nodes, first, errors>>

----------------------------------------------------------------------------

WorkerStep(w) ==
    \/ \E t \in Tasks : TakeTask(w, t)
    \/ Leave(w)
    \/ \E refused \in BOOLEAN : Succeed(w, refused)
    \/ TaskFails(w) \/ CountFinished(w) \/ CloseLast(w) \/ Recheck(w)

BatchNext == FirstCheck \/ \E w \in Workers : WorkerStep(w)

BatchSpec == BatchInit /\ [][BatchNext]_batchVars

\* Goroutines are scheduled, and a started pipeline ends.
FairBatchSpec ==
    /\ BatchSpec
    /\ WF_batchVars(FirstCheck)
    /\ \A w \in Workers : WF_batchVars(WorkerStep(w))

----------------------------------------------------------------------------
(* Properties *)

Places == {"recv", "run", "count", "close", "check", "exit"}

\* Every variable holds a value of its type, and neither the buffered channel
\* of ready tasks nor the one of errors ever needs more than its capacity.
BatchTypeOK ==
    /\ status \in [Tasks -> {"pending", "done", "error"}]
    /\ nodes \subseteq Tasks /\ dispatched \subseteq nodes /\ finished \subseteq nodes
    /\ count \in 0..Cardinality(nodes)
    /\ ready \subseteq dispatched
    /\ closed \in BOOLEAN /\ panicked \in BOOLEAN /\ first \in BOOLEAN
    /\ worker \in [Workers -> [at : Places, task : Tasks]]
    /\ errors \in 0..Cardinality(nodes)

Returned == ~panicked /\ \A w \in Workers : worker[w].at = "exit"

\* No worker gets a task before its dependencies are over: those of the batch
\* finished, the others and those of the stories its story waits for done.
DependenciesFirst ==
    \A t \in dispatched :
        /\ \A d \in Deps[t] : IF d \in nodes THEN d \in finished ELSE status[d] = "done"
        /\ \A u \in Tasks : StoryWaits(t, u) => status[u] = "done"

\* S has the pending tasks of humans and, with a task, the pending tasks that
\* wait for it.
HumanClosed(S, pending) ==
    /\ pending \cap Hitl \subseteq S
    /\ \A u \in S, v \in pending : (u \in Deps[v] \/ StoryWaits(v, u)) => v \in S

\* The reference: the tasks that are in every such set.
NeedsHuman(pending) ==
    {t \in pending : \A S \in SUBSET pending : HumanClosed(S, pending) => t \in S}

\* filterAutoDispatchable: a task that needs a human, or waits through any
\* chain of task and story dependencies for a pending one that does, is never
\* a node of the pool, neither at the start nor as the tasks before it finish.
HumansFirst == nodes \cap NeedsHuman(Pending(status)) = {}

\* A node waits for what will not come: a task that failed in an earlier
\* batch, or a story with a task that is over and not done (it failed or its
\* completion was refused).  See PoolNotDeadlocked.
Starved ==
    \E n \in nodes :
        \/ \E d \in Deps[n] \ nodes : status[d] = "error"
        \/ \E u \in Tasks : /\ StoryWaits(n, u) /\ status[u] # "done"
                            /\ status[u] = "error" \/ u \in finished

\* ExecuteTasks returns, whichever tasks fail (or the process is gone), unless
\* a node is starved.
BatchReturns == <>(Returned \/ panicked \/ Starved)

----------------------------------------------------------------------------
(* Statements of the repository that the code does not keep *)

\* TestScheduler_FailedTaskBlocksDependents and "Cascade: mark this task as
\* failed too": no task runs after one it depends on failed.
FailedBlocksDependents ==
    \A t \in dispatched : \A d \in Deps[t] \cap nodes : status[d] # "error"

\* TestScheduler_IndependentTasksRunInParallel: a pool of several workers
\* finishes its tasks.
NeverPanics == ~panicked

\* selectTasks refuses what "the scheduler would skip ... or wait on ...
\* forever": with what it accepts, the workers never all wait for a task that
\* will not come.
PoolNotDeadlocked ==
    ~ /\ ~first /\ ~closed /\ ready = {}
      /\ \A w \in Workers : worker[w].at = "recv"
=============================================================================
