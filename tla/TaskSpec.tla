------------------------------ MODULE TaskSpec ------------------------------
(***************************************************************************)
(* What a backlog promises about its tasks, whoever executes them and how  *)
(* often they crash: a task is taken at most as often as its budget says,  *)
(* one at a time and only when everything it waits for is fulfilled; what  *)
(* is delivered stays delivered, what is closed stays closed, and a closed *)
(* task is fulfilled by the tasks that follow it.  Nothing is said of      *)
(* queues, attempts, receipts, locks or processes.                         *)
(***************************************************************************)
EXTENDS Integers

CONSTANTS
    Tasks,   \* the tasks there may ever be
    Budget,  \* Budget[t]: how often t may be taken
    Waits    \* Waits[t]: the tasks t waits for

VARIABLES
    state,   \* state[t]: absent, open, running, failed, review, closed or delivered
    taken,   \* taken[t]: how often t was taken
    heir     \* heir[t]: the task that follows a closed t, t itself if none

taskVars == <<state, taken, heir>>

\* t is delivered, or one of the tasks that follow it: no set of undelivered
\* tasks holds t and the heir of each of its members.
Fulfilled(t) ==
    ~ \E S \in SUBSET {u \in Tasks : state[u] # "delivered"} :
          t \in S /\ \A u \in S : heir[u] \in S

Goes(t, next) == state' = [state EXCEPT ![t] = next]

Take(t) ==
    /\ state[t] \in {"open", "failed"}
    /\ taken[t] < Budget[t]
    /\ \A u \in Tasks : state[u] # "running"
    /\ \A u \in Waits[t] : Fulfilled(u)
    /\ Goes(t, "running")
    /\ taken' = [taken EXCEPT ![t] = @ + 1]
    /\ UNCHANGED heir

\* An execution ends: delivered, failed, put up for review, or nothing came of
\* it and the task is open again.
Settle(t) ==
    /\ state[t] = "running"
    /\ \E next \in {"open", "failed", "review", "delivered"} : Goes(t, next)
    /\ UNCHANGED <<taken, heir>>

\* A failure is looked at again: one more execution, a review, or back from it.
Reconsider(t) ==
    /\ \/ state[t] = "failed" /\ taken[t] < Budget[t] /\ Goes(t, "open")
       \/ state[t] = "failed" /\ Goes(t, "review")
       \/ state[t] = "review" /\ Goes(t, "failed")
    /\ UNCHANGED <<taken, heir>>

\* A new task t: it takes the place of a failed one, which is closed, or adds
\* to delivered work.
Follow(t, u) ==
    /\ state[t] = "absent"
    /\ state[u] \in {"failed", "delivered"}
    /\ state' = [state EXCEPT ![t] = "open", ![u] = IF @ = "failed" THEN "closed" ELSE @]
    /\ heir' = IF state[u] = "failed" THEN [heir EXCEPT ![u] = t] ELSE heir
    /\ UNCHANGED taken

Init ==
    /\ state \in [Tasks -> {"absent", "open", "delivered"}]
    /\ taken = [t \in Tasks |-> 0]
    /\ heir = [t \in Tasks |-> t]

\* Some task t moves.
Next ==
    \E t \in Tasks :
        /\ state'[t] # state[t]
        /\ \/ Take(t) \/ Settle(t) \/ Reconsider(t)
           \/ \E u \in Tasks : Follow(t, u)

Spec == Init /\ [][Next]_taskVars
=============================================================================
