---------------------------- MODULE Connections ----------------------------
(***************************************************************************)
(* One external connection (internal/externalcap) and its row in the state *)
(* database.                                                               *)
(*                                                                         *)
(* StartOAuth leaves a goroutine behind that authorizes, discovers the     *)
(* provider's tools and proves the identity; it waits for the callback     *)
(* that CompleteOAuth hands over.  Probe does the second half with the     *)
(* stored credential.  Disable may come at any moment.  Every call reads   *)
(* the row once and writes it by single statements, without a lock.        *)
(*                                                                         *)
(* Left out: the validation of URLs, the cipher, and the binding, which    *)
(* never changes after Create.                                             *)
(***************************************************************************)
EXTENDS Naturals, FiniteSets

CONSTANTS
    Flows,      \* calls of StartOAuth, each with its goroutine
    NoFlow,     \* no flow
    Callers,    \* calls of CompleteOAuth
    Probes,     \* calls of Probe
    MaxFaults,  \* bound: failed statements
    MaxCrashes  \* bound: restarts of the server

ASSUME ConnectionsAssumption ==
    NoFlow \notin Flows /\ Flows \cap Probes = {} /\ MaxFaults \in Nat /\ MaxCrashes \in Nat

VARIABLES
    row,      \* status and whether a credential is stored
    worker,   \* per flow and probe: the discovery it runs
    flow,     \* per flow: the oauthFlow it shares with the callers
    starter,  \* per flow: its StartOAuth
    caller,   \* per call of CompleteOAuth
    owner,    \* the call of Disable
    late,     \* history: probes that began after Disable had returned
    proved,   \* history: workers whose successful identity call is recorded
    open,     \* history: workers the provider admitted without authorization
    faults, crashes

vars == <<row, worker, flow, starter, caller, owner, late, proved, open, faults, crashes>>
history == <<late, proved, open>>
bounds == <<faults, crashes>>

Workers == Flows \cup Probes

Statuses == {"pending_authorization", "authorizing", "healthy", "disabled", "error"}
Worker == [at : {"idle", "connecting", "asked", "loading", "token", "calling", "called",
                 "proved", "saving", "failing", "ended"},
           refused : BOOLEAN,      \* the connection was disabled when it was read
           token : BOOLEAN]        \* a token was obtained
Flow == [listed : BOOLEAN,         \* in s.flows
         url : BOOLEAN,            \* the authorization URL was sent
         timedOut : BOOLEAN,       \* its context is over
         expired : BOOLEAN,        \* expiresAt has passed
         callback : BOOLEAN,       \* a callback waits in its channel
         done : {"open", "ok", "error"},
         killed : BOOLEAN]         \* history: cancelled by Disable

IdleWorker == [at |-> "idle", refused |-> FALSE, token |-> FALSE]
NewFlow == [listed |-> FALSE, url |-> FALSE, timedOut |-> FALSE, expired |-> FALSE,
            callback |-> FALSE, done |-> "open", killed |-> FALSE]
NoCall == [at |-> "idle", flow |-> NoFlow]

At(w, place) == worker[w].at = place

\* A statement outside the catalog's transaction: it may fail.
Faulty == faults < MaxFaults /\ faults' = faults + 1 /\ UNCHANGED crashes
Written == UNCHANGED bounds

SetStatus(status) == row' = [row EXCEPT !.status = status]

\* The error of a status that is only a note is ignored.
NoteStatus(status) == (SetStatus(status) /\ Written) \/ (UNCHANGED row /\ Faulty)

----------------------------------------------------------------------------
(* The discovery, in the goroutine of a flow or in a probe *)

\* The goroutine sends its result on a channel of one place, so it never waits.
\* (Mutation: a channel without a place, which needs a reader.)
ReportRendezvous(w, result) ==
    IF w \in Flows
    THEN /\ starter[w] = "waiting" \/ \E c \in Callers : caller[c] = [at |-> "waiting", flow |-> w]
         /\ flow' = [flow EXCEPT ![w].done = result]
         /\ worker' = [worker EXCEPT ![w].at = "ended"]
    ELSE /\ flow' = flow
         /\ worker' = [worker EXCEPT ![w].at = IF result = "ok" THEN "ended" ELSE "failing"]
Report(w, result) ==
    IF w \in Flows
    THEN /\ flow' = [flow EXCEPT ![w].done = result, ![w].timedOut = TRUE]
         /\ worker' = [worker EXCEPT ![w].at = "ended"]
    ELSE /\ flow' = flow
         /\ worker' = [worker EXCEPT ![w].at = IF result = "ok" THEN "ended" ELSE "failing"]

\* A request of a context that is over fails.
Alive(w) == w \in Flows => ~flow[w].timedOut

\* The first request: the provider asks for authorization, or does not.
\* A connection that was disabled when it was read is refused.
Connect(f) ==
    /\ At(f, "connecting") /\ ~worker[f].refused /\ Alive(f)
    /\ \/ /\ worker' = [worker EXCEPT ![f].at = "asked"]
          /\ flow' = [flow EXCEPT ![f].url = TRUE]
          /\ UNCHANGED open
       \/ /\ worker' = [worker EXCEPT ![f].at = "calling"]
          /\ open' = open \cup {f}
          /\ UNCHANGED flow
    /\ UNCHANGED <<row, starter, caller, owner, late, proved, bounds>>

\* The code fetcher takes the callback, or gives up with its context.
TakeCallback(f) ==
    /\ At(f, "asked") /\ flow[f].callback
    /\ flow' = [flow EXCEPT ![f].callback = FALSE]
    /\ worker' = [worker EXCEPT ![f].at = "token"]
    /\ UNCHANGED <<row, starter, caller, owner, history, bounds>>

\* The token source: the code is exchanged, or the stored token refreshed, and
\* the token is saved before it is used.
\* (Mutation: it is only saved at the end.)
TokenUnsaved(w) ==
    /\ At(w, "token") /\ Alive(w)
    /\ worker' = [worker EXCEPT ![w].at = "calling", ![w].token = TRUE]
    /\ UNCHANGED <<row, flow, starter, caller, owner, history, bounds>>
Token(w) ==
    /\ At(w, "token") /\ Alive(w)
    /\ row' = [row EXCEPT !.cred = TRUE] /\ Written
    /\ worker' = [worker EXCEPT ![w].at = "calling", ![w].token = TRUE]
    /\ UNCHANGED <<flow, starter, caller, owner, history>>

\* The tools are listed and get_me is called ...
Call(w) ==
    /\ At(w, "calling") /\ Alive(w)
    /\ worker' = [worker EXCEPT ![w].at = "called"]
    /\ UNCHANGED <<row, flow, starter, caller, owner, history, bounds>>

\* ... and the call is recorded.
RecordInvocation(w) ==
    /\ At(w, "called")
    /\ proved' = proved \cup {w} /\ Written
    /\ worker' = [worker EXCEPT ![w].at = "proved"]
    /\ UNCHANGED <<row, flow, starter, caller, owner, late, open>>

\* RecordExternalCatalog: one transaction, which no longer touches a
\* connection that is disabled by now.
RecordCatalog(w) ==
    /\ At(w, "proved")
    /\ IF row.status = "disabled"
       THEN Report(w, "error") /\ UNCHANGED row
       ELSE /\ SetStatus("healthy")
            /\ IF w \in Probes THEN Report(w, "ok")
               ELSE worker' = [worker EXCEPT ![w].at = "saving"] /\ UNCHANGED flow
    /\ UNCHANGED <<starter, caller, owner, history, bounds>>

\* A flow saves its credential once more; without a token it is an error.
SaveCredential(f) ==
    /\ At(f, "saving")
    /\ IF worker[f].token THEN row' = [row EXCEPT !.cred = TRUE] /\ Report(f, "ok")
       ELSE UNCHANGED row /\ Report(f, "error")
    /\ UNCHANGED <<starter, caller, owner, history, bounds>>

\* Any request of the discovery fails: the provider, the context of the call,
\* a tool that is missing, an error answer of the identity call.
Fails(w) ==
    /\ worker[w].at \in {"connecting", "token", "calling"} \/ (At(w, "asked") /\ ~Alive(w))
    /\ Report(w, "error")
    /\ UNCHANGED <<row, starter, caller, owner, history, bounds>>

\* A statement of the discovery fails.
StatementFails(w) ==
    /\ worker[w].at \in {"called", "proved", "saving"} \/ (At(w, "token") /\ Alive(w))
    /\ Faulty
    /\ Report(w, "error")
    /\ UNCHANGED <<row, starter, caller, owner, history>>

----------------------------------------------------------------------------
(* StartOAuth *)

StartOAuth(f) ==
    /\ starter[f] = "idle"
    /\ starter' = [starter EXCEPT ![f] = "waiting"]
    /\ worker' = [worker EXCEPT ![f] = [IdleWorker EXCEPT !.at = "connecting",
                                                          !.refused = row.status = "disabled"]]
    /\ UNCHANGED <<row, flow, caller, owner, history, bounds>>

\* pruneFlowsLocked
Pruned == [g \in Flows |-> IF flow[g].listed /\ flow[g].expired
                           THEN [flow[g] EXCEPT !.listed = FALSE, !.timedOut = TRUE]
                           ELSE flow[g]]

\* The flow is published under its state value ...
Publish(f) ==
    /\ starter[f] = "waiting" /\ flow[f].url
    /\ starter' = [starter EXCEPT ![f] = "published"]
    /\ flow' = [Pruned EXCEPT ![f].listed = TRUE]
    /\ UNCHANGED <<row, worker, caller, owner, history, bounds>>

\* ... and the status follows, whether or not it could be written.
Authorizing(f) ==
    /\ starter[f] = "published"
    /\ starter' = [starter EXCEPT ![f] = "returned"]
    /\ NoteStatus("authorizing")
    /\ UNCHANGED <<worker, flow, caller, owner, history>>

\* No URL: an invalid one, the result first, the context of the call or 20 s.
StartFails(f) ==
    /\ starter[f] = "waiting"
    /\ starter' = [starter EXCEPT ![f] = "failed"]
    /\ flow' = [flow EXCEPT ![f].timedOut = TRUE]
    /\ UNCHANGED <<row, worker, caller, owner, history, bounds>>

----------------------------------------------------------------------------
(* CompleteOAuth; the URL with the state is known once StartOAuth returned *)

\* The flow leaves the map with the first callback.
TakeFlow(c, f) ==
    /\ caller[c].at = "idle" /\ starter[f] = "returned"
    /\ caller' = [caller EXCEPT ![c] = [at |-> IF Pruned[f].listed THEN "sending" ELSE "returned",
                                        flow |-> f]]
    /\ flow' = [Pruned EXCEPT ![f].listed = FALSE]
    /\ UNCHANGED <<row, worker, starter, owner, history, bounds>>

SendCallback(c) ==
    /\ caller[c].at = "sending" /\ ~flow[caller[c].flow].callback
    /\ flow' = [flow EXCEPT ![caller[c].flow].callback = TRUE]
    /\ caller' = [caller EXCEPT ![c].at = "waiting"]
    /\ UNCHANGED <<row, worker, starter, owner, history, bounds>>

\* The result arrives; an error is written over whatever the status is by now.
ReadResult(c) ==
    LET f == caller[c].flow
    IN  /\ caller[c].at = "waiting" /\ flow[f].done # "open"
        /\ caller' = [caller EXCEPT ![c].at = IF flow[f].done = "ok" THEN "returned" ELSE "failing"]
        /\ flow' = [flow EXCEPT ![f].done = "open"]
        /\ UNCHANGED <<row, worker, starter, owner, history, bounds>>
CallerError(c) ==
    /\ caller[c].at = "failing"
    /\ caller' = [caller EXCEPT ![c].at = "returned"]
    /\ NoteStatus("error")
    /\ UNCHANGED <<worker, flow, starter, owner, history>>

\* The context of the call ends: the flow is cancelled.
CallerGivesUp(c) ==
    /\ caller[c].at \in {"sending", "waiting"}
    /\ caller' = [caller EXCEPT ![c].at = "returned"]
    /\ flow' = [flow EXCEPT ![caller[c].flow].timedOut = TRUE]
    /\ UNCHANGED <<row, worker, starter, owner, history, bounds>>

----------------------------------------------------------------------------
(* Probe *)

\* Refused when the connection is disabled.
Probe(p) ==
    /\ At(p, "idle")
    /\ late' = IF owner = "returned" THEN late \cup {p} ELSE late
    /\ worker' = [worker EXCEPT ![p].at = IF row.status = "disabled" THEN "ended" ELSE "loading"]
    /\ UNCHANGED <<row, flow, starter, caller, owner, proved, open, bounds>>

\* Without a stored credential the call returns its error and leaves the status.
LoadCredential(p) ==
    /\ At(p, "loading")
    /\ worker' = [worker EXCEPT ![p].at = IF row.cred THEN "token" ELSE "ended"]
    /\ UNCHANGED <<row, flow, starter, caller, owner, history, bounds>>

ProbeError(p) ==
    /\ At(p, "failing")
    /\ worker' = [worker EXCEPT ![p].at = "ended"]
    /\ NoteStatus("error")
    /\ UNCHANGED <<flow, starter, caller, owner, history>>

----------------------------------------------------------------------------
(* Disable *)

Disable ==
    /\ owner = "idle"
    /\ \/ SetStatus("disabled") /\ Written /\ owner' = "cancelling"
       \/ UNCHANGED row /\ Faulty /\ owner' = "idle"
    /\ UNCHANGED <<worker, flow, starter, caller, history>>

\* cancelFlowsForConnection
\* (Mutation: the flows are left to expire.)
CancelFlowsLeft ==
    /\ owner = "cancelling"
    /\ owner' = "returned"
    /\ flow' = [f \in Flows |-> [flow[f] EXCEPT !.killed = @ \/ flow[f].listed]]
    /\ UNCHANGED <<row, worker, starter, caller, history, bounds>>
CancelFlows ==
    /\ owner = "cancelling"
    /\ owner' = "returned"
    /\ flow' = [f \in Flows |->
                 IF flow[f].listed
                 THEN [flow[f] EXCEPT !.listed = FALSE, !.timedOut = TRUE, !.killed = TRUE]
                 ELSE flow[f]]
    /\ UNCHANGED <<row, worker, starter, caller, history, bounds>>

----------------------------------------------------------------------------
(* Time and crashes *)

\* The flow's context ends a moment before its entry expires.
Timeout(f) ==
    /\ worker[f].at # "idle" /\ ~flow[f].timedOut
    /\ flow' = [flow EXCEPT ![f].timedOut = TRUE]
    /\ UNCHANGED <<row, worker, starter, caller, owner, history, bounds>>
Expire(f) ==
    /\ flow[f].timedOut /\ flow[f].listed /\ ~flow[f].expired
    /\ flow' = [flow EXCEPT ![f].expired = TRUE]
    /\ UNCHANGED <<row, worker, starter, caller, owner, history, bounds>>

\* A restart loses every flow and every call; the row stays.
Crash ==
    /\ crashes < MaxCrashes /\ crashes' = crashes + 1
    /\ \E w \in Workers : worker[w].at \notin {"idle", "ended"}
    /\ worker' = [w \in Workers |-> IF At(w, "idle") THEN worker[w]
                                    ELSE [worker[w] EXCEPT !.at = "ended"]]
    /\ flow' = [f \in Flows |-> [flow[f] EXCEPT !.listed = FALSE, !.callback = FALSE]]
    /\ starter' = [f \in Flows |-> IF starter[f] = "idle" THEN "idle" ELSE "failed"]
    /\ caller' = [c \in Callers |-> IF caller[c].at = "idle" THEN caller[c]
                                    ELSE [caller[c] EXCEPT !.at = "returned"]]
    /\ owner' = IF owner = "cancelling" THEN "returned" ELSE owner
    /\ UNCHANGED <<row, history, faults>>

----------------------------------------------------------------------------

\* Create
Init ==
    /\ row = [status |-> "pending_authorization", cred |-> FALSE]
    /\ worker = [w \in Workers |-> IdleWorker]
    /\ flow = [f \in Flows |-> NewFlow]
    /\ starter = [f \in Flows |-> "idle"]
    /\ caller = [c \in Callers |-> NoCall]
    /\ owner = "idle"
    /\ late = {} /\ proved = {} /\ open = {}
    /\ faults = 0 /\ crashes = 0

Work(w) ==
    \/ w \in Flows /\ (Connect(w) \/ TakeCallback(w) \/ SaveCredential(w))
    \/ w \in Probes /\ (LoadCredential(w) \/ ProbeError(w))
    \/ Token(w) \/ Call(w) \/ RecordInvocation(w) \/ RecordCatalog(w)
    \/ Fails(w) \/ StatementFails(w)
Complete(c) ==
    \/ SendCallback(c) \/ ReadResult(c) \/ CallerError(c)

Next ==
    \/ \E w \in Workers : Work(w)
    \/ \E f \in Flows : StartOAuth(f) \/ Publish(f) \/ Authorizing(f) \/ StartFails(f)
                        \/ Timeout(f) \/ Expire(f)
    \/ \E c \in Callers : Complete(c) \/ CallerGivesUp(c) \/ \E f \in Flows : TakeFlow(c, f)
    \/ \E p \in Probes : Probe(p)
    \/ Disable \/ CancelFlows \/ Crash

\* Every request has a timeout, and so has the flow; calls run to their end.
Spec == /\ Init /\ [][Next]_vars
        /\ \A w \in Workers : WF_vars(Work(w))
        /\ \A f \in Flows : WF_vars(Timeout(f)) /\ WF_vars(Publish(f) \/ StartFails(f))
                            /\ WF_vars(Authorizing(f))
        /\ \A c \in Callers : WF_vars(Complete(c))

----------------------------------------------------------------------------
(* Properties *)

\* Every variable holds a value of its type.
TypeOK ==
    /\ row \in [status : Statuses, cred : BOOLEAN]
    /\ worker \in [Workers -> Worker] /\ flow \in [Flows -> Flow]
    /\ starter \in [Flows -> {"idle", "waiting", "published", "returned", "failed"}]
    /\ caller \in [Callers -> [at : {"idle", "sending", "waiting", "failing", "returned"},
                               flow : Flows \cup {NoFlow}]]
    /\ owner \in {"idle", "cancelling", "returned"}
    /\ late \subseteq Probes /\ proved \subseteq Workers /\ open \subseteq Flows
    /\ faults \in 0..MaxFaults /\ crashes \in 0..MaxCrashes

\* "Healthy" is never a claim without its proof, whatever failed, crashed or ran
\* beside it: an identity call has been recorded as successful, and a credential
\* is stored unless the provider never asked for one.
HealthyIsBacked == row.status = "healthy" => proved # {} /\ (row.cred \/ open # {})

\* An authorization that was waiting for its callback when the connection was
\* disabled never obtains a token, although the callback may arrive later.
DisabledFlowIsDead == \A f \in Flows : flow[f].killed => ~worker[f].token

\* Every authorization goroutine ends and every CompleteOAuth returns, also when
\* the other side has given up.
FlowEnds ==
    /\ \A f \in Flows : worker[f].at # "idle" ~> At(f, "ended")
    /\ \A c \in Callers : caller[c].at # "idle" ~> caller[c].at = "returned"

\* A disabled connection refuses "every later probe ... before an upstream call":
\* a probe that begins after Disable returned gets no token.
LaterProbesRefused == \A p \in late : ~worker[p].token
=============================================================================
