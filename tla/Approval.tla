------------------------------ MODULE Approval ------------------------------
(***************************************************************************)
(* Sign-off through the shared approvals database (internal/approval:      *)
(* persistent_gate.go, manager.go): the agent's process files a request    *)
(* and polls its row; operators resolve the row from other processes, and  *)
(* ExpireRequests and CheckApproval expire it.                             *)
(*                                                                         *)
(* Every database statement is one step, so anything can happen between    *)
(* the read of a row, the write of its status and the insertion of the     *)
(* decision; any statement may fail and any process may die between two of *)
(* them.  approval_decisions.request_id is UNIQUE: a second insertion for  *)
(* a request fails.  Time is one bit per request: its expires_at is past.  *)
(***************************************************************************)
EXTENDS Naturals

CONSTANTS
    Requests,   \* the requests the agents file, one tool call each
    Actors,     \* the processes that resolve, expire or check requests
    Risk,       \* Risk[r]: the escalated risk level of the tool call of r
    Policies,   \* the policies getApplicablePolicy can find
    Ops         \* the calls the actors make

Resolutions == {"approve", "reject", "cancel"}

ASSUME ApprovalAssumption ==
    /\ Risk \in [Requests -> 0 .. 3]
    /\ \A p \in Policies :
          /\ p.mode \in {"always_ask", "auto_approve", "risk_based", "session_trust"}
          /\ p.level \in 0 .. 3
          /\ p.always \subseteq Requests
          /\ p.trusted \subseteq Requests
    /\ Ops \subseteq Resolutions \cup {"expire", "check"}

VARIABLES
    row,       \* the status of each request's row, "absent" before it is filed
    due,       \* its expires_at is set and past
    decision,  \* the decision recorded for each request, or "none"
    gate,      \* where the agent's call to the gate is
    outcome,   \* what the call returned
    actor,     \* the call each actor is in
    won        \* history: which resolutions UpdateRequestStatus accepted

vars == <<row, due, decision, gate, outcome, actor, won>>

Idle == [at |-> "idle"]

Init ==
    /\ row = [r \in Requests |-> "absent"]
    /\ due = [r \in Requests |-> FALSE]
    /\ decision = [r \in Requests |-> "none"]
    /\ gate = [r \in Requests |-> "idle"]
    /\ outcome = [r \in Requests |-> "none"]
    /\ actor = [a \in Actors |-> Idle]
    /\ won = [r \in Requests |-> {}]

----------------------------------------------------------------------------
(* The repository *)

\* (Mutation: whatever is not a rejection counts as approved.)
IsApprovedUnlessRejected(status) == status # "rejected"

IsApproved(status) == status \in {"approved", "auto_approved"}

\* UpdateRequest: the status is written whatever the row holds by now.
UpdateRequest(r, status) == row' = [row EXCEPT ![r] = status]

\* (Mutation: the update is no longer conditional.)
MatchesAny(r) == row[r] # "absent"

\* The WHERE clause of UpdateRequestStatus, with RequestStatusPending.
Matches(r) == row[r] = "pending"

\* CreateDecision: the first decision of a request stays.
CreateDecision(r, status) ==
    decision' = [decision EXCEPT ![r] = IF @ = "none" THEN status ELSE @]

\* The status a call of the manager gives the request it has read.
StatusOf(op) ==
    CASE op = "approve" -> "approved"
      [] op = "reject" -> "rejected"
      [] op = "cancel" -> "cancelled"
      [] OTHER -> "expired"

----------------------------------------------------------------------------
(* The agent: PersistentGate.RequestApproval *)

\* shouldAutoApprove; trust is whether the session is trusted.
AutoApproves(p, r, trust) ==
    /\ r \notin p.always
    /\ \/ r \in p.trusted
       \/ p.mode = "auto_approve"
       \/ p.mode = "risk_based" /\ Risk[r] <= p.level
       \/ p.mode = "session_trust" /\ trust

Return(r, result) ==
    /\ gate' = [gate EXCEPT ![r] = "returned"]
    /\ outcome' = [outcome EXCEPT ![r] = result]

\* The policy approves: the row is filed as decided.
FileAutoApproved(r) ==
    /\ gate[r] = "idle"
    /\ \E p \in Policies, trust \in BOOLEAN : AutoApproves(p, r, trust)
    /\ row' = [row EXCEPT ![r] = "auto_approved"]
    /\ gate' = [gate EXCEPT ![r] = "filed"]
    /\ UNCHANGED <<due, decision, outcome, actor, won>>

RecordAutoApproved(r) ==
    /\ gate[r] = "filed"
    /\ row[r] = "auto_approved"
    /\ CreateDecision(r, "auto_approved")
    /\ Return(r, "auto_approved")
    /\ UNCHANGED <<row, due, actor, won>>

\* There is no policy, or the policy does not approve.
FilePending(r) ==
    /\ gate[r] = "idle"
    /\ Policies # {} =>
          \E p \in Policies, trust \in BOOLEAN : ~ AutoApproves(p, r, trust)
    /\ row' = [row EXCEPT ![r] = "pending"]
    /\ gate' = [gate EXCEPT ![r] = "filed"]
    /\ UNCHANGED <<due, decision, outcome, actor, won>>

\* (Mutation: the whole request is written back, with the status it was filed with.)
ExtendStale(r) ==
    /\ gate[r] = "filed"
    /\ row[r] # "auto_approved"
    /\ UpdateRequest(r, "pending")
    /\ due' = [due EXCEPT ![r] = FALSE]
    /\ gate' = [gate EXCEPT ![r] = "waiting"]
    /\ UNCHANGED <<decision, outcome, actor, won>>

\* ExtendRequestExpiration; a row already decided is a conflict, and ignored.
Extend(r) ==
    /\ gate[r] = "filed"
    /\ row[r] # "auto_approved"
    /\ due' = IF Matches(r) THEN [due EXCEPT ![r] = FALSE] ELSE due
    /\ gate' = [gate EXCEPT ![r] = "waiting"]
    /\ UNCHANGED <<row, decision, outcome, actor, won>>

\* A tick of WaitForApproval that reads a decided row.
PollDecided(r) ==
    /\ gate[r] = "waiting"
    /\ row[r] # "pending"
    /\ Return(r, IF IsApproved(row[r]) THEN "approved" ELSE "rejected")
    /\ UNCHANGED <<row, due, decision, actor, won>>

\* A tick that reads a pending row whose time is over.
PollExpired(r) ==
    /\ gate[r] = "waiting"
    /\ row[r] = "pending"
    /\ due[r]
    /\ gate' = [gate EXCEPT ![r] = "expiring"]
    /\ UNCHANGED <<row, due, decision, outcome, actor, won>>

\* WaitForApproval then writes "expired"; an error is ignored.
WriteExpired(r) ==
    /\ gate[r] = "expiring"
    /\ UpdateRequest(r, "expired") \/ UNCHANGED row
    /\ gate' = [gate EXCEPT ![r] = "recording"]
    /\ UNCHANGED <<due, decision, outcome, actor, won>>

RecordExpired(r) ==
    /\ gate[r] = "recording"
    /\ CreateDecision(r, "expired") \/ UNCHANGED decision
    /\ Return(r, "rejected")
    /\ UNCHANGED <<row, due, actor, won>>

\* (Mutation: the wait looks at its deadline only when the row is decided.)
TimeoutDecided(r) ==
    /\ gate[r] = "waiting"
    /\ row[r] # "pending"
    /\ Return(r, "expired")
    /\ UNCHANGED <<row, due, decision, actor, won>>

\* The wait or its caller's context is over.
Timeout(r) ==
    /\ gate[r] = "waiting"
    /\ Return(r, "expired")
    /\ UNCHANGED <<row, due, decision, actor, won>>

\* A statement fails that is not ignored: the call returns an error.
GateFails(r) ==
    /\ gate[r] \in {"idle", "filed", "waiting"}
    /\ Return(r, "error")
    /\ UNCHANGED <<row, due, decision, actor, won>>

\* The agent's process dies in the call.
AgentDies(r) ==
    /\ gate[r] \in {"filed", "waiting", "expiring", "recording"}
    /\ gate' = [gate EXCEPT ![r] = "dead"]
    /\ UNCHANGED <<row, due, decision, outcome, actor, won>>

\* expires_at passes.  Only a policy or Extend has set it.
TimePasses(r) ==
    /\ row[r] # "absent"
    /\ Policies # {} \/ gate[r] \notin {"idle", "filed"}
    /\ due' = [due EXCEPT ![r] = TRUE]
    /\ UNCHANGED <<row, decision, gate, outcome, actor, won>>

----------------------------------------------------------------------------
(* The other processes *)

\* The request as it is read lets the call go on: a decided request is never
\* changed (ErrAlreadyDecided), an expired one neither approved nor rejected
\* (ErrRequestExpired), and only an expired one expired.
Readable(op, r) ==
    /\ row[r] = "pending"
    /\ op \in {"approve", "reject"} => ~ due[r]
    /\ op \in {"expire", "check"} => due[r]

\* Approve, Reject, Cancel, CheckApproval: read one request.
Read(a, op, r) ==
    /\ actor[a].at = "idle"
    /\ op # "expire"
    /\ Readable(op, r)
    /\ actor' = [actor EXCEPT ![a] =
                    [at |-> "write", op |-> op, request |-> r, rest |-> {}]]
    /\ UNCHANGED <<row, due, decision, gate, outcome, won>>

\* ExpireRequests: list the pending requests whose time is over.
ListExpired(a) ==
    /\ actor[a].at = "idle"
    /\ "expire" \in Ops
    /\ LET expired == {r \in Requests : Readable("expire", r)}
       IN  \E r \in expired :
             actor' = [actor EXCEPT ![a] =
                          [at |-> "write", op |-> "expire", request |-> r,
                           rest |-> expired \ {r}]]
    /\ UNCHANGED <<row, due, decision, gate, outcome, won>>

\* The call is over, or ExpireRequests goes on with another request.
MoveOn(a) ==
    actor' \in {[actor EXCEPT ![a] = next] : next \in
        IF actor[a].rest = {} THEN {Idle}
        ELSE {[actor[a] EXCEPT !.at = "write", !.request = r,
                               !.rest = actor[a].rest \ {r}] : r \in actor[a].rest}}

\* (Mutation: that no row was updated goes unnoticed.)
WriteIfPendingUnchecked(a) ==
    /\ actor[a].at = "write"
    /\ actor[a].op \in Resolutions
    /\ LET r == actor[a].request
       IN  IF Matches(r)
           THEN /\ row' = [row EXCEPT ![r] = StatusOf(actor[a].op)]
                /\ won' = [won EXCEPT ![r] = @ \cup {actor[a].op}]
           ELSE UNCHANGED <<row, won>>
    /\ actor' = [actor EXCEPT ![a].at = "record"]
    /\ UNCHANGED <<due, decision, gate, outcome>>

\* UpdateRequestStatus: approvals, rejections and cancellations.
WriteIfPending(a) ==
    /\ actor[a].at = "write"
    /\ actor[a].op \in Resolutions
    /\ LET r == actor[a].request
       IN  IF Matches(r)
           THEN /\ row' = [row EXCEPT ![r] = StatusOf(actor[a].op)]
                /\ won' = [won EXCEPT ![r] = @ \cup {actor[a].op}]
                /\ actor' = [actor EXCEPT ![a].at = "record"]
           ELSE /\ MoveOn(a)
                /\ UNCHANGED <<row, won>>
    /\ UNCHANGED <<due, decision, gate, outcome>>

\* UpdateRequest: ExpireRequests, and CheckApproval, which records nothing.
Write(a) ==
    /\ actor[a].at = "write"
    /\ actor[a].op \notin Resolutions
    /\ UpdateRequest(actor[a].request, "expired")
    /\ IF actor[a].op = "check" THEN MoveOn(a)
       ELSE actor' = [actor EXCEPT ![a].at = "record"]
    /\ UNCHANGED <<due, decision, gate, outcome, won>>

Record(a) ==
    /\ actor[a].at = "record"
    /\ CreateDecision(actor[a].request, StatusOf(actor[a].op))
    /\ MoveOn(a)
    /\ UNCHANGED <<row, due, gate, outcome, won>>

\* A statement fails: that request is over.
StatementFails(a) ==
    /\ actor[a].at # "idle"
    /\ MoveOn(a)
    /\ UNCHANGED <<row, due, decision, gate, outcome, won>>

\* The process dies; another may come.
ActorDies(a) ==
    /\ actor[a].at # "idle"
    /\ actor' = [actor EXCEPT ![a] = Idle]
    /\ UNCHANGED <<row, due, decision, gate, outcome, won>>

----------------------------------------------------------------------------
GateStep(r) ==
    \/ FileAutoApproved(r) \/ RecordAutoApproved(r) \/ FilePending(r)
    \/ Extend(r) \/ PollDecided(r) \/ PollExpired(r) \/ WriteExpired(r)
    \/ RecordExpired(r) \/ Timeout(r)

ActorStep(a) ==
    \/ \E op \in Ops, r \in Requests : Read(a, op, r)
    \/ ListExpired(a) \/ WriteIfPending(a) \/ Write(a) \/ Record(a)
    \/ StatementFails(a)

Next ==
    \/ \E r \in Requests :
          GateStep(r) \/ GateFails(r) \/ AgentDies(r) \/ TimePasses(r)
    \/ \E a \in Actors : ActorStep(a) \/ ActorDies(a)

Spec == Init /\ [][Next]_vars

\* A call that has begun goes on: a Go context with a deadline ends, and
\* statements return.  Nothing makes an operator act.
FairSpec ==
    /\ Spec
    /\ \A r \in Requests : WF_vars(gate[r] # "idle" /\ GateStep(r))

----------------------------------------------------------------------------
(* Properties *)

Statuses == {"pending", "approved", "rejected", "auto_approved", "expired", "cancelled"}

Calls == {Idle} \cup
    [at : {"write", "record"}, op : Ops, request : Requests, rest : SUBSET Requests]

\* Every variable holds a value of its type; a call in progress names requests
\* that exist.
TypeOK ==
    /\ row \in [Requests -> {"absent"} \cup Statuses]
    /\ due \in [Requests -> BOOLEAN]
    /\ decision \in [Requests -> {"none"} \cup (Statuses \ {"pending"})]
    /\ gate \in [Requests -> {"idle", "filed", "waiting", "expiring", "recording",
                              "returned", "dead"}]
    /\ outcome \in [Requests -> {"none", "auto_approved", "approved", "rejected",
                                 "expired", "error"}]
    /\ actor \in [Actors -> Calls]
    /\ won \in [Requests -> SUBSET Resolutions]

\* UpdateRequestStatus: of several operators who resolve a request at the same
\* time in different ways, at most one is told that it worked.
OneWinner == \A r \in Requests : \A x, y \in won[r] : x = y

\* RequestToolApproval lets the tool call proceed only if a policy approved it
\* or an operator's approval reached the row.
RunsOnlyApproved ==
    \A r \in Requests :
        /\ outcome[r] = "approved" => "approve" \in won[r]
        /\ outcome[r] = "auto_approved" => decision[r] = "auto_approved"

\* A request whose recorded decision is a rejection or a cancellation is not
\* and will not be run, whatever expires or retries in between.
DeniedNeverRuns ==
    \A r \in Requests :
        decision[r] \in {"rejected", "cancelled"} =>
            outcome[r] \notin {"approved", "auto_approved"}

\* A decided row changes only when an expiry that had read it as pending
\* overtakes the decision; no operator changes another's decision.
OnlyExpiryOverwrites ==
    [][\A r \in Requests :
          row[r] \notin {"absent", "pending"} =>
              row'[r] = row[r] \/ (row'[r] = "expired" /\ row[r] # "auto_approved")]_vars

\* The call of the agent ends although nobody resolves the request.
WaitEnds ==
    \A r \in Requests : gate[r] = "filed" ~> gate[r] \in {"returned", "dead"}

\* "Never write stale status over an operator decision" (persistent_gate.go),
\* TestPersistentGateStaleWritesCannotReplaceOperatorDecision.
OperatorDecisionStands ==
    [][\A r \in Requests :
          row[r] \in {"approved", "rejected"} => row'[r] = row[r]]_vars

\* "Approval decisions table records the final decision for each request"
\* (schema.go): once nobody is in a call any more, a tool call that an operator
\* approved has that decision on record.
RunsAreRecorded ==
    (\A a \in Actors : actor[a].at = "idle") =>
        \A r \in Requests : outcome[r] = "approved" => decision[r] = "approved"
=============================================================================
