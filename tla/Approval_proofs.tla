-------------------------- MODULE Approval_proofs ---------------------------
(***************************************************************************)
(* Proofs about Approval, for any number of requests, processes and        *)
(* policies, with every statement able to fail and every process to die.   *)
(*                                                                         *)
(* OneWinner and DeniedNeverRuns are not inductive.  Signed adds what ties *)
(* the four places that know of a request together: a row nobody decided   *)
(* has no winner, an approved row has an approval that won, a process      *)
(* about to record a resolution is one that won it, a recorded rejection   *)
(* or cancellation won, and an automatically approved row is one that no   *)
(* process ever read as pending, so none is about to overwrite it.         *)
(***************************************************************************)
EXTENDS Approval, TLAPS

\* What holds of one request.
RequestInv(r) ==
    /\ gate[r] = "idle" => row[r] = "absent"
    /\ gate[r] = "filed" => row[r] # "absent"
    /\ gate[r] \in {"waiting", "expiring", "recording"} =>
          row[r] \notin {"absent", "auto_approved"}
    /\ row[r] \in {"absent", "pending", "auto_approved"} => won[r] = {}
    /\ row[r] = "approved" => "approve" \in won[r]
    /\ row[r] = "absent" => decision[r] = "none"
    /\ row[r] = "auto_approved" => decision[r] \in {"none", "auto_approved"}
    /\ decision[r] = "rejected" => "reject" \in won[r]
    /\ decision[r] = "cancelled" => "cancel" \in won[r]
    /\ outcome[r] = "approved" => "approve" \in won[r]
    /\ outcome[r] = "auto_approved" => decision[r] = "auto_approved"
    /\ \A x, y \in won[r] : x = y

\* What holds of a process in the middle of a call.
ActorInv(a) ==
    actor[a].at # "idle" =>
        /\ \A r \in {actor[a].request} \cup actor[a].rest :
              row[r] \notin {"absent", "auto_approved"}
        /\ (actor[a].at = "record" /\ actor[a].op \in Resolutions) =>
              actor[a].op \in won[actor[a].request]

Signed ==
    /\ \A r \in Requests : RequestInv(r)
    /\ \A a \in Actors : ActorInv(a)

----------------------------------------------------------------------------
(* Types *)

\* A call in progress is a record with all its fields.
LEMMA BusyCall ==
    ASSUME NEW c \in Calls, c.at # "idle"
    PROVE  /\ c \in [at : {"write", "record"}, op : Ops, request : Requests,
                     rest : SUBSET Requests]
           /\ c.at \in {"write", "record"}
           /\ c.op \in Ops
           /\ c.request \in Requests
           /\ c.rest \subseteq Requests
  BY DEF Calls, Idle

\* MoveOn ends the call or goes on with a request that was in its list.
LEMMA MovesOn ==
    ASSUME actor \in [Actors -> Calls], NEW a \in Actors, actor[a].at # "idle",
           MoveOn(a)
    PROVE  \E next \in Calls :
              /\ actor' = [actor EXCEPT ![a] = next]
              /\ \/ next = Idle
                 \/ /\ next.at = "write"
                    /\ next.request \in actor[a].rest
                    /\ next.rest \subseteq actor[a].rest
  <1>1. actor[a] \in [at : {"write", "record"}, op : Ops, request : Requests,
                      rest : SUBSET Requests]
    BY BusyCall
  <1>2. CASE actor[a].rest = {}
    <2>1. actor' = [actor EXCEPT ![a] = Idle]
      BY <1>2 DEF MoveOn
    <2>. QED  BY <2>1 DEF Calls
  <1>3. CASE actor[a].rest # {}
    <2>1. PICK r \in actor[a].rest :
             actor' = [actor EXCEPT ![a] =
                 [actor[a] EXCEPT !.at = "write", !.request = r,
                                  !.rest = actor[a].rest \ {r}]]
      BY <1>3 DEF MoveOn
    <2>. DEFINE next == [actor[a] EXCEPT !.at = "write", !.request = r,
                                         !.rest = actor[a].rest \ {r}]
    <2>2. /\ next \in Calls
          /\ next.at = "write"
          /\ next.request \in actor[a].rest
          /\ next.rest \subseteq actor[a].rest
      BY <1>1 DEF Calls
    <2>. QED  BY <2>1, <2>2
  <1>. QED  BY <1>2, <1>3

\* The status of a call is one a decided row and a decision can have.
LEMMA StatusOfOp ==
    ASSUME NEW op
    PROVE  /\ StatusOf(op) \in Statuses \ {"pending"}
           /\ StatusOf(op) # "auto_approved"
           /\ op \in Resolutions => StatusOf(op) # "expired"
           /\ StatusOf(op) = "approved" => op = "approve"
           /\ StatusOf(op) = "rejected" => op = "reject"
           /\ StatusOf(op) = "cancelled" => op = "cancel"
           /\ op \notin Resolutions => StatusOf(op) = "expired"
  BY DEF StatusOf, Statuses, Resolutions

\* Before any request is filed.
LEMMA InitTypes == Init => TypeOK
  BY DEF Init, TypeOK, Calls

\* Each action keeps the types.
LEMMA NextTypes == TypeOK /\ [Next]_vars => TypeOK'
  <1>. SUFFICES ASSUME TypeOK, [Next]_vars
                PROVE  TypeOK'
    OBVIOUS
  <1>. USE DEF TypeOK
  <1>1. ASSUME NEW r \in Requests, GateStep(r)
        PROVE  TypeOK'
    <2>1. CASE FileAutoApproved(r)
      BY <2>1 DEF FileAutoApproved, Statuses
    <2>2. CASE RecordAutoApproved(r)
      BY <2>2 DEF RecordAutoApproved, CreateDecision, Return, Statuses
    <2>3. CASE FilePending(r)
      BY <2>3 DEF FilePending, Statuses
    <2>4. CASE Extend(r)
      BY <2>4 DEF Extend
    <2>5. CASE PollDecided(r)
      BY <2>5 DEF PollDecided, Return
    <2>6. CASE PollExpired(r)
      BY <2>6 DEF PollExpired
    <2>7. CASE WriteExpired(r)
      BY <2>7 DEF WriteExpired, UpdateRequest, Statuses
    <2>8. CASE RecordExpired(r)
      BY <2>8 DEF RecordExpired, CreateDecision, Return, Statuses
    <2>9. CASE Timeout(r)
      BY <2>9 DEF Timeout, Return
    <2>. QED  BY <1>1, <2>1, <2>2, <2>3, <2>4, <2>5, <2>6, <2>7, <2>8, <2>9 DEF GateStep
  <1>2. ASSUME NEW r \in Requests, GateFails(r) \/ AgentDies(r)
        PROVE  TypeOK'
    BY <1>2 DEF GateFails, AgentDies, Return
  <1>3. ASSUME NEW r \in Requests, TimePasses(r)
        PROVE  TypeOK'
    BY <1>3 DEF TimePasses
  <1>4. ASSUME NEW a \in Actors, ActorStep(a)
        PROVE  TypeOK'
    <2>1. ASSUME NEW op \in Ops, NEW r \in Requests, Read(a, op, r)
          PROVE  TypeOK'
      <3>1. [at |-> "write", op |-> op, request |-> r, rest |-> {}] \in Calls
        BY DEF Calls
      <3>. QED  BY <2>1, <3>1 DEF Read
    <2>2. CASE ListExpired(a)
      <3>1. PICK r \in {x \in Requests : Readable("expire", x)} :
               actor' = [actor EXCEPT ![a] =
                   [at |-> "write", op |-> "expire", request |-> r,
                    rest |-> {x \in Requests : Readable("expire", x)} \ {r}]]
        BY <2>2 DEF ListExpired
      <3>2. [at |-> "write", op |-> "expire", request |-> r,
             rest |-> {x \in Requests : Readable("expire", x)} \ {r}] \in Calls
        BY <2>2 DEF Calls, ListExpired
      <3>. QED  BY <2>2, <3>1, <3>2 DEF ListExpired
    <2>3. CASE WriteIfPending(a)
      <3>. DEFINE r == actor[a].request
      <3>1. actor[a] \in [at : {"write", "record"}, op : Ops, request : Requests,
                          rest : SUBSET Requests]
        BY <2>3, BusyCall DEF WriteIfPending
      <3>2. CASE Matches(r)
        <4>1. [actor[a] EXCEPT !.at = "record"] \in Calls
          BY <3>1 DEF Calls
        <4>2. actor' = [actor EXCEPT ![a] = [actor[a] EXCEPT !.at = "record"]]
          BY <2>3, <3>2 DEF WriteIfPending
        <4>3. actor' \in [Actors -> Calls]
          BY <4>1, <4>2
        <4>4. row' \in [Requests -> {"absent"} \cup Statuses]
          BY <2>3, <3>1, <3>2, StatusOfOp DEF WriteIfPending
        <4>5. won' \in [Requests -> SUBSET Resolutions]
          BY <2>3, <3>1, <3>2 DEF WriteIfPending
        <4>. QED  BY <2>3, <4>3, <4>4, <4>5 DEF WriteIfPending
      <3>3. CASE ~ Matches(r)
        BY <2>3, <3>3, MovesOn DEF WriteIfPending
      <3>. QED  BY <3>2, <3>3
    <2>4. CASE Write(a)
      <3>1. actor[a] \in [at : {"write", "record"}, op : Ops, request : Requests,
                          rest : SUBSET Requests]
        BY <2>4, BusyCall DEF Write
      <3>2. row' \in [Requests -> {"absent"} \cup Statuses]
        BY <2>4, <3>1 DEF Write, UpdateRequest, Statuses
      <3>3. actor' \in [Actors -> Calls]
        <4>1. CASE actor[a].op = "check"
          BY <2>4, <4>1, MovesOn DEF Write
        <4>2. CASE actor[a].op # "check"
          <5>1. [actor[a] EXCEPT !.at = "record"] \in Calls
            BY <3>1 DEF Calls
          <5>2. actor' = [actor EXCEPT ![a] = [actor[a] EXCEPT !.at = "record"]]
            BY <2>4, <4>2 DEF Write
          <5>. QED  BY <5>1, <5>2
        <4>. QED  BY <4>1, <4>2
      <3>. QED  BY <2>4, <3>2, <3>3 DEF Write
    <2>5. CASE Record(a)
      <3>1. actor' \in [Actors -> Calls]
        BY <2>5, MovesOn DEF Record
      <3>2. decision' \in [Requests -> {"none"} \cup (Statuses \ {"pending"})]
        BY <2>5, StatusOfOp DEF Record, CreateDecision
      <3>. QED  BY <2>5, <3>1, <3>2 DEF Record
    <2>6. CASE StatementFails(a)
      BY <2>6, MovesOn DEF StatementFails
    <2>. QED  BY <1>4, <2>1, <2>2, <2>3, <2>4, <2>5, <2>6 DEF ActorStep
  <1>5. ASSUME NEW a \in Actors, ActorDies(a)
        PROVE  TypeOK'
    BY <1>5 DEF ActorDies, Calls
  <1>6. CASE UNCHANGED vars
    BY <1>6 DEF vars
  <1>. QED  BY <1>1, <1>2, <1>3, <1>4, <1>5, <1>6 DEF Next

\* Every reachable state has the types of TypeOK: in particular a process that
\* goes on with its list only ever names requests that exist.
THEOREM TypeCorrect == Spec => []TypeOK
  <1>1. Init => TypeOK
    BY InitTypes
  <1>2. TypeOK /\ [Next]_vars => TypeOK'
    BY NextTypes
  <1>. QED  BY <1>1, <1>2, PTL DEF Spec

----------------------------------------------------------------------------
(* Resolutions *)

\* Before any request is filed nobody has won anything.
LEMMA InitSigned == Init => Signed
  BY DEF Init, Signed, RequestInv, ActorInv, Idle

\* A step of the agent changes its own request only, and takes no row that
\* another process is about to write back to absent or to auto_approved.
LEMMA GateSigned ==
    ASSUME TypeOK, Signed, NEW r \in Requests,
           GateStep(r) \/ GateFails(r) \/ AgentDies(r) \/ TimePasses(r)
    PROVE  Signed'
  <1>. USE DEF TypeOK, Signed
  <1>1. CASE FileAutoApproved(r)
    <2>1. row[r] = "absent" /\ won[r] = {} /\ decision[r] = "none"
      BY <1>1 DEF FileAutoApproved, RequestInv
    <2>2. ASSUME NEW q \in Requests  PROVE RequestInv(q)'
      BY <1>1, <2>1 DEF FileAutoApproved, RequestInv
    <2>3. ASSUME NEW a \in Actors  PROVE ActorInv(a)'
      BY <1>1, <2>1 DEF FileAutoApproved, ActorInv
    <2>. QED  BY <2>2, <2>3
  <1>2. CASE RecordAutoApproved(r)
    <2>1. ASSUME NEW q \in Requests  PROVE RequestInv(q)'
      BY <1>2 DEF RecordAutoApproved, CreateDecision, Return, RequestInv
    <2>2. ASSUME NEW a \in Actors  PROVE ActorInv(a)'
      BY <1>2 DEF RecordAutoApproved, ActorInv
    <2>. QED  BY <2>1, <2>2
  <1>3. CASE FilePending(r)
    <2>1. row[r] = "absent" /\ won[r] = {} /\ decision[r] = "none"
      BY <1>3 DEF FilePending, RequestInv
    <2>2. ASSUME NEW q \in Requests  PROVE RequestInv(q)'
      BY <1>3, <2>1 DEF FilePending, RequestInv
    <2>3. ASSUME NEW a \in Actors  PROVE ActorInv(a)'
      BY <1>3, <2>1 DEF FilePending, ActorInv
    <2>. QED  BY <2>2, <2>3
  <1>4. CASE Extend(r)
    <2>1. ASSUME NEW q \in Requests  PROVE RequestInv(q)'
      BY <1>4 DEF Extend, RequestInv
    <2>2. ASSUME NEW a \in Actors  PROVE ActorInv(a)'
      BY <1>4 DEF Extend, ActorInv
    <2>. QED  BY <2>1, <2>2
  <1>5. CASE PollDecided(r)
    <2>1. ASSUME NEW q \in Requests  PROVE RequestInv(q)'
      BY <1>5 DEF PollDecided, IsApproved, Return, RequestInv
    <2>2. ASSUME NEW a \in Actors  PROVE ActorInv(a)'
      BY <1>5 DEF PollDecided, ActorInv
    <2>. QED  BY <2>1, <2>2
  <1>6. CASE PollExpired(r) \/ AgentDies(r)
    <2>1. ASSUME NEW q \in Requests  PROVE RequestInv(q)'
      BY <1>6 DEF PollExpired, AgentDies, RequestInv
    <2>2. ASSUME NEW a \in Actors  PROVE ActorInv(a)'
      BY <1>6 DEF PollExpired, AgentDies, ActorInv
    <2>. QED  BY <2>1, <2>2
  <1>7. CASE WriteExpired(r)
    <2>1. ASSUME NEW q \in Requests  PROVE RequestInv(q)'
      BY <1>7 DEF WriteExpired, UpdateRequest, RequestInv
    <2>2. ASSUME NEW a \in Actors  PROVE ActorInv(a)'
      <3>1. actor[a].at # "idle" =>
               actor[a].request \in Requests /\ actor[a].rest \subseteq Requests
        BY BusyCall
      <3>2. \A q \in Requests : row'[q] = row[q] \/ row'[q] = "expired"
        BY <1>7 DEF WriteExpired, UpdateRequest
      <3>. QED  BY <1>7, <3>1, <3>2 DEF WriteExpired, ActorInv
    <2>. QED  BY <2>1, <2>2
  <1>8. CASE RecordExpired(r)
    <2>1. ASSUME NEW q \in Requests  PROVE RequestInv(q)'
      BY <1>8 DEF RecordExpired, CreateDecision, Return, RequestInv
    <2>2. ASSUME NEW a \in Actors  PROVE ActorInv(a)'
      BY <1>8 DEF RecordExpired, ActorInv
    <2>. QED  BY <2>1, <2>2
  <1>9. CASE Timeout(r) \/ GateFails(r)
    <2>1. ASSUME NEW q \in Requests  PROVE RequestInv(q)'
      BY <1>9 DEF Timeout, GateFails, Return, RequestInv
    <2>2. ASSUME NEW a \in Actors  PROVE ActorInv(a)'
      BY <1>9 DEF Timeout, GateFails, ActorInv
    <2>. QED  BY <2>1, <2>2
  <1>10. CASE TimePasses(r)
    <2>1. ASSUME NEW q \in Requests  PROVE RequestInv(q)'
      BY <1>10 DEF TimePasses, RequestInv
    <2>2. ASSUME NEW a \in Actors  PROVE ActorInv(a)'
      BY <1>10 DEF TimePasses, ActorInv
    <2>. QED  BY <2>1, <2>2
  <1>. QED  BY <1>1, <1>2, <1>3, <1>4, <1>5, <1>6, <1>7, <1>8, <1>9, <1>10 DEF GateStep

\* A process that moves on keeps what is known of it and of the others, when
\* rows stay decided and winners stay winners.
LEMMA MoveOnSigned ==
    ASSUME TypeOK, Signed, NEW a \in Actors, actor[a].at # "idle", MoveOn(a),
           won' = won,
           \A r \in Requests :
              row[r] \notin {"absent", "auto_approved"} =>
                  row'[r] \notin {"absent", "auto_approved"}
    PROVE  \A b \in Actors : ActorInv(b)'
  <1>. SUFFICES ASSUME NEW b \in Actors
                PROVE  ActorInv(b)'
    OBVIOUS
  <1>1. PICK next \in Calls :
           /\ actor' = [actor EXCEPT ![a] = next]
           /\ \/ next = Idle
              \/ /\ next.at = "write"
                 /\ next.request \in actor[a].rest
                 /\ next.rest \subseteq actor[a].rest
    BY MovesOn DEF TypeOK
  <1>2. ActorInv(a) /\ ActorInv(b)
    BY DEF Signed
  <1>3. CASE b = a
    <2>1. actor'[b] = next
      BY <1>1, <1>3 DEF TypeOK
    <2>2. actor[a].rest \subseteq Requests
      BY BusyCall DEF TypeOK
    <2>. QED  BY <1>1, <1>2, <1>3, <2>1, <2>2 DEF ActorInv, Idle
  <1>4. CASE b # a
    <2>1. actor'[b] = actor[b]
      BY <1>1, <1>4 DEF TypeOK
    <2>2. actor[b].at # "idle" =>
             actor[b].request \in Requests /\ actor[b].rest \subseteq Requests
      BY BusyCall DEF TypeOK
    <2>. QED  BY <1>2, <2>1, <2>2 DEF ActorInv
  <1>. QED  BY <1>3, <1>4

\* A step of an operator, an expiry or a check keeps Signed: a conditional write
\* wins only a pending row, and a decision is recorded only by its winner.
LEMMA ActorSigned ==
    ASSUME TypeOK, Signed, NEW a \in Actors, ActorStep(a) \/ ActorDies(a)
    PROVE  Signed'
  <1>1. ASSUME NEW op \in Ops, NEW r \in Requests, Read(a, op, r)
        PROVE  Signed'
    <2>1. ASSUME NEW q \in Requests  PROVE RequestInv(q)'
      BY <1>1 DEF Read, RequestInv, Signed
    <2>2. ASSUME NEW b \in Actors  PROVE ActorInv(b)'
      BY <1>1 DEF Read, Readable, ActorInv, Signed, TypeOK
    <2>. QED  BY <2>1, <2>2 DEF Signed
  <1>2. CASE ListExpired(a)
    <2>1. PICK r \in {x \in Requests : Readable("expire", x)} :
             actor' = [actor EXCEPT ![a] =
                 [at |-> "write", op |-> "expire", request |-> r,
                  rest |-> {x \in Requests : Readable("expire", x)} \ {r}]]
      BY <1>2 DEF ListExpired
    <2>2. ASSUME NEW q \in Requests  PROVE RequestInv(q)'
      BY <1>2 DEF ListExpired, RequestInv, Signed
    <2>3. ASSUME NEW b \in Actors  PROVE ActorInv(b)'
      BY <1>2, <2>1 DEF ListExpired, Readable, ActorInv, Signed, TypeOK
    <2>. QED  BY <2>2, <2>3 DEF Signed
  <1>3. CASE WriteIfPending(a)
    <2>. DEFINE r == actor[a].request
                op == actor[a].op
    <2>1. /\ r \in Requests
          /\ op \in Resolutions
          /\ actor[a].at = "write"
      BY <1>3, BusyCall DEF WriteIfPending, TypeOK
    <2>2. CASE Matches(r)
      <3>1. /\ row[r] = "pending"
            /\ won[r] = {}
            /\ RequestInv(r)
        BY <2>1, <2>2 DEF Matches, Signed, RequestInv
      <3>2. /\ row' = [row EXCEPT ![r] = StatusOf(op)]
            /\ won' = [won EXCEPT ![r] = won[r] \cup {op}]
            /\ actor' = [actor EXCEPT ![a] = [actor[a] EXCEPT !.at = "record"]]
            /\ UNCHANGED <<due, decision, gate, outcome>>
        BY <1>3, <2>2 DEF WriteIfPending
      <3>3. row'[r] = StatusOf(op) /\ won'[r] = {op}
        BY <2>1, <3>1, <3>2 DEF TypeOK
      <3>4. ASSUME NEW q \in Requests  PROVE RequestInv(q)'
        <4>1. CASE q = r
          <5>1. /\ StatusOf(op) \in Statuses \ {"pending"}
                /\ StatusOf(op) # "auto_approved"
                /\ StatusOf(op) = "approved" => op = "approve"
            BY StatusOfOp
          <5>2. /\ decision[r] \notin {"rejected", "cancelled"}
                /\ outcome[r] # "approved"
            BY <3>1 DEF RequestInv
          <5>3. gate[r] # "idle"
            BY <3>1 DEF RequestInv
          <5>. QED  BY <3>1, <3>2, <3>3, <4>1, <5>1, <5>2, <5>3 DEF RequestInv, Statuses
        <4>2. CASE q # r
          <5>1. row'[q] = row[q] /\ won'[q] = won[q]
            BY <3>2, <4>2 DEF TypeOK
          <5>. QED  BY <3>2, <5>1 DEF RequestInv, Signed
        <4>. QED  BY <4>1, <4>2
      <3>5. ASSUME NEW b \in Actors  PROVE ActorInv(b)'
        <4>1. \A q \in Requests :
                 /\ row[q] \notin {"absent", "auto_approved"} =>
                       row'[q] \notin {"absent", "auto_approved"}
                 /\ won[q] \subseteq won'[q]
          BY <2>1, <3>2, StatusOfOp DEF TypeOK, Statuses
        <4>2. CASE b = a
          <5>1. actor'[b] = [actor[a] EXCEPT !.at = "record"]
            BY <3>2, <4>2 DEF TypeOK
          <5>2. actor[a] \in [at : {"write", "record"}, op : Ops, request : Requests,
                              rest : SUBSET Requests]
            BY <2>1, BusyCall DEF TypeOK
          <5>3. /\ actor'[b].request = r
                /\ actor'[b].op = op
                /\ actor'[b].rest = actor[a].rest
                /\ actor[a].rest \subseteq Requests
            BY <5>1, <5>2
          <5>4. \A q \in {r} \cup actor[a].rest :
                   row[q] \notin {"absent", "auto_approved"}
            BY <2>1 DEF Signed, ActorInv
          <5>. QED  BY <2>1, <3>3, <4>1, <5>3, <5>4 DEF ActorInv
        <4>3. CASE b # a
          <5>1. actor'[b] = actor[b]
            BY <3>2, <4>3 DEF TypeOK
          <5>2. actor[b].at # "idle" =>
                   actor[b].request \in Requests /\ actor[b].rest \subseteq Requests
            BY BusyCall DEF TypeOK
          <5>. QED  BY <4>1, <5>1, <5>2 DEF ActorInv, Signed
        <4>. QED  BY <4>2, <4>3
      <3>. QED  BY <3>4, <3>5 DEF Signed
    <2>3. CASE ~ Matches(r)
      <3>1. /\ MoveOn(a)
            /\ UNCHANGED <<row, won, due, decision, gate, outcome>>
        BY <1>3, <2>3 DEF WriteIfPending
      <3>2. \A b \in Actors : ActorInv(b)'
        BY <2>1, <3>1, MoveOnSigned
      <3>. QED  BY <3>1, <3>2 DEF Signed, RequestInv
    <2>. QED  BY <2>2, <2>3
  <1>4. CASE Write(a)
    <2>. DEFINE r == actor[a].request
    <2>1. /\ r \in Requests
          /\ actor[a].at = "write"
          /\ row[r] \notin {"absent", "auto_approved"}
      BY <1>4, BusyCall DEF Write, TypeOK, Signed, ActorInv
    <2>2. /\ row' = [row EXCEPT ![r] = "expired"]
          /\ UNCHANGED <<due, decision, gate, outcome, won>>
      BY <1>4 DEF Write, UpdateRequest
    <2>3. ASSUME NEW q \in Requests  PROVE RequestInv(q)'
      BY <2>1, <2>2 DEF RequestInv, Signed, TypeOK
    <2>4. \A q \in Requests :
             row[q] \notin {"absent", "auto_approved"} =>
                 row'[q] \notin {"absent", "auto_approved"}
      BY <2>1, <2>2 DEF TypeOK
    <2>5. \A b \in Actors : ActorInv(b)'
      <3>1. CASE actor[a].op = "check"
        <4>1. MoveOn(a)
          BY <1>4, <3>1 DEF Write
        <4>. QED  BY <2>1, <2>2, <2>4, <4>1, MoveOnSigned
      <3>2. CASE actor[a].op # "check"
        <4>1. actor' = [actor EXCEPT ![a] = [actor[a] EXCEPT !.at = "record"]]
          BY <1>4, <3>2 DEF Write
        <4>2. actor[a] \in [at : {"write", "record"}, op : Ops, request : Requests,
                            rest : SUBSET Requests]
          BY <2>1, BusyCall DEF TypeOK
        <4>3. actor[a].op \notin Resolutions
          BY <1>4 DEF Write
        <4>4. ASSUME NEW b \in Actors  PROVE ActorInv(b)'
          <5>1. CASE b = a
            <6>1. actor'[b] = [actor[a] EXCEPT !.at = "record"]
              BY <4>1, <5>1 DEF TypeOK
            <6>2. /\ actor'[b].request = r
                  /\ actor'[b].op = actor[a].op
                  /\ actor'[b].rest = actor[a].rest
                  /\ actor[a].rest \subseteq Requests
              BY <6>1, <4>2
            <6>3. \A q \in {r} \cup actor[a].rest :
                     row[q] \notin {"absent", "auto_approved"}
              BY <2>1 DEF Signed, ActorInv
            <6>. QED  BY <2>1, <2>4, <4>3, <6>2, <6>3 DEF ActorInv
          <5>2. CASE b # a
            <6>1. actor'[b] = actor[b]
              BY <4>1, <5>2 DEF TypeOK
            <6>2. actor[b].at # "idle" =>
                     actor[b].request \in Requests /\ actor[b].rest \subseteq Requests
              BY BusyCall DEF TypeOK
            <6>. QED  BY <2>2, <2>4, <6>1, <6>2 DEF ActorInv, Signed
          <5>. QED  BY <5>1, <5>2
        <4>. QED  BY <4>4
      <3>. QED  BY <3>1, <3>2
    <2>. QED  BY <2>3, <2>5 DEF Signed
  <1>5. CASE Record(a)
    <2>. DEFINE r == actor[a].request
                op == actor[a].op
    <2>1. /\ r \in Requests
          /\ actor[a].at = "record"
          /\ row[r] \notin {"absent", "auto_approved"}
          /\ op \in Resolutions => op \in won[r]
      BY <1>5, BusyCall DEF Record, TypeOK, Signed, ActorInv
    <2>2. /\ decision' = [decision EXCEPT ![r] =
                             IF decision[r] = "none" THEN StatusOf(op) ELSE decision[r]]
          /\ MoveOn(a)
          /\ UNCHANGED <<row, due, gate, outcome, won>>
      BY <1>5 DEF Record, CreateDecision
    <2>3. ASSUME NEW q \in Requests  PROVE RequestInv(q)'
      <3>1. CASE q = r
        <4>1. /\ StatusOf(op) = "rejected" => "reject" \in won[r]
              /\ StatusOf(op) = "cancelled" => "cancel" \in won[r]
          BY <2>1, StatusOfOp DEF Resolutions
        <4>2. RequestInv(r)
          BY <2>1 DEF Signed
        <4>3. decision'[r] = decision[r] \/ (decision[r] = "none" /\ decision'[r] = StatusOf(op))
          BY <2>1, <2>2 DEF TypeOK
        <4>. QED  BY <2>1, <2>2, <3>1, <4>1, <4>2, <4>3 DEF RequestInv
      <3>2. CASE q # r
        <4>1. decision'[q] = decision[q]
          BY <2>2, <3>2 DEF TypeOK
        <4>. QED  BY <2>2, <4>1 DEF RequestInv, Signed
      <3>. QED  BY <3>1, <3>2
    <2>4. \A b \in Actors : ActorInv(b)'
      BY <2>1, <2>2, MoveOnSigned
    <2>. QED  BY <2>3, <2>4 DEF Signed
  <1>6. CASE StatementFails(a)
    <2>1. /\ actor[a].at # "idle"
          /\ MoveOn(a)
          /\ UNCHANGED <<row, due, decision, gate, outcome, won>>
      BY <1>6 DEF StatementFails
    <2>2. \A b \in Actors : ActorInv(b)'
      BY <2>1, MoveOnSigned
    <2>. QED  BY <2>1, <2>2 DEF Signed, RequestInv
  <1>7. CASE ActorDies(a)
    <2>1. ASSUME NEW b \in Actors  PROVE ActorInv(b)'
      BY <1>7 DEF ActorDies, ActorInv, Signed, Idle, TypeOK
    <2>2. ASSUME NEW q \in Requests  PROVE RequestInv(q)'
      BY <1>7 DEF ActorDies, RequestInv, Signed
    <2>. QED  BY <2>1, <2>2 DEF Signed
  <1>. QED  BY <1>1, <1>2, <1>3, <1>4, <1>5, <1>6, <1>7 DEF ActorStep

\* Every step keeps Signed.
LEMMA NextSigned == TypeOK /\ Signed /\ [Next]_vars => Signed'
  <1>. SUFFICES ASSUME TypeOK, Signed, [Next]_vars
                PROVE  Signed'
    OBVIOUS
  <1>1. CASE Next
    BY <1>1, GateSigned, ActorSigned DEF Next
  <1>2. CASE UNCHANGED vars
    BY <1>2 DEF vars, Signed, RequestInv, ActorInv
  <1>. QED  BY <1>1, <1>2

\* Signed holds in every reachable state.
LEMMA SignedAlways == Spec => []Signed
  <1>1. Init => Signed
    BY InitSigned
  <1>2. TypeOK /\ Signed /\ [Next]_vars => Signed'
    BY NextSigned
  <1>. QED  BY <1>1, <1>2, TypeCorrect, PTL DEF Spec

\* UpdateRequestStatus: however many operators resolve a request at the same
\* time, no two different resolutions are both accepted.
THEOREM OneWinnerAlways == Spec => []OneWinner
  <1>1. Signed => OneWinner
    BY DEF Signed, RequestInv, OneWinner
  <1>. QED  BY <1>1, SignedAlways, PTL

\* RequestToolApproval: a tool call proceeds only on a policy's approval that
\* is on record or on an operator's approval that reached the row.
THEOREM RunsApprovedAlways == Spec => []RunsOnlyApproved
  <1>1. Signed => RunsOnlyApproved
    BY DEF Signed, RequestInv, RunsOnlyApproved
  <1>. QED  BY <1>1, SignedAlways, PTL

\* A request that the audit trail says was rejected or cancelled is never run,
\* whatever expires, fails or dies in between.
THEOREM DeniedAlways == Spec => []DeniedNeverRuns
  <1>1. Signed => DeniedNeverRuns
    BY DEF Signed, RequestInv, DeniedNeverRuns
  <1>. QED  BY <1>1, SignedAlways, PTL

\* What a step may do to a row: a decided one stays, or an expiry that had read
\* it as pending overtakes the decision; an automatic approval always stays.
THEOREM OverwritesAlways == Spec => OnlyExpiryOverwrites
  <1>. DEFINE Kept == \A r \in Requests :
                 row[r] \notin {"absent", "pending"} =>
                     row'[r] = row[r] \/ (row'[r] = "expired" /\ row[r] # "auto_approved")
  <1>1. ASSUME TypeOK, Signed, [Next]_vars
        PROVE  Kept
    <2>. USE <1>1
    <2>1. ASSUME NEW q \in Requests, FileAutoApproved(q) \/ FilePending(q)
          PROVE  Kept
      <3>1. row[q] = "absent"
        BY <2>1 DEF FileAutoApproved, FilePending, Signed, RequestInv
      <3>. QED  BY <2>1, <3>1 DEF FileAutoApproved, FilePending, TypeOK
    <2>2. ASSUME NEW q \in Requests, WriteExpired(q)
          PROVE  Kept
      <3>1. row[q] # "auto_approved"
        BY <2>2 DEF WriteExpired, Signed, RequestInv
      <3>. QED  BY <2>2, <3>1 DEF WriteExpired, UpdateRequest, TypeOK
    <2>3. ASSUME NEW a \in Actors, WriteIfPending(a)
          PROVE  Kept
      BY <2>3 DEF WriteIfPending, Matches, TypeOK
    <2>4. ASSUME NEW a \in Actors, Write(a)
          PROVE  Kept
      <3>1. row[actor[a].request] # "auto_approved"
        BY <2>4 DEF Write, Signed, ActorInv
      <3>. QED  BY <2>4, <3>1 DEF Write, UpdateRequest, TypeOK
    <2>5. CASE UNCHANGED row
      BY <2>5
    <2>6. \/ UNCHANGED row
          \/ \E q \in Requests :
                FileAutoApproved(q) \/ FilePending(q) \/ WriteExpired(q)
          \/ \E a \in Actors : WriteIfPending(a) \/ Write(a)
      BY DEF Next, vars, GateStep, RecordAutoApproved, Extend, PollDecided,
             PollExpired, RecordExpired, Timeout, GateFails, AgentDies, TimePasses,
             ActorStep, Read, ListExpired, Record, StatementFails, ActorDies
    <2>. QED  BY <2>1, <2>2, <2>3, <2>4, <2>5, <2>6
  <1>2. TypeOK /\ Signed /\ [Next]_vars => [Kept]_vars
    BY <1>1
  <1>3. OnlyExpiryOverwrites <=> [][Kept]_vars
    BY DEF OnlyExpiryOverwrites
  <1>. QED  BY <1>2, <1>3, TypeCorrect, SignedAlways, PTL DEF Spec
=============================================================================
