------------------------- MODULE Connections_proofs -------------------------
(***************************************************************************)
(* Proofs about Connections, for any number of authorizations, callbacks,  *)
(* probes, failed statements and restarts.                                 *)
(*                                                                         *)
(* DisabledFlowIsDead and HealthyIsBacked are not inductive.  FlowInv says *)
(* who can know of a flow: nobody before it is published, and while it is  *)
(* on the list no caller has taken it, so its goroutine can only wait or   *)
(* have ended; that is what Disable finds.  Backed says that a goroutine   *)
(* past its authorization, or past its identity call, has left the         *)
(* evidence in the database before it claims anything.                     *)
(***************************************************************************)
EXTENDS Connections, TLAPS

USE ConnectionsAssumption

\* Nobody has handed the flow a callback, and its goroutine has no token.
Untouched(f) ==
    /\ worker[f].at \in {"asked", "ended"} /\ ~worker[f].token
    /\ ~flow[f].callback
    /\ \A c \in Callers : caller[c].flow = f => caller[c].at \notin {"sending", "waiting"}

\* A flow is known to callers only once it was published.
FlowInv(f) ==
    /\ starter[f] = "idle" => worker[f].at = "idle" /\ ~worker[f].token /\ ~flow[f].url
    /\ starter[f] \in {"idle", "waiting"} =>
          /\ ~flow[f].callback /\ ~flow[f].listed /\ ~flow[f].killed
          /\ \A c \in Callers : caller[c].flow # f
    /\ worker[f].at = "connecting" => ~flow[f].url /\ ~worker[f].token
    /\ flow[f].url /\ starter[f] = "waiting" => Untouched(f)
    /\ flow[f].listed => Untouched(f) /\ starter[f] \in {"published", "returned"}
    /\ flow[f].killed =>
          Untouched(f) /\ ~flow[f].listed /\ starter[f] \notin {"idle", "waiting"}

\* A goroutine past its authorization has a credential or was admitted
\* without one; one past its identity call has it on record.
Backed ==
    /\ \A w \in Workers :
          /\ worker[w].at \in {"calling", "called", "proved", "saving"} => row.cred \/ open # {}
          /\ worker[w].at \in {"proved", "saving"} => proved # {}
    /\ HealthyIsBacked

Places == {"idle", "connecting", "asked", "loading", "token", "calling", "called",
           "proved", "saving", "failing", "ended"}

----------------------------------------------------------------------------
(* Types *)

\* A flow with one field set is a flow.
LEMMA FlowSet ==
    ASSUME NEW x \in Flow, NEW b \in BOOLEAN
    PROVE  /\ [x EXCEPT !.listed = b] \in Flow
           /\ [x EXCEPT !.url = b] \in Flow
           /\ [x EXCEPT !.timedOut = b] \in Flow
           /\ [x EXCEPT !.expired = b] \in Flow
           /\ [x EXCEPT !.callback = b] \in Flow
           /\ [x EXCEPT !.killed = b] \in Flow
  BY DEF Flow

\* So is one that is answered.
LEMMA FlowDone ==
    ASSUME NEW x \in Flow, NEW d \in {"open", "ok", "error"}
    PROVE  [x EXCEPT !.done = d] \in Flow
  BY DEF Flow

\* So is a discovery that moves on, with or without a new token.
LEMMA WorkerSet ==
    ASSUME NEW x \in Worker, NEW p \in Places
    PROVE  [x EXCEPT !.at = p] \in Worker /\ [x EXCEPT !.at = p, !.token = TRUE] \in Worker
  BY DEF Worker, Places

\* A step that moves one discovery leaves all of them discoveries.
LEMMA WorkerMoves ==
    ASSUME TypeOK, NEW w \in Workers, NEW p \in Places,
           \/ worker' = [worker EXCEPT ![w].at = p]
           \/ worker' = [worker EXCEPT ![w].at = p, ![w].token = TRUE]
    PROVE  worker' \in [Workers -> Worker]
  <1>1. worker' = [worker EXCEPT ![w] = [worker[w] EXCEPT !.at = p]]
        \/ worker' = [worker EXCEPT ![w] = [worker[w] EXCEPT !.at = p, !.token = TRUE]]
    BY DEF TypeOK
  <1>2. /\ [worker[w] EXCEPT !.at = p] \in Worker
        /\ [worker[w] EXCEPT !.at = p, !.token = TRUE] \in Worker
    BY WorkerSet DEF TypeOK
  <1>. QED  BY <1>1, <1>2 DEF TypeOK

\* What a Report leaves behind has its type.
LEMMA ReportType ==
    ASSUME TypeOK, NEW w \in Workers, NEW r \in {"ok", "error"}, Report(w, r)
    PROVE  worker' \in [Workers -> Worker] /\ flow' \in [Flows -> Flow]
  <1>1. CASE w \in Flows
    <2>1. worker' \in [Workers -> Worker]
      BY <1>1, WorkerMoves DEF Report, Places
    <2>2. flow' = [flow EXCEPT ![w] = [[flow[w] EXCEPT !.done = r] EXCEPT !.timedOut = TRUE]]
      BY <1>1 DEF TypeOK, Report
    <2>3. [[flow[w] EXCEPT !.done = r] EXCEPT !.timedOut = TRUE] \in Flow
      BY <1>1, FlowSet, FlowDone DEF TypeOK
    <2>. QED  BY <1>1, <2>1, <2>2, <2>3 DEF TypeOK
  <1>2. CASE w \notin Flows
    <2>. DEFINE p == IF r = "ok" THEN "ended" ELSE "failing"
    <2>1. worker' = [worker EXCEPT ![w].at = p] /\ flow' = flow
      BY <1>2 DEF Report
    <2>2. p \in Places
      BY DEF Places
    <2>. HIDE DEF p
    <2>. QED  BY <2>1, <2>2, WorkerMoves DEF TypeOK
  <1>. QED  BY <1>1, <1>2

\* Pruning leaves flows.
LEMMA PrunedType == TypeOK => Pruned \in [Flows -> Flow]
  BY FlowSet DEF TypeOK, Pruned

\* Before the first call every variable has its type.
LEMMA InitType == Init => TypeOK
  BY DEF Init, TypeOK, Statuses, Worker, Workers, Flow, IdleWorker, NewFlow, NoCall

\* A statement that only notes a status, and one that may fail.
LEMMA NoteType ==
    ASSUME TypeOK, NEW s \in Statuses, NoteStatus(s)
    PROVE  /\ row' \in [status : Statuses, cred : BOOLEAN]
           /\ faults' \in 0..MaxFaults /\ crashes' \in 0..MaxCrashes
  BY DEF TypeOK, NoteStatus, SetStatus, Written, Faulty, bounds

\* A step of a discovery.
LEMMA WorkType == ASSUME TypeOK, NEW w \in Workers, Work(w) PROVE TypeOK'
  <1>. USE DEF bounds, history
  <1>1. CASE w \in Flows /\ Connect(w)
    <2>1. worker' \in [Workers -> Worker]
      BY <1>1, WorkerMoves DEF Connect, Places
    <2>2. flow' \in [Flows -> Flow]
      <3>1. CASE flow' = [flow EXCEPT ![w].url = TRUE]
        BY <1>1, <3>1, FlowSet DEF TypeOK
      <3>. QED  BY <1>1, <3>1 DEF Connect, TypeOK
    <2>. QED  BY <1>1, <2>1, <2>2 DEF Connect, TypeOK
  <1>2. CASE w \in Flows /\ TakeCallback(w)
    <2>1. worker' \in [Workers -> Worker]
      BY <1>2, WorkerMoves DEF TakeCallback, Places
    <2>2. flow' \in [Flows -> Flow]
      BY <1>2, FlowSet DEF TakeCallback, TypeOK
    <2>. QED  BY <1>2, <2>1, <2>2 DEF TakeCallback, TypeOK
  <1>3. CASE w \in Flows /\ SaveCredential(w)
    BY <1>3, ReportType DEF SaveCredential, TypeOK
  <1>4. CASE w \in Probes /\ LoadCredential(w)
    <2>. DEFINE p == IF row.cred THEN "token" ELSE "ended"
    <2>1. p \in Places
      BY DEF Places
    <2>2. worker' = [worker EXCEPT ![w].at = p]
      BY <1>4 DEF LoadCredential
    <2>. HIDE DEF p
    <2>3. worker' \in [Workers -> Worker]
      BY <2>1, <2>2, WorkerMoves
    <2>. QED  BY <1>4, <2>3 DEF LoadCredential, TypeOK
  <1>5. CASE w \in Probes /\ ProbeError(w)
    <2>1. worker' \in [Workers -> Worker]
      BY <1>5, WorkerMoves DEF ProbeError, Places
    <2>2. /\ row' \in [status : Statuses, cred : BOOLEAN]
          /\ faults' \in 0..MaxFaults /\ crashes' \in 0..MaxCrashes
      BY <1>5, NoteType DEF ProbeError, Statuses
    <2>. QED  BY <1>5, <2>1, <2>2 DEF ProbeError, TypeOK
  <1>6. CASE Token(w) \/ Call(w) \/ RecordInvocation(w)
    <2>1. worker' \in [Workers -> Worker]
      <3>1. CASE Token(w)
        BY <3>1, WorkerMoves DEF Token, Places
      <3>2. CASE Call(w)
        BY <3>2, WorkerMoves DEF Call, Places
      <3>3. CASE RecordInvocation(w)
        BY <3>3, WorkerMoves DEF RecordInvocation, Places
      <3>. QED  BY <1>6, <3>1, <3>2, <3>3
    <2>. QED  BY <1>6, <2>1 DEF Token, Call, RecordInvocation, Written, TypeOK
  <1>7. CASE RecordCatalog(w)
    <2>1. CASE row.status = "disabled"
      BY <1>7, <2>1, ReportType DEF RecordCatalog, TypeOK
    <2>2. CASE row.status # "disabled" /\ w \in Probes
      BY <1>7, <2>2, ReportType DEF RecordCatalog, SetStatus, Statuses, TypeOK
    <2>3. CASE row.status # "disabled" /\ w \notin Probes
      <3>1. worker' \in [Workers -> Worker]
        BY <1>7, <2>3, WorkerMoves DEF RecordCatalog, Places
      <3>. QED  BY <1>7, <2>3, <3>1 DEF RecordCatalog, SetStatus, Statuses, TypeOK
    <2>. QED  BY <2>1, <2>2, <2>3
  <1>8. CASE Fails(w)
    BY <1>8, ReportType DEF Fails, TypeOK
  <1>9. CASE StatementFails(w)
    BY <1>9, ReportType DEF StatementFails, Faulty, TypeOK
  <1>. QED  BY <1>1, <1>2, <1>3, <1>4, <1>5, <1>6, <1>7, <1>8, <1>9 DEF Work

\* A step of a CompleteOAuth.
LEMMA CallerType ==
    ASSUME TypeOK, NEW c \in Callers, Complete(c) \/ CallerGivesUp(c) PROVE TypeOK'
  <1>. USE DEF bounds, history
  <1>. DEFINE f == caller[c].flow
  <1>1. CASE SendCallback(c)
    <2>1. flow' \in [Flows -> Flow]
      BY <1>1, FlowSet DEF SendCallback, TypeOK
    <2>. QED  BY <1>1, <2>1 DEF SendCallback, TypeOK
  <1>2. CASE ReadResult(c)
    <2>1. flow' \in [Flows -> Flow]
      BY <1>2, FlowDone DEF ReadResult, TypeOK
    <2>. QED  BY <1>2, <2>1 DEF ReadResult, TypeOK
  <1>3. CASE CallerGivesUp(c)
    <2>1. flow' \in [Flows -> Flow]
      BY <1>3, FlowSet DEF CallerGivesUp, TypeOK
    <2>. QED  BY <1>3, <2>1 DEF CallerGivesUp, TypeOK
  <1>4. CASE CallerError(c)
    <2>1. /\ row' \in [status : Statuses, cred : BOOLEAN]
          /\ faults' \in 0..MaxFaults /\ crashes' \in 0..MaxCrashes
      BY <1>4, NoteType DEF CallerError, Statuses
    <2>. QED  BY <1>4, <2>1 DEF CallerError, TypeOK
  <1>. QED  BY <1>1, <1>2, <1>3, <1>4 DEF Complete

\* A restart.
LEMMA CrashType == ASSUME TypeOK, Crash PROVE TypeOK'
  <1>1. flow' \in [Flows -> Flow]
    BY FlowSet DEF TypeOK, Crash
  <1>2. worker' \in [Workers -> Worker]
    BY WorkerSet DEF TypeOK, Crash, Places
  <1>3. starter' \in [Flows -> {"idle", "waiting", "published", "returned", "failed"}]
    BY DEF TypeOK, Crash
  <1>4. caller' \in [Callers -> [at : {"idle", "sending", "waiting", "failing", "returned"},
                                 flow : Flows \cup {NoFlow}]]
    BY DEF TypeOK, Crash
  <1>5. /\ owner' = IF owner = "cancelling" THEN "returned" ELSE owner
        /\ crashes < MaxCrashes /\ crashes' = crashes + 1
        /\ UNCHANGED <<row, late, proved, open, faults>>
    BY DEF Crash, history
  <1>6. owner' \in {"idle", "cancelling", "returned"} /\ crashes' \in 0..MaxCrashes
    BY <1>5 DEF TypeOK
  <1>. QED  BY <1>1, <1>2, <1>3, <1>4, <1>5, <1>6 DEF TypeOK

\* Every step keeps the types.
LEMMA NextType == TypeOK /\ [Next]_vars => TypeOK'
  <1>. SUFFICES ASSUME TypeOK, [Next]_vars PROVE TypeOK'
    OBVIOUS
  <1>. USE DEF bounds, history
  <1>1. ASSUME NEW w \in Workers, Work(w) PROVE TypeOK'
    BY <1>1, WorkType
  <1>2. ASSUME NEW f \in Flows, StartOAuth(f) PROVE TypeOK'
    <2>. DEFINE x == [IdleWorker EXCEPT !.at = "connecting", !.refused = row.status = "disabled"]
    <2>1. x \in Worker
      BY DEF IdleWorker, Worker
    <2>2. worker' = [worker EXCEPT ![f] = x]
      BY <1>2 DEF StartOAuth
    <2>. HIDE DEF x
    <2>. QED  BY <1>2, <2>1, <2>2 DEF StartOAuth, TypeOK, Workers
  <1>3. ASSUME NEW f \in Flows, StartFails(f) \/ Timeout(f) \/ Expire(f) PROVE TypeOK'
    <2>1. flow' \in [Flows -> Flow]
      <3>1. CASE flow' = [flow EXCEPT ![f].timedOut = TRUE]
        BY <1>3, <3>1, FlowSet DEF TypeOK
      <3>2. CASE flow' = [flow EXCEPT ![f].expired = TRUE]
        BY <1>3, <3>2, FlowSet DEF TypeOK
      <3>. QED  BY <1>3, <3>1, <3>2 DEF StartFails, Timeout, Expire
    <2>. QED  BY <1>3, <2>1 DEF StartFails, Timeout, Expire, TypeOK
  <1>4. ASSUME NEW f \in Flows, Publish(f) PROVE TypeOK'
    <2>1. flow' \in [Flows -> Flow]
      BY <1>4, FlowSet, PrunedType DEF Publish, TypeOK
    <2>. QED  BY <1>4, <2>1 DEF Publish, TypeOK
  <1>5. ASSUME NEW f \in Flows, Authorizing(f) PROVE TypeOK'
    <2>1. /\ row' \in [status : Statuses, cred : BOOLEAN]
          /\ faults' \in 0..MaxFaults /\ crashes' \in 0..MaxCrashes
      BY <1>5, NoteType DEF Authorizing, Statuses
    <2>. QED  BY <1>5, <2>1 DEF Authorizing, TypeOK
  <1>6. ASSUME NEW c \in Callers, NEW f \in Flows, TakeFlow(c, f) PROVE TypeOK'
    <2>1. flow' \in [Flows -> Flow]
      BY <1>6, FlowSet, PrunedType DEF TakeFlow, TypeOK
    <2>. QED  BY <1>6, <2>1 DEF TakeFlow, TypeOK
  <1>7. ASSUME NEW c \in Callers, Complete(c) \/ CallerGivesUp(c) PROVE TypeOK'
    BY <1>7, CallerType
  <1>8. ASSUME NEW p \in Probes, Probe(p) PROVE TypeOK'
    <2>. DEFINE q == IF row.status = "disabled" THEN "ended" ELSE "loading"
    <2>1. q \in Places
      BY DEF Places
    <2>2. worker' = [worker EXCEPT ![p].at = q]
      BY <1>8 DEF Probe
    <2>. HIDE DEF q
    <2>3. worker' \in [Workers -> Worker]
      BY <2>1, <2>2, WorkerMoves DEF Workers
    <2>. QED  BY <1>8, <2>3 DEF Probe, TypeOK
  <1>9. CASE Disable
    BY <1>9 DEF Disable, SetStatus, Written, Faulty, Statuses, TypeOK
  <1>10. CASE CancelFlows
    <2>1. flow' \in [Flows -> Flow]
      BY <1>10, FlowSet DEF CancelFlows, TypeOK
    <2>. QED  BY <1>10, <2>1 DEF CancelFlows, TypeOK
  <1>11. CASE Crash
    BY <1>11, CrashType
  <1>12. CASE UNCHANGED vars
    BY <1>12 DEF vars, TypeOK
  <1>. QED
    BY <1>1, <1>2, <1>3, <1>4, <1>5, <1>6, <1>7, <1>8, <1>9, <1>10, <1>11, <1>12 DEF Next

\* Every reachable row, goroutine, flow and call has its type.
THEOREM TypeCorrect == Spec => []TypeOK
  BY InitType, NextType, PTL DEF Spec

----------------------------------------------------------------------------
(* What the steps do to one goroutine and one flow *)

\* The fields of a flow that FlowInv speaks of.
SameFlow(g) ==
    /\ flow'[g].listed = flow[g].listed /\ flow'[g].url = flow[g].url
    /\ flow'[g].callback = flow[g].callback /\ flow'[g].killed = flow[g].killed

\* A goroutine that only moves leaves the others and its token.
LEMMA Moved ==
    ASSUME TypeOK, NEW w \in Workers, NEW p, worker' = [worker EXCEPT ![w].at = p]
    PROVE  /\ worker'[w].at = p /\ worker'[w].token = worker[w].token
           /\ \A v \in Workers : v # w => worker'[v] = worker[v]
  BY DEF TypeOK, Worker

\* A Report ends the goroutine of a flow; of the flow it sets the result.
LEMMA Reported ==
    ASSUME TypeOK, NEW w \in Workers, NEW r \in {"ok", "error"}, Report(w, r)
    PROVE  /\ \A g \in Flows : SameFlow(g)
           /\ worker'[w].at \in {"ended", "failing"} /\ worker'[w].token = worker[w].token
           /\ w \in Flows => worker'[w].at = "ended"
           /\ \A v \in Workers : v # w => worker'[v] = worker[v]
  <1>1. \A g \in Flows : SameFlow(g)
    BY DEF TypeOK, Flow, SameFlow, Report
  <1>2. \A p : worker' = [worker EXCEPT ![w].at = p] =>
                   /\ worker'[w].at = p /\ worker'[w].token = worker[w].token
                   /\ \A v \in Workers : v # w => worker'[v] = worker[v]
    BY Moved
  <1>. QED  BY <1>1, <1>2 DEF Report

\* A flow whose context ends keeps the fields of FlowInv.
LEMMA TimedOut ==
    ASSUME TypeOK, NEW f, flow' = [flow EXCEPT ![f].timedOut = TRUE], NEW g \in Flows
    PROVE  SameFlow(g)
  BY DEF TypeOK, Flow, SameFlow

\* Pruning only takes flows from the list.
LEMMA PrunedFields ==
    ASSUME TypeOK, NEW g \in Flows
    PROVE  /\ Pruned[g].listed => flow[g].listed
           /\ Pruned[g].url = flow[g].url
           /\ Pruned[g].callback = flow[g].callback
           /\ Pruned[g].killed = flow[g].killed
  BY DEF TypeOK, Flow, Pruned

\* With a flow put on the list, or taken from it.
LEMMA Listed ==
    ASSUME TypeOK, NEW f \in Flows, NEW b \in BOOLEAN, flow' = [Pruned EXCEPT ![f].listed = b],
           NEW g \in Flows
    PROVE  /\ g # f => (flow'[g].listed => flow[g].listed)
           /\ flow'[f].listed = b
           /\ flow'[g].url = flow[g].url
           /\ flow'[g].callback = flow[g].callback
           /\ flow'[g].killed = flow[g].killed
  <1>1. Pruned \in [Flows -> Flow]
    BY PrunedType
  <1>2. /\ g # f => flow'[g] = Pruned[g]
        /\ flow'[f].listed = b /\ flow'[f].url = Pruned[f].url
        /\ flow'[f].callback = Pruned[f].callback /\ flow'[f].killed = Pruned[f].killed
    BY <1>1 DEF Flow
  <1>. QED  BY <1>2, PrunedFields

----------------------------------------------------------------------------
(* The flow that Disable cancels *)

\* No flow is started.
LEMMA FlowInit == ASSUME Init, NEW g \in Flows PROVE FlowInv(g)
  BY DEF Init, FlowInv, Untouched, IdleWorker, NewFlow, NoCall, Workers

\* Steps that change nothing of it, or only its goroutine.
LEMMA FlowFrame ==
    ASSUME NEW g \in Flows, FlowInv(g), SameFlow(g), worker'[g] = worker[g],
           UNCHANGED <<starter, caller>>
    PROVE  FlowInv(g)'
  BY DEF FlowInv, Untouched, SameFlow

\* Steps of its goroutine between the exchange and the end.
LEMMA FlowBusy ==
    ASSUME NEW g \in Flows, FlowInv(g), SameFlow(g),
           worker[g].at \notin {"idle", "connecting", "asked", "ended"},
           worker'[g].at \notin {"idle", "connecting"},
           UNCHANGED <<starter, caller>>
    PROVE  FlowInv(g)'
  BY DEF FlowInv, Untouched, SameFlow

\* Its goroutine ends, with the token it has.
LEMMA FlowEnded ==
    ASSUME NEW g \in Flows, FlowInv(g), SameFlow(g),
           worker[g].at # "idle", worker'[g].at = "ended", worker'[g].token = worker[g].token,
           UNCHANGED <<starter, caller>>
    PROVE  FlowInv(g)'
  BY DEF FlowInv, Untouched, SameFlow

\* A step of a discovery.
LEMMA FlowWork ==
    ASSUME TypeOK, NEW g \in Flows, FlowInv(g), NEW w \in Workers, Work(w)
    PROVE  FlowInv(g)'
  <1>. USE DEF At
  <1>g. g \in Workers
    BY DEF Workers
  <1>0. UNCHANGED <<starter, caller>>
    BY DEF Work, Connect, TakeCallback, SaveCredential, LoadCredential, ProbeError, Token, Call,
           RecordInvocation, RecordCatalog, Fails, StatementFails
  <1>s. ASSUME UNCHANGED flow PROVE SameFlow(g)
    BY <1>s DEF SameFlow
  <1>1. CASE w \in Flows /\ Connect(w)
    <2>1. CASE flow' = [flow EXCEPT ![w].url = TRUE] /\ worker' = [worker EXCEPT ![w].at = "asked"]
      <3>1. /\ worker'[w].at = "asked" /\ worker'[w].token = worker[w].token
            /\ g # w => worker'[g] = worker[g]
        BY <2>1, <1>g, Moved
      <3>2. g # w => SameFlow(g)
        BY <1>1, <2>1 DEF TypeOK, SameFlow
      <3>5. /\ flow'[w].listed = flow[w].listed
            /\ flow'[w].callback = flow[w].callback /\ flow'[w].killed = flow[w].killed
        BY <1>1, <2>1 DEF TypeOK, Flow
      <3>3. CASE g # w
        BY <1>0, <3>1, <3>2, <3>3, FlowFrame
      <3>4. CASE g = w
        BY <1>0, <1>1, <3>1, <3>5, <3>4 DEF Connect, FlowInv, Untouched
      <3>. QED  BY <3>3, <3>4
    <2>2. CASE UNCHANGED flow /\ worker' = [worker EXCEPT ![w].at = "calling"]
      <3>1. /\ worker'[w].at = "calling" /\ worker'[w].token = worker[w].token
            /\ g # w => worker'[g] = worker[g]
        BY <2>2, <1>g, Moved
      <3>2. CASE g # w
        BY <1>0, <1>s, <2>2, <3>1, <3>2, FlowFrame
      <3>3. CASE g = w
        BY <1>0, <1>1, <2>2, <3>1, <3>3 DEF Connect, FlowInv, Untouched
      <3>. QED  BY <3>2, <3>3
    <2>. QED  BY <1>1, <2>1, <2>2 DEF Connect
  <1>2. CASE w \in Flows /\ TakeCallback(w)
    <2>1. /\ worker'[w].at = "token"
          /\ g # w => worker'[g] = worker[g]
      BY <1>2, <1>g, Moved DEF TakeCallback
    <2>2. /\ g # w => SameFlow(g)
          /\ flow'[w].listed = flow[w].listed /\ flow'[w].url = flow[w].url
          /\ flow'[w].callback = FALSE /\ flow'[w].killed = flow[w].killed
      BY <1>2 DEF TypeOK, Flow, SameFlow, TakeCallback
    <2>3. CASE g # w
      BY <1>0, <2>1, <2>2, <2>3, FlowFrame
    <2>4. CASE g = w
      BY <1>0, <1>2, <2>1, <2>2, <2>4 DEF TakeCallback, FlowInv, Untouched
    <2>. QED  BY <2>3, <2>4
  <1>3. CASE w \in Probes /\ (LoadCredential(w) \/ ProbeError(w))
    <2>1. \E p : worker' = [worker EXCEPT ![w].at = p] /\ UNCHANGED flow
      BY <1>3 DEF LoadCredential, ProbeError
    <2>2. w # g
      BY <1>3
    <2>. QED  BY <1>0, <1>g, <1>s, <2>1, <2>2, Moved, FlowFrame
  <1>4. CASE Token(w)
    <2>1. /\ g # w => worker'[g] = worker[g]
          /\ worker'[w].at = "calling" /\ worker[w].at = "token"
      BY <1>4, <1>g DEF Token, TypeOK, Worker
    <2>2. UNCHANGED flow
      BY <1>4 DEF Token
    <2>. QED  BY <1>0, <1>s, <2>1, <2>2, FlowFrame, FlowBusy
  <1>5. CASE Call(w) \/ RecordInvocation(w)
    <2>1. PICK p \in {"called", "proved"} : worker' = [worker EXCEPT ![w].at = p]
      BY <1>5 DEF Call, RecordInvocation
    <2>2. UNCHANGED flow /\ worker[w].at \in {"calling", "called"}
      BY <1>5 DEF Call, RecordInvocation
    <2>. QED  BY <1>0, <1>g, <1>s, <2>1, <2>2, Moved, FlowFrame, FlowBusy
  <1>6. CASE \E r \in {"ok", "error"} : Report(w, r) /\ worker[w].at # "idle"
    BY <1>0, <1>g, <1>6, Reported, FlowFrame, FlowEnded
  <1>7. CASE RecordCatalog(w)
    <2>1. CASE worker' = [worker EXCEPT ![w].at = "saving"] /\ UNCHANGED flow
      BY <1>0, <1>g, <1>s, <1>7, <2>1, Moved, FlowFrame, FlowBusy DEF RecordCatalog
    <2>. QED  BY <1>6, <1>7, <2>1 DEF RecordCatalog
  <1>8. CASE w \in Flows /\ SaveCredential(w)
    BY <1>6, <1>8 DEF SaveCredential
  <1>9. CASE Fails(w) \/ StatementFails(w)
    BY <1>6, <1>9 DEF Fails, StatementFails
  <1>. QED  BY <1>1, <1>2, <1>3, <1>4, <1>5, <1>7, <1>8, <1>9 DEF Work

\* Every step: the flow Disable cancelled is one nobody had answered.
LEMMA FlowStep ==
    ASSUME TypeOK, NEW g \in Flows, FlowInv(g), [Next]_vars PROVE FlowInv(g)'
  <1>g. g \in Workers
    BY DEF Workers
  <1>1. ASSUME NEW w \in Workers, Work(w) PROVE FlowInv(g)'
    BY <1>1, FlowWork
  <1>2. ASSUME NEW f \in Flows, StartOAuth(f) PROVE FlowInv(g)'
    <2>1. /\ g # f => worker'[g] = worker[g] /\ starter'[g] = starter[g]
          /\ g = f => /\ worker'[g].at = "connecting" /\ ~worker'[g].token
                      /\ starter[g] = "idle" /\ starter'[g] = "waiting"
          /\ UNCHANGED <<flow, caller>>
      BY <1>2, <1>g DEF StartOAuth, TypeOK, IdleWorker
    <2>. QED  BY <2>1 DEF FlowInv, Untouched
  <1>3. ASSUME NEW f \in Flows, StartFails(f) PROVE FlowInv(g)'
    <2>1. /\ g # f => starter'[g] = starter[g]
          /\ g = f => starter[g] = "waiting" /\ starter'[g] = "failed"
          /\ UNCHANGED <<worker, caller>> /\ SameFlow(g)
      BY <1>3, TimedOut DEF StartFails, TypeOK
    <2>. QED  BY <2>1 DEF FlowInv, Untouched, SameFlow
  <1>4. ASSUME NEW f \in Flows, Timeout(f) \/ Expire(f) PROVE FlowInv(g)'
    <2>1. SameFlow(g)
      <3>1. CASE Timeout(f)
        BY <3>1, TimedOut DEF Timeout
      <3>2. CASE Expire(f)
        BY <3>2 DEF Expire, TypeOK, Flow, SameFlow
      <3>. QED  BY <1>4, <3>1, <3>2
    <2>. QED  BY <1>4, <2>1, FlowFrame DEF Timeout, Expire
  <1>5. ASSUME NEW f \in Flows, Publish(f) PROVE FlowInv(g)'
    <2>1. /\ g # f => (flow'[g].listed => flow[g].listed)
          /\ flow'[g].url = flow[g].url /\ flow'[g].callback = flow[g].callback
          /\ flow'[g].killed = flow[g].killed
      BY <1>5, Listed DEF Publish
    <2>2. /\ g # f => starter'[g] = starter[g]
          /\ g = f => starter[g] = "waiting" /\ flow[g].url /\ starter'[g] = "published"
          /\ UNCHANGED <<worker, caller>>
      BY <1>5 DEF Publish, TypeOK
    <2>. QED  BY <2>1, <2>2 DEF FlowInv, Untouched
  <1>6. ASSUME NEW f \in Flows, Authorizing(f) PROVE FlowInv(g)'
    <2>1. /\ g # f => starter'[g] = starter[g]
          /\ g = f => starter[g] = "published" /\ starter'[g] = "returned"
          /\ UNCHANGED <<worker, flow, caller>>
      BY <1>6 DEF Authorizing, TypeOK
    <2>. QED  BY <2>1 DEF FlowInv, Untouched
  <1>7. ASSUME NEW c \in Callers, NEW f \in Flows, TakeFlow(c, f) PROVE FlowInv(g)'
    <2>1. /\ flow'[g].listed => flow[g].listed
          /\ flow'[f].listed = FALSE
          /\ flow'[g].url = flow[g].url /\ flow'[g].callback = flow[g].callback
          /\ flow'[g].killed = flow[g].killed
      BY <1>7, Listed DEF TakeFlow
    <2>2. /\ \A d \in Callers : d # c => caller'[d] = caller[d]
          /\ caller'[c].flow = f
          /\ caller'[c].at \in {"sending", "waiting"} => Pruned[f].listed
          /\ starter[f] = "returned"
          /\ UNCHANGED <<worker, starter>>
      BY <1>7 DEF TakeFlow, TypeOK
    <2>3. caller'[c].at \in {"sending", "waiting"} => flow[f].listed
      BY <2>2, PrunedFields
    <2>. QED  BY <2>1, <2>2, <2>3 DEF FlowInv, Untouched
  <1>8. ASSUME NEW c \in Callers, Complete(c) \/ CallerGivesUp(c) PROVE FlowInv(g)'
    <2>1. /\ \A d \in Callers : caller'[d].flow = caller[d].flow
          /\ \A d \in Callers : caller'[d].at \in {"sending", "waiting"} =>
                                   caller[d].at \in {"sending", "waiting"}
          /\ UNCHANGED <<worker, starter>>
      BY <1>8 DEF Complete, SendCallback, ReadResult, CallerError, CallerGivesUp, TypeOK
    <2>2. CASE SendCallback(c)
      <3>1. /\ flow'[g].listed = flow[g].listed /\ flow'[g].url = flow[g].url
            /\ flow'[g].killed = flow[g].killed
            /\ caller[c].flow # g => flow'[g] = flow[g]
        BY <2>2 DEF SendCallback, TypeOK, Flow
      <3>2. caller[c].at = "sending"
        BY <2>2 DEF SendCallback
      <3>. QED  BY <2>1, <3>1, <3>2 DEF FlowInv, Untouched
    <2>3. CASE ~SendCallback(c)
      <3>1. SameFlow(g)
        <4>1. CASE ReadResult(c)
          BY <4>1 DEF ReadResult, TypeOK, Flow, SameFlow
        <4>2. CASE CallerError(c)
          BY <4>2 DEF CallerError, SameFlow
        <4>3. CASE CallerGivesUp(c)
          BY <4>3, TimedOut DEF CallerGivesUp
        <4>. QED  BY <1>8, <2>3, <4>1, <4>2, <4>3 DEF Complete
      <3>. QED  BY <2>1, <3>1 DEF FlowInv, Untouched, SameFlow
    <2>. QED  BY <2>2, <2>3
  <1>9. ASSUME NEW p \in Probes, Probe(p) PROVE FlowInv(g)'
    <2>1. worker'[g] = worker[g] /\ UNCHANGED <<flow, starter, caller>>
      BY <1>9, <1>g DEF Probe, TypeOK
    <2>. QED  BY <2>1, FlowFrame DEF SameFlow
  <1>10. CASE Disable \/ UNCHANGED vars
    <2>1. UNCHANGED <<worker, flow, starter, caller>>
      BY <1>10 DEF Disable, vars
    <2>. QED  BY <2>1, FlowFrame DEF SameFlow
  <1>11. CASE CancelFlows
    <2>1. /\ flow'[g].listed = FALSE /\ flow'[g].url = flow[g].url
          /\ flow'[g].callback = flow[g].callback
          /\ flow'[g].killed = (flow[g].killed \/ flow[g].listed)
      BY <1>11 DEF TypeOK, Flow, CancelFlows
    <2>2. UNCHANGED <<worker, starter, caller>>
      BY <1>11 DEF CancelFlows
    <2>. QED  BY <2>1, <2>2 DEF FlowInv, Untouched
  <1>12. CASE Crash
    <2>1. /\ flow'[g].listed = FALSE /\ flow'[g].callback = FALSE
          /\ flow'[g].url = flow[g].url /\ flow'[g].killed = flow[g].killed
      <3>1. flow'[g] = [flow[g] EXCEPT !.listed = FALSE, !.callback = FALSE] /\ flow[g] \in Flow
        BY <1>12 DEF Crash, TypeOK
      <3>. QED  BY <3>1 DEF Flow
    <2>2. /\ worker[g].at = "idle" => worker'[g] = worker[g]
          /\ worker[g].at # "idle" =>
                worker'[g].at = "ended" /\ worker'[g].token = worker[g].token
      <3>1. worker' = [w \in Workers |-> IF At(w, "idle") THEN worker[w]
                                         ELSE [worker[w] EXCEPT !.at = "ended"]]
        BY <1>12 DEF Crash
      <3>. QED  BY <1>g, <3>1 DEF TypeOK, Worker, At
    <2>3. starter'[g] = IF starter[g] = "idle" THEN "idle" ELSE "failed"
      BY <1>12 DEF Crash
    <2>4. \A c \in Callers : /\ caller'[c].flow = caller[c].flow
                             /\ caller'[c].at \in {"idle", "returned"}
      BY <1>12 DEF Crash, TypeOK
    <2>. QED  BY <2>1, <2>2, <2>3, <2>4 DEF FlowInv, Untouched
  <1>. QED
    BY <1>1, <1>2, <1>3, <1>4, <1>5, <1>6, <1>7, <1>8, <1>9, <1>10, <1>11, <1>12 DEF Next

\* An authorization that Disable cancelled never obtains a token, whenever its
\* callback arrives and whatever fails or restarts.
THEOREM CancelledFlowGetsNoToken == Spec => []DisabledFlowIsDead
  <1>. DEFINE Inv == \A f \in Flows : FlowInv(f)
  <1>1. Init => Inv
    BY FlowInit
  <1>2. TypeOK /\ Inv /\ [Next]_vars => Inv'
    BY FlowStep
  <1>3. Inv => DisabledFlowIsDead
    BY DEF DisabledFlowIsDead, FlowInv, Untouched
  <1>. QED  BY <1>1, <1>2, <1>3, TypeCorrect, PTL DEF Spec

----------------------------------------------------------------------------
(* The evidence behind "healthy" *)

\* A step that leaves the evidence, and moves no goroutine into a claim.
LEMMA BackedFrame ==
    ASSUME Backed,
           row'.cred = row.cred, row'.status = "healthy" => row.status = "healthy",
           UNCHANGED <<proved, open>>,
           \A v \in Workers : worker'[v].at = worker[v].at \/ worker'[v].at \notin
                                 {"calling", "called", "proved", "saving"}
    PROVE  Backed'
  BY DEF Backed, HealthyIsBacked

\* A status that is noted is not "healthy", and leaves the credential.
LEMMA Noted ==
    ASSUME TypeOK, NEW s \in Statuses \ {"healthy"}, NoteStatus(s)
    PROVE  row'.cred = row.cred /\ (row'.status = "healthy" => row.status = "healthy")
  BY DEF TypeOK, NoteStatus, SetStatus

\* A step of a discovery.
LEMMA BackedWork == ASSUME TypeOK, Backed, NEW w \in Workers, Work(w) PROVE Backed'
  <1>. USE DEF At, history
  <1>1. CASE w \in Flows /\ Connect(w)
    <2>1. CASE worker' = [worker EXCEPT ![w].at = "asked"] /\ UNCHANGED open
      BY <1>1, <2>1, Moved, BackedFrame DEF Connect
    <2>2. CASE open' = open \cup {w}
      BY <1>1, <2>2, Moved DEF Connect, Backed, HealthyIsBacked
    <2>. QED  BY <1>1, <2>1, <2>2 DEF Connect
  <1>2. CASE w \in Flows /\ TakeCallback(w)
    BY <1>2, Moved, BackedFrame DEF TakeCallback
  <1>3. CASE w \in Probes /\ LoadCredential(w)
    <2>1. PICK p \in {"token", "ended"} : worker' = [worker EXCEPT ![w].at = p]
      BY <1>3 DEF LoadCredential
    <2>. QED  BY <1>3, <2>1, Moved, BackedFrame DEF LoadCredential
  <1>4. CASE w \in Probes /\ ProbeError(w)
    BY <1>4, Moved, Noted, BackedFrame DEF ProbeError, Statuses
  <1>5. CASE Token(w)
    <2>1. row'.cred /\ row'.status = row.status /\ UNCHANGED <<proved, open>>
      BY <1>5 DEF Token, TypeOK
    <2>2. /\ \A v \in Workers : v # w => worker'[v] = worker[v]
          /\ worker'[w].at = "calling"
      BY <1>5 DEF Token, TypeOK, Worker
    <2>. QED  BY <2>1, <2>2 DEF Backed, HealthyIsBacked
  <1>6. CASE Call(w)
    <2>1. /\ worker'[w].at = "called" /\ worker[w].at = "calling"
          /\ \A v \in Workers : v # w => worker'[v] = worker[v]
      BY <1>6, Moved DEF Call
    <2>. QED  BY <1>6, <2>1 DEF Call, Backed, HealthyIsBacked
  <1>7. CASE RecordInvocation(w)
    <2>1. /\ worker'[w].at = "proved" /\ worker[w].at = "called"
          /\ \A v \in Workers : v # w => worker'[v] = worker[v]
      BY <1>7, Moved DEF RecordInvocation
    <2>. QED  BY <1>7, <2>1 DEF RecordInvocation, Backed, HealthyIsBacked
  <1>8. ASSUME NEW r \in {"ok", "error"}, Report(w, r), row'.cred = row.cred,
               row'.status = "healthy" => row.status = "healthy" \/ worker[w].at = "proved",
               UNCHANGED <<proved, open>>
        PROVE  Backed'
    <2>1. /\ worker'[w].at \notin {"calling", "called", "proved", "saving"}
          /\ \A v \in Workers : v # w => worker'[v] = worker[v]
      BY <1>8, Reported
    <2>. QED  BY <1>8, <2>1 DEF Backed, HealthyIsBacked
  <1>9. CASE RecordCatalog(w)
    <2>1. row'.cred = row.cred /\ UNCHANGED <<proved, open>> /\ worker[w].at = "proved"
      BY <1>9 DEF RecordCatalog, SetStatus, TypeOK
    <2>2. CASE worker' = [worker EXCEPT ![w].at = "saving"]
      <3>1. /\ worker'[w].at = "saving"
            /\ \A v \in Workers : v # w => worker'[v] = worker[v]
        BY <2>2, Moved
      <3>. QED  BY <2>1, <3>1 DEF Backed, HealthyIsBacked
    <2>. QED  BY <1>8, <1>9, <2>1, <2>2 DEF RecordCatalog
  <1>10. CASE w \in Flows /\ SaveCredential(w)
    <2>1. CASE worker[w].token
      <3>1. row'.cred /\ row'.status = row.status /\ UNCHANGED <<proved, open>> /\ Report(w, "ok")
        BY <1>10, <2>1 DEF SaveCredential, TypeOK
      <3>2. /\ worker'[w].at \notin {"calling", "called", "proved", "saving"}
            /\ \A v \in Workers : v # w => worker'[v] = worker[v]
        BY <3>1, Reported
      <3>. QED  BY <3>1, <3>2 DEF Backed, HealthyIsBacked
    <2>. QED  BY <1>8, <1>10, <2>1 DEF SaveCredential
  <1>11. CASE Fails(w)
    BY <1>8, <1>11 DEF Fails
  <1>12. CASE StatementFails(w)
    BY <1>8, <1>12 DEF StatementFails
  <1>. QED
    BY <1>1, <1>2, <1>3, <1>4, <1>5, <1>6, <1>7, <1>9, <1>10, <1>11, <1>12 DEF Work

\* Every step keeps Backed.
LEMMA BackedStep == TypeOK /\ Backed /\ [Next]_vars => Backed'
  <1>. SUFFICES ASSUME TypeOK, Backed, [Next]_vars PROVE Backed'
    OBVIOUS
  <1>. USE DEF history
  <1>1. ASSUME NEW w \in Workers, Work(w) PROVE Backed'
    BY <1>1, BackedWork
  <1>2. ASSUME NEW f \in Flows, StartOAuth(f) PROVE Backed'
    <2>1. \A v \in Workers : worker'[v] = worker[v] \/ worker'[v].at = "connecting"
      BY <1>2 DEF StartOAuth, TypeOK, IdleWorker
    <2>. QED  BY <1>2, <2>1, BackedFrame DEF StartOAuth
  <1>3. ASSUME NEW f \in Flows, Publish(f) \/ StartFails(f) \/ Timeout(f) \/ Expire(f)
        PROVE  Backed'
    BY <1>3, BackedFrame DEF Publish, StartFails, Timeout, Expire
  <1>4. ASSUME NEW f \in Flows, Authorizing(f) PROVE Backed'
    BY <1>4, Noted, BackedFrame DEF Authorizing, Statuses
  <1>5. ASSUME NEW c \in Callers, SendCallback(c) \/ ReadResult(c) \/ CallerGivesUp(c)
                                  \/ \E f \in Flows : TakeFlow(c, f)
        PROVE  Backed'
    BY <1>5, BackedFrame DEF SendCallback, ReadResult, CallerGivesUp, TakeFlow
  <1>6. ASSUME NEW c \in Callers, CallerError(c) PROVE Backed'
    BY <1>6, Noted, BackedFrame DEF CallerError, Statuses
  <1>7. ASSUME NEW p \in Probes, Probe(p) PROVE Backed'
    <2>1. PICK q \in {"ended", "loading"} : worker' = [worker EXCEPT ![p].at = q]
      BY <1>7 DEF Probe
    <2>2. p \in Workers
      BY DEF Workers
    <2>. QED  BY <1>7, <2>1, <2>2, Moved, BackedFrame DEF Probe
  <1>8. CASE Disable
    <2>1. row'.cred = row.cred /\ (row'.status = "healthy" => row.status = "healthy")
      BY <1>8 DEF Disable, SetStatus, TypeOK
    <2>. QED  BY <1>8, <2>1, BackedFrame DEF Disable
  <1>9. CASE CancelFlows \/ UNCHANGED vars
    BY <1>9, BackedFrame DEF CancelFlows, vars
  <1>10. CASE Crash
    <2>1. \A v \in Workers : worker'[v] = worker[v] \/ worker'[v].at = "ended"
      <3>1. worker' = [w \in Workers |-> IF At(w, "idle") THEN worker[w]
                                         ELSE [worker[w] EXCEPT !.at = "ended"]]
        BY <1>10 DEF Crash
      <3>. QED  BY <3>1 DEF TypeOK, Worker
    <2>. QED  BY <1>10, <2>1, BackedFrame DEF Crash
  <1>. QED
    BY <1>1, <1>2, <1>3, <1>4, <1>5, <1>6, <1>7, <1>8, <1>9, <1>10 DEF Next, Complete

\* A connection is "healthy" only with a recorded identity call and, unless the
\* provider never asked for one, a stored credential.
THEOREM HealthyHasEvidence == Spec => []HealthyIsBacked
  <1>1. Init => Backed
    BY DEF Init, Backed, HealthyIsBacked, IdleWorker
  <1>2. Backed => HealthyIsBacked
    BY DEF Backed
  <1>. QED  BY <1>1, <1>2, BackedStep, TypeCorrect, PTL DEF Spec
=============================================================================
