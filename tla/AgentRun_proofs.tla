--------------------------- MODULE AgentRun_proofs ---------------------------
(***************************************************************************)
(* Proofs about AgentRun, for any grant, thresholds, sizes and bounds.     *)
(*                                                                         *)
(* The invariants of the runs are not inductive.  Good adds what the loop  *)
(* has checked by the time a request is under way: its round is one of the *)
(* permitted ones, and its size was judged.  Documents adds that, unless a *)
(* write failed, a checkpointed document lies only between a pass that     *)
(* ended in a checkpoint, or died, and the first step of the next one.     *)
(* Reserved adds that a metered request holds a reservation exactly while  *)
(* it is being fitted or sent, so that settling it cannot take more than   *)
(* it holds and the next one overwrites none.                              *)
(***************************************************************************)
EXTENDS AgentRun, TLAPS

USE AgentRunAssumption

Docs == [status : {"none", "running", "checkpointed", "complete"}, chains : Nat]
Outcomes == {"succeeded", "failed", "cancelled", "checkpoint", "max_turns"}

\* A pass whose request under way is one the loop admitted.
Good(p) ==
    /\ p \in Pass
    /\ p.at = "tools" \/ (p.at \in {"send", "fit", "wire"} /\ p.try \in {"first", "again"}) =>
          p.rounds < MaxSteps
    /\ p.at \in {"send", "fit", "wire"} /\ ~p.rebuilt => p.size <= Hard + Note

\* Which document lies there for the next pass.
Documents ==
    faults = 0 /\ doc.status = "checkpointed" =>
        pass.at \in {"idle", "resuming"} /\ lastEnd \in {"checkpoint", "crashed"}

PassInv ==
    /\ doc \in Docs /\ faults \in 0..MaxFaults
    /\ reported \in Outcomes \cup {"none"}
    /\ lastEnd \in Outcomes \cup {"none", "crashed"}
    /\ Good(pass)
    /\ Documents /\ ResumesCheckpointsOnly

\* A metered request has a reservation from its fitting on, and only then.
Reserved ==
    /\ pass.at \in {"fit", "wire"} /\ meter.grant > 0 => meter.input > 0
    /\ pass.at \notin {"idle", "fit", "wire"} => meter.input = 0 /\ meter.output = 0

MeterInv == meter \in Meter /\ GrantConserved /\ Reserved

Inv == PassInv /\ MeterInv /\ passes \in 0..MaxPasses

----------------------------------------------------------------------------
(* Records with fields set *)

\* A pass with another size, chain count or turn count is a pass ...
LEMMA PassNumber ==
    ASSUME NEW p \in Pass, NEW n \in Nat
    PROVE  /\ [p EXCEPT !.size = n] \in Pass
           /\ [p EXCEPT !.chains = n] \in Pass
           /\ [p EXCEPT !.here = n] \in Pass
  BY DEF Pass

\* ... so is one with another flag ...
LEMMA PassFlag ==
    ASSUME NEW p \in Pass, NEW b \in BOOLEAN
    PROVE  /\ [p EXCEPT !.asked = b] \in Pass
           /\ [p EXCEPT !.fresh = b] \in Pass
           /\ [p EXCEPT !.written = b] \in Pass
           /\ [p EXCEPT !.rebuilt = b] \in Pass
           /\ [p EXCEPT !.cancelled = b] \in Pass
  BY DEF Pass

\* ... and one at another place or try.
LEMMA PassPlace ==
    ASSUME NEW p \in Pass, NEW a \in Places, NEW t \in Tries
    PROVE  [p EXCEPT !.at = a] \in Pass /\ [p EXCEPT !.try = t] \in Pass
  BY DEF Pass

\* There is no pass before the first and after the last.
LEMMA NoPassGood == Good(NoPass) /\ NoPass.at = "idle" /\ ~NoPass.resumed
  BY DEF Good, NoPass, Pass, Places, Tries

\* A meter with another number in it is a meter ...
LEMMA MeterNumber ==
    ASSUME NEW m \in Meter, NEW n \in Nat
    PROVE  /\ [m EXCEPT !.left = n] \in Meter
           /\ [m EXCEPT !.cap = n] \in Meter
           /\ [m EXCEPT !.input = n] \in Meter
           /\ [m EXCEPT !.output = n] \in Meter
           /\ [m EXCEPT !.used = n] \in Meter
           /\ [m EXCEPT !.lost = n] \in Meter
           /\ [m EXCEPT !.est = n] \in Meter
  BY DEF Meter

\* ... so is one with another number of tries ...
LEMMA MeterTries ==
    ASSUME NEW m \in Meter, NEW n \in 0..2 PROVE [m EXCEPT !.tries = n] \in Meter
  BY DEF Meter

\* ... and one whose request was resized.
LEMMA MeterResized ==
    ASSUME NEW m \in Meter, NEW b \in BOOLEAN PROVE [m EXCEPT !.resized = b] \in Meter
  BY DEF Meter

----------------------------------------------------------------------------
(* The three ways a step treats the pass *)

\* The document is saved and the pass goes on as p.
LEMMA SaveGood ==
    ASSUME PassInv, NEW p, Good(p), p.resumed = pass.resumed, Save(p, "running"),
           UNCHANGED <<reported, lastEnd>>
    PROVE  PassInv' /\ pass'.at = p.at
  <1>1. CASE pass' = [p EXCEPT !.written = TRUE] /\ UNCHANGED faults
             /\ doc' = [status |-> "running", chains |-> p.chains]
    <2>1. pass' \in Pass
      BY <1>1, PassFlag DEF Good
    <2>2. /\ pass'.at = p.at /\ pass'.try = p.try /\ pass'.rounds = p.rounds
          /\ pass'.rebuilt = p.rebuilt /\ pass'.size = p.size /\ pass'.resumed = p.resumed
      BY <1>1 DEF Good, Pass
    <2>3. Good(pass)'
      BY <2>1, <2>2 DEF Good
    <2>4. doc' \in Docs /\ doc'.status = "running"
      BY <1>1 DEF Good, Pass, Docs
    <2>. QED  BY <1>1, <2>2, <2>3, <2>4 DEF PassInv, Documents, ResumesCheckpointsOnly
  <1>2. CASE faults < MaxFaults /\ faults' = faults + 1 /\ pass' = p /\ UNCHANGED doc
    <2>1. faults' \in 0..MaxFaults /\ faults' # 0
      BY <1>2 DEF PassInv
    <2>. QED  BY <1>2, <2>1 DEF PassInv, Good, Documents, ResumesCheckpointsOnly
  <1>. QED  BY <1>1, <1>2 DEF Save

\* The pass goes on as p, and the document stays.
LEMMA MoveGood ==
    ASSUME PassInv, NEW p, Good(p), p.resumed = pass.resumed, pass' = p,
           p.at = pass.at \/ pass.at \notin {"idle", "resuming"},
           UNCHANGED <<doc, faults, reported, lastEnd>>
    PROVE  PassInv'
  BY DEF PassInv, Good, Documents, ResumesCheckpointsOnly

\* The pass ends with an outcome that the reducer passes on.
LEMMA EndGood ==
    ASSUME PassInv, NEW outcome \in Outcomes, NEW events, NEW failed, pass.at \notin {"idle", "resuming"},
           Ends(outcome, events, failed), Reduce(outcome, events, failed) \in Outcomes,
           doc' \in Docs, faults' \in 0..MaxFaults, faults' = 0 => faults = 0,
           doc'.status = "checkpointed" => doc' = doc \/ outcome = "checkpoint" 
    PROVE  PassInv' /\ pass'.at = "idle"
  BY NoPassGood DEF PassInv, Good, Documents, ResumesCheckpointsOnly, Ends

\* What each end of a pass makes of its terminal event.
LEMMA Reduced ==
    /\ Reduce("checkpoint", {"checkpoint"}, FALSE) = "checkpoint"
    /\ Reduce("succeeded", {"succeeded"}, FALSE) = "succeeded"
    /\ Reduce("max_turns", {"max_turns"}, FALSE) = "max_turns"
    /\ Reduce("failed", {"failed"}, TRUE) = "failed"
    /\ Reduce("cancelled", {"cancelled"}, TRUE) = "cancelled"
    /\ Reduce("failed", {}, TRUE) = "failed"
  BY DEF Reduce, Agrees

----------------------------------------------------------------------------
(* The ends and restarts of a pass *)

\* A pass that is checkpointed leaves a document that can be resumed.
LEMMA EndCheckpointGood ==
    ASSUME PassInv, pass.at \notin {"idle", "resuming"}, EndCheckpoint
    PROVE  PassInv' /\ pass'.at = "idle" /\ UNCHANGED passes
  <1>1. /\ doc' \in Docs /\ faults' \in 0..MaxFaults /\ (faults' = 0 => faults = 0)
    <2>1. [status |-> "checkpointed", chains |-> pass.chains] \in Docs
      BY DEF PassInv, Good, Pass, Docs
    <2>. QED  BY <2>1 DEF EndCheckpoint, PassInv
  <1>2. Ends("checkpoint", {"checkpoint"}, FALSE) /\ UNCHANGED passes
    BY DEF EndCheckpoint
  <1>3. "checkpoint" \in Outcomes
    BY DEF Outcomes
  <1>. QED  BY <1>1, <1>2, <1>3, Reduced, EndGood

\* closeOut, with an outcome after which nothing is resumed.
LEMMA CloseOutGood ==
    ASSUME PassInv, pass.at \notin {"idle", "resuming"}, CloseOut,
           NEW outcome \in {"succeeded", "max_turns"}, Ends(outcome, {outcome}, FALSE)
    PROVE  PassInv' /\ pass'.at = "idle"
  <1>1. /\ doc' \in Docs /\ faults' \in 0..MaxFaults /\ (faults' = 0 => faults = 0)
        /\ doc'.status = "checkpointed" => doc' = doc
    <2>1. /\ [status |-> "complete", chains |-> pass.chains] \in Docs
          /\ [status |-> "complete", chains |-> pass.chains].status = "complete"
      BY DEF PassInv, Good, Pass, Docs
    <2>. QED  BY <2>1 DEF CloseOut, PassInv
  <1>2. outcome \in Outcomes /\ Reduce(outcome, {outcome}, FALSE) \in Outcomes
    BY Reduced DEF Outcomes
  <1>. QED  BY <1>1, <1>2, EndGood

\* A pass that fails leaves the document it has.
LEMMA FailGood ==
    ASSUME PassInv, pass.at \notin {"idle", "resuming"}, Fail("failed")
    PROVE  PassInv' /\ pass'.at = "idle" /\ UNCHANGED passes
  <1>1. Ends("failed", {"failed"}, TRUE) /\ UNCHANGED <<doc, passes, faults>>
    BY DEF Fail
  <1>2. "failed" \in Outcomes /\ doc \in Docs /\ faults \in 0..MaxFaults
    BY DEF PassInv, Outcomes
  <1>. QED  BY <1>1, <1>2, Reduced, EndGood

\* A new chain, from the loop.
LEMMA FreshGood ==
    ASSUME PassInv, NEW size \in Nat, Fresh([pass EXCEPT !.at = "loop"], size),
           UNCHANGED <<reported, lastEnd>>
    PROVE  PassInv' /\ pass'.at = "loop"
  <1>. DEFINE q == [pass EXCEPT !.at = "loop"]
              p == [q EXCEPT !.chains = @ + 1, !.here = @ + 1, !.size = size, !.asked = FALSE,
                             !.fresh = TRUE, !.try = "first"]
  <1>1. q \in Pass /\ q.at = "loop" /\ q.resumed = pass.resumed
    BY DEF PassInv, Good, Pass, Places
  <1>2. Save(p, "running")
    BY DEF Fresh
  <1>. HIDE DEF q
  <1>3. p \in Pass
    <2>1. q.chains + 1 \in Nat /\ q.here + 1 \in Nat /\ "first" \in Tries
      BY <1>1 DEF Pass, Tries
    <2>2. [q EXCEPT !.chains = q.chains + 1, !.here = q.here + 1, !.size = size] \in Pass
      BY <1>1, <2>1 DEF Pass
    <2>3. "loop" \in Places
      BY DEF Places
    <2>. QED  BY <2>1, <2>2, <2>3, PassFlag, PassPlace
  <1>4. p.at = "loop" /\ p.resumed = pass.resumed
    BY <1>1 DEF Pass
  <1>5. Good(p)
    BY <1>3, <1>4 DEF Good
  <1>. HIDE DEF p
  <1>. QED  BY <1>2, <1>4, <1>5, SaveGood

\* A pass whose context is full starts afresh or is checkpointed.
LEMMA RestartOrEndGood ==
    ASSUME PassInv, pass.at \notin {"idle", "resuming"}, RestartOrEnd
    PROVE  PassInv' /\ pass'.at \in {"idle", "loop"} /\ UNCHANGED passes
  <1>1. CASE MayRestart
    <2>1. PICK size \in HandoverSizes : Fresh([pass EXCEPT !.at = "loop"], size)
      BY <1>1 DEF RestartOrEnd
    <2>2. UNCHANGED <<reported, lastEnd, passes>>
      BY <1>1 DEF RestartOrEnd
    <2>. QED  BY <2>1, <2>2, FreshGood
  <1>2. CASE ~MayRestart
    BY <1>2, EndCheckpointGood DEF RestartOrEnd
  <1>. QED  BY <1>1, <1>2

\* The synthesis starts, or starts again, from the handover.
LEMMA RebuildGood ==
    ASSUME PassInv, NEW size \in Nat, UNCHANGED <<reported, lastEnd>>,
           Save([pass EXCEPT !.chains = @ + 1, !.at = "send", !.try = "final",
                             !.size = size, !.rebuilt = TRUE], "running")
    PROVE  PassInv' /\ pass'.at = "send"
  <1>. DEFINE p == [pass EXCEPT !.chains = @ + 1, !.at = "send", !.try = "final",
                                !.size = size, !.rebuilt = TRUE]
  <1>1. pass \in Pass /\ pass.chains + 1 \in Nat /\ "send" \in Places /\ "final" \in Tries
    BY DEF PassInv, Good, Pass, Places, Tries
  <1>2. p \in Pass
    BY <1>1, PassNumber, PassPlace, PassFlag
  <1>3. p.at = "send" /\ p.try = "final" /\ p.rebuilt /\ p.resumed = pass.resumed
    BY <1>1 DEF Pass
  <1>4. Good(p)
    BY <1>2, <1>3 DEF Good
  <1>. HIDE DEF p
  <1>5. Save(p, "running")
    BY DEF p
  <1>. QED  BY <1>3, <1>4, <1>5, SaveGood

\* A final error about size has the handover rebuilt once, others end the pass.
LEMMA FinalErrorGood ==
    ASSUME PassInv, pass.at \notin {"idle", "resuming"}, NEW kind, FinalError(kind)
    PROVE  PassInv' /\ pass'.at \in {"idle", "send"} /\ UNCHANGED passes
  <1>1. CASE SizeFailure(kind) /\ ~pass.rebuilt
    <2>1. PICK size \in HandoverSizes :
              Save([pass EXCEPT !.chains = @ + 1, !.at = "send", !.try = "final",
                                !.size = size, !.rebuilt = TRUE], "running")
      BY <1>1 DEF FinalError
    <2>2. UNCHANGED <<reported, lastEnd, passes>>
      BY <1>1 DEF FinalError
    <2>. QED  BY <2>1, <2>2, RebuildGood
  <1>2. CASE ~(SizeFailure(kind) /\ ~pass.rebuilt) /\ kind \in {"exhausted", "overflow"}
    BY <1>2, FailGood DEF FinalError
  <1>3. CASE ~(SizeFailure(kind) /\ ~pass.rebuilt) /\ kind \notin {"exhausted", "overflow"}
    BY <1>3, CloseOutGood DEF FinalError
  <1>. QED  BY <1>1, <1>2, <1>3

\* A request that failed.
LEMMA RequestErrorGood ==
    ASSUME PassInv, pass.at \notin {"idle", "resuming"}, NEW kind, RequestError(kind)
    PROVE  PassInv' /\ pass'.at \in {"idle", "loop", "send"} /\ UNCHANGED passes
  <1>1. CASE Final
    BY <1>1, FinalErrorGood DEF RequestError
  <1>2. CASE ~Final /\ SizeFailure(kind)
    BY <1>2, RestartOrEndGood DEF RequestError, RoundError
  <1>3. CASE ~Final /\ ~SizeFailure(kind)
    BY <1>3, FailGood DEF RequestError, RoundError
  <1>. QED  BY <1>1, <1>2, <1>3

----------------------------------------------------------------------------
(* The meter *)

\* What GrantConserved says of a meter.
Conserved(m) == m.left + m.input + m.output + m.used + m.lost = m.grant

\* What the fields of a meter are.
LEMMA MeterFields ==
    ASSUME NEW m \in Meter
    PROVE  /\ m.grant \in Nat /\ m.left \in Nat /\ m.cap \in Nat /\ m.input \in Nat
           /\ m.output \in Nat /\ m.used \in Nat /\ m.lost \in Nat /\ m.est \in Nat
           /\ m.tries \in 0..2 /\ m.resized \in BOOLEAN
  BY DEF Meter

\* The stable context is at least one token.
LEMMA ContextPositive == ASSUME NEW limit \in Nat PROVE Context(limit) \in Nat \ {0}
  BY SMTT(60) DEF Context

\* A new meter has everything left.
LEMMA NewMeterGood == ASSUME NEW g \in Nat PROVE NewMeter(g) \in Meter /\ Conserved(NewMeter(g))
  BY DEF NewMeter, Meter, Conserved

\* A reservation takes what it holds from what is left.
LEMMA ReserveGood ==
    ASSUME meter \in Meter, Conserved(meter), meter.input = 0, meter.output = 0,
           NEW est \in Nat, Reserve(est)
    PROVE  meter' \in Meter /\ Conserved(meter') /\ meter'.input > 0
  <1>. DEFINE c == IF meter.cap = 0 THEN Context(Smaller(Ceiling, meter.left - MinOutput))
                                    ELSE meter.cap
              o == Smaller(c, meter.left - c)
  <1>1. /\ meter.left >= 2 * MinOutput /\ ~Exhausted(c)
        /\ meter' = [meter EXCEPT !.cap = c, !.input = c, !.output = o,
                                  !.left = @ - (c + o), !.est = est, !.tries = 0]
        /\ meter.left - MinOutput \in Nat
    <2>1. /\ meter.left >= 2 * MinOutput /\ ~Exhausted(c)
          /\ meter' = [meter EXCEPT !.cap = c, !.input = c, !.output = o,
                                    !.left = @ - (c + o), !.est = est, !.tries = 0]
      BY DEF Reserve
    <2>2. meter.left - MinOutput \in Nat
      BY <2>1, MeterFields
    <2>. QED  BY <2>1, <2>2
  <1>2. c \in Nat \ {0}
    <2>1. Smaller(Ceiling, meter.left - MinOutput) \in Nat
      BY <1>1 DEF Smaller
    <2>. QED  BY <2>1, ContextPositive, MeterFields
  <1>. HIDE DEF c
  <1>3. o \in Nat /\ c + o <= meter.left
    BY <1>1, <1>2, MeterFields DEF Exhausted, Smaller
  <1>. HIDE DEF o
  <1>4. meter.left - (c + o) \in Nat
    BY <1>2, <1>3, MeterFields
  <1>5. meter' \in Meter
    <2>. DEFINE l == meter.left - (c + o)
    <2>1. [meter EXCEPT !.cap = c, !.input = c, !.output = o] \in Meter
      BY <1>2, <1>3, MeterNumber
    <2>2. l \in Nat /\ 0 \in 0..2
      BY <1>4
    <2>3. meter' = [meter EXCEPT !.cap = c, !.input = c, !.output = o, !.left = l,
                                 !.est = est, !.tries = 0]
      BY <1>1
    <2>. HIDE DEF l
    <2>. QED  BY <2>1, <2>2, <2>3, MeterNumber, MeterTries
  <1>6. /\ meter'.left = meter.left - (c + o) /\ meter'.input = c /\ meter'.output = o
        /\ meter'.used = meter.used /\ meter'.lost = meter.lost /\ meter'.grant = meter.grant
    BY <1>1 DEF Meter
  <1>. QED  BY <1>2, <1>3, <1>5, <1>6, MeterFields DEF Conserved

\* The room left for the reply is returned; the reservation stays positive.
LEMMA ShrinkGood ==
    ASSUME meter \in Meter, Conserved(meter), Shrink
    PROVE  meter' \in Meter /\ Conserved(meter') /\ meter'.input = meter.input
           /\ meter'.grant = meter.grant
  <1>. DEFINE l == meter.left + meter.output - Room
              r == Room
  <1>1. meter' = [meter EXCEPT !.left = l, !.output = r]
    BY DEF Shrink
  <1>2. l \in Nat /\ r \in Nat /\ l + r = meter.left + meter.output
    BY MeterFields DEF Shrink, Fits, Shrinkable, Room
  <1>. HIDE DEF l, r
  <1>3. meter' \in Meter
    BY <1>1, <1>2, MeterNumber
  <1>4. /\ meter'.left = l /\ meter'.input = meter.input /\ meter'.output = r
        /\ meter'.used = meter.used /\ meter'.lost = meter.lost /\ meter'.grant = meter.grant
    BY <1>1 DEF Meter
  <1>. QED  BY <1>2, <1>3, <1>4, MeterFields DEF Conserved

\* Compaction only estimates again.
LEMMA CompactGood ==
    ASSUME meter \in Meter, Conserved(meter), NEW est \in Nat, Compact(est)
    PROVE  meter' \in Meter /\ Conserved(meter') /\ meter'.input = meter.input
           /\ meter'.grant = meter.grant
  <1>1. meter' = [meter EXCEPT !.est = est, !.tries = @ + 1] /\ meter.tries + 1 \in 0..2
    BY MeterFields DEF Compact
  <1>2. meter' \in Meter
    BY <1>1, MeterNumber, MeterTries
  <1>3. /\ meter'.left = meter.left /\ meter'.input = meter.input /\ meter'.output = meter.output
        /\ meter'.used = meter.used /\ meter'.lost = meter.lost /\ meter'.grant = meter.grant
    BY <1>1 DEF Meter
  <1>. QED  BY <1>2, <1>3 DEF Conserved

\* A refund, a settlement and a forfeit end the reservation and lose nothing.
LEMMA RefundGood ==
    ASSUME meter \in Meter, Conserved(meter)
    PROVE  Refund \in Meter /\ Conserved(Refund) /\ Refund.input = 0 /\ Refund.output = 0
  <1>. DEFINE l == meter.left + meter.input + meter.output
  <1>1. l \in Nat
    BY MeterFields
  <1>2. Refund = [meter EXCEPT !.left = l, !.input = 0, !.output = 0, !.resized = FALSE]
    BY DEF Refund
  <1>. HIDE DEF l
  <1>3. Refund \in Meter
    BY <1>1, <1>2, MeterNumber, MeterResized
  <1>4. /\ Refund.left = l /\ Refund.input = 0 /\ Refund.output = 0
        /\ Refund.used = meter.used /\ Refund.lost = meter.lost /\ Refund.grant = meter.grant
    BY <1>2 DEF Meter
  <1>. QED  BY <1>3, <1>4, MeterFields DEF Conserved, l

\* Settling a request moves its reservation to what is used and what is left ...
LEMMA SettleGood ==
    ASSUME meter \in Meter, Conserved(meter), NEW usage \in Nat,
           usage <= meter.input + meter.output
    PROVE  /\ Settle(usage) \in Meter /\ Conserved(Settle(usage))
           /\ Settle(usage).input = 0 /\ Settle(usage).output = 0
  <1>. DEFINE l == meter.left + meter.input + meter.output - usage
              u == meter.used + usage
              m == Settle(usage)
  <1>1. l \in Nat /\ u \in Nat
    BY MeterFields
  <1>2. m = [meter EXCEPT !.left = l, !.used = u, !.input = 0, !.output = 0, !.resized = FALSE]
    BY DEF Settle
  <1>. HIDE DEF l, u, m
  <1>3. m \in Meter
    BY <1>1, <1>2, MeterNumber, MeterResized
  <1>4. /\ m.left = l /\ m.input = 0 /\ m.output = 0
        /\ m.used = u /\ m.lost = meter.lost /\ m.grant = meter.grant
    BY <1>2 DEF Meter
  <1>5. Conserved(m)
    BY <1>4, MeterFields DEF Conserved, l, u
  <1>. QED  BY <1>3, <1>4, <1>5 DEF m

\* ... and forfeiting it, to what is lost.
LEMMA ForfeitGood ==
    ASSUME meter \in Meter, Conserved(meter)
    PROVE  Forfeit \in Meter /\ Conserved(Forfeit) /\ Forfeit.input = 0 /\ Forfeit.output = 0
  <1>. DEFINE k == meter.lost + meter.input + meter.output
  <1>1. k \in Nat
    BY MeterFields
  <1>2. Forfeit = [meter EXCEPT !.lost = k, !.input = 0, !.output = 0, !.resized = FALSE]
    BY DEF Forfeit
  <1>. HIDE DEF k
  <1>3. Forfeit \in Meter
    BY <1>1, <1>2, MeterNumber, MeterResized
  <1>4. /\ Forfeit.left = meter.left /\ Forfeit.input = 0 /\ Forfeit.output = 0
        /\ Forfeit.used = meter.used /\ Forfeit.lost = k /\ Forfeit.grant = meter.grant
    BY <1>2 DEF Meter
  <1>. QED  BY <1>3, <1>4, MeterFields DEF Conserved, k

\* The usage an endpoint reports is covered by the reservation.
LEMMA UsageCovered ==
    ASSUME MeterInv, pass.at = "wire", NEW usage \in Usages
    PROVE  usage \in Nat /\ usage <= meter.input + meter.output
  BY MeterFields DEF MeterInv, Usages, Reserved

----------------------------------------------------------------------------
(* Every step *)

\* A pass that only moves to another place of the same request.
LEMMA PlaceGood ==
    ASSUME PassInv, NEW a \in Places, pass' = [pass EXCEPT !.at = a],
           pass.at \in {"send", "fit", "wire"}, a \in {"send", "fit", "wire"},
           UNCHANGED <<doc, faults, reported, lastEnd>>
    PROVE  PassInv' /\ pass'.at = a
  <1>. DEFINE p == [pass EXCEPT !.at = a]
  <1>1. p \in Pass
    BY PassPlace DEF PassInv, Good, Tries
  <1>2. /\ p.at = a /\ p.try = pass.try /\ p.rounds = pass.rounds
        /\ p.rebuilt = pass.rebuilt /\ p.size = pass.size /\ p.resumed = pass.resumed
    BY DEF PassInv, Good, Pass
  <1>3. Good(p)
    BY <1>1, <1>2 DEF PassInv, Good
  <1>4. pass' = p
    OBVIOUS
  <1>. HIDE DEF p
  <1>. QED  BY <1>2, <1>3, <1>4, MoveGood

\* The estimates of a request are numbers.
LEMMA EstimateNat ==
    ASSUME PassInv, meter \in Meter
    PROVE  Estimates(Sent) \subseteq Nat /\ Estimates(meter.est) \subseteq Nat
  <1>1. pass.size \in Nat
    BY DEF PassInv, Good, Pass
  <1>. QED  BY <1>1, MeterFields DEF Estimates, Sent

\* The steps of the meter before the request is sent.
LEMMA FittingStep ==
    ASSUME Inv, \/ \E est \in Estimates(Sent) : Reserve(est)
                \/ SendUnmetered \/ Dispatch \/ Shrink \/ Resize
                \/ \E est \in Estimates(meter.est) : Compact(est)
    PROVE  Inv'
  <1>. USE DEF At
  <1>p. /\ PassInv /\ meter \in Meter /\ Conserved(meter) /\ Reserved /\ UNCHANGED passes
        /\ passes \in 0..MaxPasses /\ {"send", "fit", "wire"} \subseteq Places
    BY DEF Inv, MeterInv, GrantConserved, Conserved, Places, Reserve, SendUnmetered, Dispatch,
           Shrink, Resize, Compact
  <1>m. ASSUME PassInv', meter' \in Meter, Conserved(meter'), Reserved' PROVE Inv'
    BY <1>p, <1>m DEF Inv, MeterInv, GrantConserved, Conserved
  <1>1. CASE \E est \in Estimates(Sent) : Reserve(est)
    <2>1. PICK est \in Estimates(Sent) : Reserve(est)
      BY <1>1
    <2>2. /\ pass' = [pass EXCEPT !.at = "fit"] /\ pass.at = "send"
          /\ UNCHANGED <<doc, faults, reported, lastEnd>>
      BY <2>1 DEF Reserve
    <2>3. PassInv' /\ pass'.at = "fit"
      BY <1>p, <2>2, PlaceGood
    <2>4. meter' \in Meter /\ Conserved(meter') /\ meter'.input > 0
      BY <1>p, <2>1, <2>2, EstimateNat, ReserveGood DEF Reserved
    <2>. QED  BY <1>m, <2>3, <2>4 DEF Reserved
  <1>2. CASE SendUnmetered
    <2>1. /\ pass' = [pass EXCEPT !.at = "wire"] /\ pass.at = "send" /\ meter.grant = 0
          /\ UNCHANGED <<doc, faults, reported, lastEnd, meter>>
      BY <1>2 DEF SendUnmetered
    <2>2. PassInv' /\ pass'.at = "wire"
      BY <1>p, <2>1, PlaceGood
    <2>. QED  BY <1>p, <1>m, <2>1, <2>2 DEF Reserved
  <1>3. CASE Dispatch
    <2>1. /\ pass' = [pass EXCEPT !.at = "wire"] /\ pass.at = "fit"
          /\ UNCHANGED <<doc, faults, reported, lastEnd, meter>>
      BY <1>3 DEF Dispatch
    <2>2. PassInv' /\ pass'.at = "wire"
      BY <1>p, <2>1, PlaceGood
    <2>. QED  BY <1>p, <1>m, <2>1, <2>2 DEF Reserved
  <1>4. CASE Shrink \/ \E est \in Estimates(meter.est) : Compact(est)
    <2>1. /\ meter' \in Meter /\ Conserved(meter')
          /\ meter'.input = meter.input /\ meter'.grant = meter.grant
      BY <1>p, <1>4, EstimateNat, ShrinkGood, CompactGood
    <2>2. pass.at = "fit" /\ UNCHANGED <<doc, pass, faults, reported, lastEnd>>
      BY <1>4 DEF Shrink, Compact
    <2>3. PassInv'
      BY <1>p, <2>2 DEF PassInv, Good, Documents, ResumesCheckpointsOnly
    <2>. QED  BY <1>p, <1>m, <2>1, <2>2, <2>3 DEF Reserved
  <1>5. CASE Resize
    <2>1. /\ pass' = [pass EXCEPT !.at = "send"] /\ pass.at = "fit"
          /\ UNCHANGED <<doc, faults, reported, lastEnd>>
          /\ meter' = [Refund EXCEPT !.cap = Required, !.resized = TRUE]
      BY <1>5 DEF Resize, Refused
    <2>2. PassInv' /\ pass'.at = "send"
      BY <1>p, <2>1, PlaceGood
    <2>3. Refund \in Meter /\ Conserved(Refund) /\ Refund.input = 0 /\ Refund.output = 0
      BY <1>p, RefundGood
    <2>4. Required \in Nat
      BY <1>p, MeterFields DEF Required
    <2>. HIDE DEF Refund, Required
    <2>5. meter' \in Meter
      BY <2>1, <2>3, <2>4, MeterNumber, MeterResized
    <2>6. /\ meter'.left = Refund.left /\ meter'.input = 0 /\ meter'.output = 0
          /\ meter'.used = Refund.used /\ meter'.lost = Refund.lost /\ meter'.grant = Refund.grant
      BY <2>1, <2>3 DEF Meter
    <2>7. Conserved(meter')
      BY <2>3, <2>6 DEF Conserved
    <2>. QED  BY <1>m, <2>2, <2>5, <2>6, <2>7 DEF Reserved
  <1>. QED  BY <1>1, <1>2, <1>3, <1>4, <1>5

\* A request that fails: the pass goes on or ends, and its reservation is over.
LEMMA ErrorStep ==
    ASSUME Inv, GrantExhausted \/ RefusedError \/ EndpointFails
    PROVE  Inv'
  <1>. USE DEF At
  <1>p. PassInv /\ meter \in Meter /\ Conserved(meter) /\ Reserved /\ passes \in 0..MaxPasses
    BY DEF Inv, MeterInv, GrantConserved, Conserved
  <1>1. /\ pass.at \in {"send", "fit", "wire"}
        /\ \E kind : RequestError(kind)
    BY DEF GrantExhausted, RefusedError, EndpointFails, Refused
  <1>2. PassInv' /\ pass'.at \in {"idle", "loop", "send"} /\ UNCHANGED passes
    BY <1>p, <1>1, RequestErrorGood
  <1>3. meter' \in Meter /\ Conserved(meter') /\ meter'.input = 0 /\ meter'.output = 0
    <2>1. CASE GrantExhausted
      BY <1>p, <2>1 DEF GrantExhausted, Reserved
    <2>2. CASE RefusedError
      BY <1>p, <2>2, RefundGood DEF RefusedError
    <2>3. CASE EndpointFails
      BY <1>p, <2>3, ForfeitGood DEF EndpointFails
    <2>. QED  BY <2>1, <2>2, <2>3
  <1>. QED  BY <1>p, <1>2, <1>3 DEF Inv, MeterInv, GrantConserved, Conserved, Reserved

\* An answer: its usage is settled.
LEMMA AnswerStep ==
    ASSUME Inv, NEW usage \in Usages,
           \/ AnswerText(usage) \/ AnswerEmpty(usage) \/ FinalText(usage) \/ FinalEmpty(usage)
           \/ \E kind \in {"tools", "local"} : AnswerTools(usage, kind)
    PROVE  Inv'
  <1>. USE DEF At
  <1>p. /\ PassInv /\ MeterInv /\ meter \in Meter /\ Conserved(meter)
        /\ passes \in 0..MaxPasses /\ pass \in Pass /\ pass.at = "wire"
    BY DEF Inv, PassInv, Good, MeterInv, GrantConserved, Conserved, AnswerText, AnswerEmpty,
           FinalText, FinalEmpty, AnswerTools
  <1>1. meter' = Settle(usage)
    BY DEF AnswerText, AnswerEmpty, FinalText, FinalEmpty, AnswerTools
  <1>2. meter' \in Meter /\ Conserved(meter') /\ meter'.input = 0 /\ meter'.output = 0
    BY <1>p, <1>1, UsageCovered, SettleGood
  <1>m. ASSUME PassInv', pass'.at \notin {"fit", "wire"}, UNCHANGED passes PROVE Inv'
    BY <1>p, <1>m, <1>2 DEF Inv, MeterInv, GrantConserved, Conserved, Reserved
  <1>3. CASE AnswerText(usage) \/ FinalText(usage)
    BY <1>p, <1>m, <1>3, CloseOutGood DEF AnswerText, FinalText
  <1>4. ASSUME NEW t \in {"again", "finalAgain"}, pass' = [pass EXCEPT !.at = "send", !.try = t],
               t = "again" => pass.try = "first",
               UNCHANGED <<doc, reported, lastEnd, passes, faults>>
        PROVE  Inv'
    <2>. DEFINE p == [pass EXCEPT !.at = "send", !.try = t]
    <2>1. "send" \in Places /\ t \in Tries
      BY DEF Places, Tries
    <2>2. p \in Pass
      BY <1>p, <2>1, PassPlace
    <2>3. /\ p.at = "send" /\ p.try = t /\ p.rounds = pass.rounds
          /\ p.rebuilt = pass.rebuilt /\ p.size = pass.size /\ p.resumed = pass.resumed
      BY <1>p DEF Pass
    <2>4. Good(p)
      BY <1>p, <1>4, <2>2, <2>3 DEF PassInv, Good
    <2>5. pass' = p
      BY <1>4
    <2>. HIDE DEF p
    <2>6. PassInv'
      BY <1>p, <1>4, <2>3, <2>4, <2>5, MoveGood
    <2>. QED  BY <1>m, <1>4, <2>3, <2>5, <2>6
  <1>5. CASE AnswerEmpty(usage)
    <2>1. CASE pass.try = "first"
      BY <1>4, <1>5, <2>1 DEF AnswerEmpty
    <2>2. CASE pass.try # "first"
      BY <1>p, <1>m, <1>5, <2>2, FailGood DEF AnswerEmpty
    <2>. QED  BY <2>1, <2>2
  <1>6. CASE FinalEmpty(usage)
    <2>1. CASE pass.try = "final"
      BY <1>4, <1>6, <2>1 DEF FinalEmpty
    <2>2. CASE pass.try # "final"
      BY <1>p, <1>m, <1>6, <2>2, FinalErrorGood DEF FinalEmpty
    <2>. QED  BY <2>1, <2>2
  <1>7. CASE \E kind \in {"tools", "local"} : AnswerTools(usage, kind)
    <2>1. PICK kind \in {"tools", "local"} : AnswerTools(usage, kind)
      BY <1>7
    <2>. DEFINE p == [pass EXCEPT !.at = "tools", !.fresh = FALSE, !.answer = kind]
    <2>2. p \in Pass
      BY <1>p DEF Pass, Places
    <2>3. p.at = "tools" /\ p.rounds = pass.rounds /\ p.resumed = pass.resumed
      BY <1>p DEF Pass
    <2>4. pass' = p /\ ~Final /\ UNCHANGED <<doc, reported, lastEnd, passes, faults>>
      BY <2>1 DEF AnswerTools
    <2>5. pass.rounds < MaxSteps
      BY <1>p, <2>4 DEF PassInv, Good, Pass, Tries, Final
    <2>6. Good(p)
      BY <2>2, <2>3, <2>5 DEF Good
    <2>. HIDE DEF p
    <2>7. PassInv'
      BY <1>p, <2>3, <2>4, <2>6, MoveGood
    <2>. QED  BY <1>m, <2>3, <2>4, <2>7
  <1>. QED  BY <1>3, <1>5, <1>6, <1>7

\* The tools run, or the caller is gone.
LEMMA ToolsStep ==
    ASSUME Inv, (\E growth \in Growth : RunTools(growth)) \/ SinkFails
    PROVE  Inv'
  <1>. USE DEF At
  <1>p. /\ PassInv /\ MeterInv /\ passes \in 0..MaxPasses /\ pass \in Pass /\ pass.at = "tools"
        /\ UNCHANGED <<meter, passes>>
    BY DEF Inv, PassInv, Good, RunTools, SinkFails
  <1>m. ASSUME PassInv', pass'.at \notin {"fit", "wire"} PROVE Inv'
    BY <1>p, <1>m DEF Inv, MeterInv, GrantConserved, Reserved
  <1>1. CASE SinkFails
    <2>1. Ends("failed", {}, TRUE) /\ UNCHANGED <<doc, faults>>
      BY <1>1 DEF SinkFails
    <2>2. "failed" \in Outcomes /\ doc \in Docs /\ faults \in 0..MaxFaults
      BY <1>p DEF PassInv, Outcomes
    <2>. QED  BY <1>p, <1>m, <2>1, <2>2, Reduced, EndGood
  <1>2. ASSUME NEW growth \in Growth, RunTools(growth) PROVE Inv'
    <2>. DEFINE c == Counted(pass)
                p == [c EXCEPT !.at = "loop", !.size = @ + growth, !.answer = "none"]
    <2>1. pass.rounds < MaxSteps
      BY <1>p DEF PassInv, Good
    <2>2. c \in Pass /\ c.resumed = pass.resumed
      <3>1. pass.rounds + 1 \in 0..MaxSteps /\ (pass.local # MaxLocal => pass.local + 1 \in 0..MaxLocal)
        BY <1>p, <2>1 DEF Pass
      <3>2. CASE pass.answer = "tools" \/ pass.local = MaxLocal
        <4>1. c = [pass EXCEPT !.rounds = pass.rounds + 1, !.local = 0]
          BY <3>2 DEF Counted
        <4>2. 0 \in 0..MaxLocal
          OBVIOUS
        <4>. HIDE DEF c
        <4>. QED  BY <1>p, <3>1, <4>1, <4>2 DEF Pass
      <3>3. CASE ~(pass.answer = "tools" \/ pass.local = MaxLocal)
        BY <1>p, <3>1, <3>3 DEF Counted, Pass
      <3>. QED  BY <3>2, <3>3
    <2>. HIDE DEF c
    <2>3. p \in Pass
      <3>1. c.size + growth \in Nat /\ "loop" \in Places
        BY <2>2 DEF Pass, Places
      <3>2. [c EXCEPT !.at = "loop", !.size = c.size + growth] \in Pass
        BY <2>2, <3>1 DEF Pass
      <3>3. ASSUME NEW q \in Pass PROVE [q EXCEPT !.answer = "none"] \in Pass
        BY DEF Pass
      <3>. QED  BY <2>2, <3>2, <3>3
    <2>4. p.at = "loop" /\ p.resumed = pass.resumed
      BY <2>2 DEF Pass
    <2>5. Good(p)
      BY <2>3, <2>4 DEF Good
    <2>6. /\ (pass' = p /\ UNCHANGED <<doc, faults>>) \/ Save(p, "running")
          /\ UNCHANGED <<reported, lastEnd>>
      BY <1>2 DEF RunTools, c
    <2>. HIDE DEF p
    <2>7. PassInv' /\ pass'.at = "loop"
      BY <1>p, <2>4, <2>5, <2>6, MoveGood, SaveGood
    <2>. QED  BY <1>m, <2>7
  <1>. QED  BY <1>1, <1>2

\* A pass starts, resumes, goes round its loop, is cancelled or dies.
LEMMA LoopStep ==
    ASSUME Inv, \/ \E size \in HandoverSizes : Resume(size)
                \/ LoopCancelled \/ LoopHard \/ LoopSoft \/ LoopSend \/ Synthesize
    PROVE  Inv'
  <1>. USE DEF At
  <1>p. /\ PassInv /\ MeterInv /\ passes \in 0..MaxPasses /\ pass \in Pass
        /\ pass.at \in {"loop", "resuming"} /\ UNCHANGED <<meter, passes>>
    BY RestartOrEndGood DEF Inv, PassInv, Good, Resume, LoopCancelled, LoopHard, LoopSoft, LoopSend, Synthesize,
           InLoop
  <1>m. ASSUME PassInv', pass'.at \notin {"fit", "wire"} PROVE Inv'
    BY <1>p, <1>m DEF Inv, MeterInv, GrantConserved, Reserved
  <1>1. ASSUME NEW size \in HandoverSizes, Resume(size) PROVE Inv'
    BY <1>p, <1>m, <1>1, FreshGood DEF Resume
  <1>2. CASE LoopCancelled
    <2>1. Ends("cancelled", {"cancelled"}, TRUE) /\ UNCHANGED <<doc, faults>> /\ pass.at = "loop"
      BY <1>2 DEF LoopCancelled
    <2>2. "cancelled" \in Outcomes /\ doc \in Docs /\ faults \in 0..MaxFaults
      BY <1>p DEF PassInv, Outcomes
    <2>. QED  BY <1>p, <1>m, <2>1, <2>2, Reduced, EndGood
  <1>3. CASE LoopHard
    BY <1>p, <1>m, <1>3, RestartOrEndGood DEF LoopHard, InLoop
  <1>4. CASE LoopSoft
    <2>. DEFINE p == [pass EXCEPT !.at = "send", !.try = "first", !.asked = TRUE, !.size = @ + Note]
    <2>1. pass.size + Note \in Nat /\ "send" \in Places /\ "first" \in Tries
      BY <1>p DEF Pass, Places, Tries
    <2>2. p \in Pass
      BY <1>p, <2>1, PassPlace, PassFlag, PassNumber
    <2>3. /\ p.at = "send" /\ p.try = "first" /\ p.rounds = pass.rounds /\ p.rebuilt = pass.rebuilt
          /\ p.size = pass.size + Note /\ p.resumed = pass.resumed
      BY <1>p DEF Pass
    <2>4. pass.rounds < MaxSteps /\ pass.size <= Hard
      BY <1>4 DEF LoopSoft, InLoop
    <2>5. p.size <= Hard + Note
      BY <1>p, <2>3, <2>4 DEF Pass
    <2>6. Good(p)
      BY <2>2, <2>3, <2>4, <2>5 DEF Good
    <2>7. Save(p, "running") /\ UNCHANGED <<reported, lastEnd>>
      BY <1>4 DEF LoopSoft
    <2>. HIDE DEF p
    <2>. QED  BY <1>p, <1>m, <2>3, <2>6, <2>7, SaveGood
  <1>5. ASSUME NEW t \in {"first", "final"}, pass' = [pass EXCEPT !.at = "send", !.try = t],
               t = "first" => pass.rounds < MaxSteps, pass.size <= Hard, pass.at = "loop",
               UNCHANGED <<doc, reported, lastEnd, faults>>
        PROVE  Inv'
    <2>. DEFINE p == [pass EXCEPT !.at = "send", !.try = t]
    <2>1. "send" \in Places /\ t \in Tries
      BY DEF Places, Tries
    <2>2. p \in Pass
      BY <1>p, <2>1, PassPlace
    <2>3. /\ p.at = "send" /\ p.try = t /\ p.rounds = pass.rounds /\ p.rebuilt = pass.rebuilt
          /\ p.size = pass.size /\ p.resumed = pass.resumed
      BY <1>p DEF Pass
    <2>4. p.size <= Hard + Note
      BY <1>p, <1>5, <2>3 DEF Pass
    <2>5. Good(p)
      BY <1>5, <2>2, <2>3, <2>4 DEF Good
    <2>6. pass' = p
      BY <1>5
    <2>. HIDE DEF p
    <2>. QED  BY <1>p, <1>m, <1>5, <2>3, <2>5, <2>6, MoveGood
  <1>6. CASE LoopSend
    BY <1>5, <1>6 DEF LoopSend, InLoop
  <1>7. CASE Synthesize
    <2>1. CASE pass.size > Soft
      <3>1. PICK size \in HandoverSizes :
                Save([pass EXCEPT !.at = "send", !.try = "final", !.size = size,
                                  !.chains = @ + 1, !.rebuilt = TRUE], "running")
        BY <1>7, <2>1 DEF Synthesize
      <3>2. [pass EXCEPT !.at = "send", !.try = "final", !.size = size,
                         !.chains = @ + 1, !.rebuilt = TRUE]
            = [pass EXCEPT !.chains = @ + 1, !.at = "send", !.try = "final",
                           !.size = size, !.rebuilt = TRUE]
        BY <1>p DEF Pass
      <3>3. UNCHANGED <<reported, lastEnd>>
        BY <1>7 DEF Synthesize
      <3>4. PassInv' /\ pass'.at = "send"
        BY <1>p, <3>1, <3>2, <3>3, RebuildGood
      <3>. QED  BY <1>m, <3>4
    <2>2. CASE ~(pass.size > Soft)
      <3>1. pass.size <= Hard
        BY <1>p, <2>2 DEF Pass
      <3>. QED  BY <1>5, <1>7, <2>2, <3>1 DEF Synthesize
    <2>. QED  BY <2>1, <2>2
  <1>. QED  BY <1>1, <1>2, <1>3, <1>4, <1>6, <1>7

\* A pass starts, afresh or from the document.
LEMMA StartStep == ASSUME Inv, NEW grant \in Grants, Start(grant) PROVE Inv'
  <1>. USE DEF At
  <1>1. PassInv /\ pass.at = "idle" /\ passes \in 0..MaxPasses
    BY DEF Inv, Start
  <1>2. /\ meter' = NewMeter(grant) /\ UNCHANGED <<doc, reported, lastEnd, faults>>
        /\ passes < MaxPasses /\ passes' = passes + 1
    BY DEF Start
  <1>3. grant \in Nat
    OBVIOUS
  <1>4. meter' \in Meter /\ Conserved(meter') /\ meter'.input = 0 /\ meter'.output = 0
    <2>1. NewMeter(grant).input = 0 /\ NewMeter(grant).output = 0
      BY DEF NewMeter
    <2>. QED  BY <1>2, <1>3, <2>1, NewMeterGood
  <1>5. Good(pass)' /\ pass'.at \in {"resuming", "loop"}
        /\ (pass'.at = "resuming" \/ pass'.resumed => doc.status = "checkpointed")
        /\ (doc.status = "checkpointed" => pass'.at = "resuming")
    <2>1. CASE Resumable(doc)
      <3>1. pass' = [NoPass EXCEPT !.at = "resuming", !.chains = doc.chains, !.resumed = TRUE]
        BY <2>1 DEF Start
      <3>2. doc.chains \in Nat /\ doc.status = "checkpointed"
        BY <1>1, <2>1 DEF PassInv, Docs, Resumable
      <3>3. NoPass \in Pass
        BY NoPassGood DEF Good
      <3>. HIDE DEF NoPass
      <3>4. pass' \in Pass /\ pass'.at = "resuming"
        BY <3>1, <3>2, <3>3 DEF Pass, Places
      <3>. QED  BY <3>2, <3>4 DEF Good
    <2>2. CASE ~Resumable(doc)
      <3>1. pass' = [NoPass EXCEPT !.at = "loop", !.size = PromptSize]
        BY <2>2 DEF Start
      <3>2. NoPass \in Pass /\ ~NoPass.resumed
        BY NoPassGood DEF Good
      <3>. HIDE DEF NoPass
      <3>3. pass' \in Pass /\ pass'.at = "loop" /\ ~pass'.resumed
        BY <3>1, <3>2 DEF Pass, Places
      <3>. QED  BY <2>2, <3>3 DEF Good, Resumable
    <2>. QED  BY <2>1, <2>2
  <1>6. PassInv'
    BY <1>1, <1>2, <1>5 DEF PassInv, Documents, ResumesCheckpointsOnly
  <1>7. Reserved'
    BY <1>4, <1>5 DEF Reserved
  <1>. QED  BY <1>1, <1>2, <1>4, <1>6, <1>7 DEF Inv, MeterInv, GrantConserved, Conserved

\* A cancelled pass goes on to notice; a crash ends it and keeps the document.
LEMMA StopStep == ASSUME Inv, Cancel \/ Crash PROVE Inv'
  <1>p. /\ PassInv /\ MeterInv /\ passes \in 0..MaxPasses /\ pass \in Pass
        /\ UNCHANGED <<meter, passes, doc, faults>>
    BY DEF Inv, PassInv, Good, Cancel, Crash
  <1>1. CASE Cancel
    <2>1. UNCHANGED <<reported, lastEnd>>
      BY <1>1 DEF Cancel
    <2>2. pass' \in Pass
      BY <1>1, <1>p, PassFlag DEF Cancel
    <2>3. /\ pass'.at = pass.at /\ pass'.try = pass.try /\ pass'.rounds = pass.rounds
          /\ pass'.rebuilt = pass.rebuilt /\ pass'.size = pass.size
          /\ pass'.resumed = pass.resumed
      BY <1>1, <1>p DEF Cancel, Pass
    <2>4. PassInv'
      BY <1>p, <2>1, <2>2, <2>3 DEF PassInv, Good, Documents, ResumesCheckpointsOnly
    <2>. QED  BY <1>p, <2>3, <2>4 DEF Inv, MeterInv, GrantConserved, Reserved
  <1>2. CASE Crash
    <2>1. pass' = NoPass /\ lastEnd' = "crashed" /\ reported' = "none"
      BY <1>2 DEF Crash
    <2>2. PassInv'
      BY <1>p, <2>1, NoPassGood DEF PassInv, Good, Documents, ResumesCheckpointsOnly
    <2>. QED  BY <1>p, <2>1, <2>2, NoPassGood DEF Inv, MeterInv, GrantConserved, Reserved
  <1>. QED  BY <1>1, <1>2

\* There is no pass, no document and no grant.
LEMMA InitInv == Init => Inv
  <1>. SUFFICES ASSUME Init PROVE Inv
    OBVIOUS
  <1>1. meter \in Meter /\ Conserved(meter)
    BY NewMeterGood DEF Init
  <1>2. PassInv
    BY NoPassGood DEF Init, PassInv, Docs, Documents, ResumesCheckpointsOnly
  <1>. QED  BY <1>1, <1>2, NoPassGood DEF Init, Inv, MeterInv, GrantConserved, Conserved, Reserved

\* Every step keeps the invariant.
LEMMA NextInv == Inv /\ [Next]_vars => Inv'
  <1>. SUFFICES ASSUME Inv, [Next]_vars PROVE Inv'
    OBVIOUS
  <1>1. CASE Step
    BY <1>1, FittingStep, ErrorStep, AnswerStep, ToolsStep, LoopStep DEF Step
  <1>2. CASE Next /\ ~Step
    BY <1>2, StartStep, StopStep, ToolsStep DEF Next
  <1>3. CASE UNCHANGED vars
    BY <1>3 DEF vars, Inv, PassInv, Good, Documents, ResumesCheckpointsOnly, MeterInv,
                GrantConserved, Reserved
  <1>. QED  BY <1>1, <1>2, <1>3

\* The invariant holds of every run.
LEMMA AlwaysInv == Spec => []Inv
  BY InitInv, NextInv, PTL DEF Spec

\* Every reachable document, pass and meter has its type.
THEOREM TypeCorrect == Spec => []TypeOK
  <1>1. Inv => TypeOK
    BY DEF Inv, PassInv, Good, MeterInv, TypeOK, Docs, Outcomes
  <1>. QED  BY <1>1, AlwaysInv, PTL

\* The token grant of a pass is conserved, whatever its size and the ceiling,
\* however the estimates fall and whatever the endpoint reports.
THEOREM GrantIsConserved == Spec => []GrantConserved
  <1>1. Inv => GrantConserved
    BY DEF Inv, MeterInv
  <1>. QED  BY <1>1, AlwaysInv, PTL

\* No request of a chain is sent past the hard threshold, for any thresholds
\* and any sizes of answers, handovers and instructions.
THEOREM RequestsAreJudged == Spec => []SentWithinHard
  <1>1. Inv => SentWithinHard
    BY DEF Inv, PassInv, Good, Pass, SentWithinHard, Sent, At
  <1>. QED  BY <1>1, AlwaysInv, PTL

\* Only a deliberate checkpoint is resumed, as long as the document was written.
THEOREM OnlyCheckpointsResume == Spec => []ResumesCheckpointsOnly
  <1>1. Inv => ResumesCheckpointsOnly
    BY DEF Inv, PassInv
  <1>. QED  BY <1>1, AlwaysInv, PTL

\* Every end of a pass gives the reducer one terminal event that agrees.
THEOREM OutcomesAgree == Spec => []OutcomeReported
  <1>1. Inv => OutcomeReported
    BY DEF Inv, PassInv, Outcomes, OutcomeReported
  <1>. QED  BY <1>1, AlwaysInv, PTL
==============================================================================
