------------------------------ MODULE AgentRun ------------------------------
(***************************************************************************)
(* One run of an API provider (pkg/execution), pass after pass.            *)
(*                                                                         *)
(* A pass (APIProvider.Execute) is a loop of model requests and tool calls *)
(* that share a growing conversation, the request chain.  The context      *)
(* policy asks for a handover past a soft size and ends the chain past a   *)
(* hard one: the next chain starts from the handover document alone, and   *)
(* when it may not, the pass ends as a checkpoint that a later pass        *)
(* resumes from disk.  Every request goes through a meter that owns the    *)
(* hard token grant of the pass: it reserves the worst case, sends, and    *)
(* settles.  The stdio command reduces what the pass emitted to one        *)
(* terminal event for the caller.                                          *)
(*                                                                         *)
(* Sizes are token estimates; texts, tool inputs and the document's        *)
(* content are left out, and so is a provider without a context policy.    *)
(***************************************************************************)
EXTENDS Naturals, FiniteSets

CONSTANTS
    Grants,         \* token grants of a pass; 0: none was given
    MinOutput,      \* minimumOutput, the least reply reserved (2048)
    Margin,         \* serialization margin of a resized context (16)
    Ceiling,        \* largest context of one inference
    Soft, Hard,     \* thresholds of the context policy
    PromptSize,     \* size of the first request
    Growth,         \* what one answer and its tool results may add
    HandoverSizes,  \* sizes the rendered handover may have
    Note,           \* size of an instruction the harness appends
    MaxSteps,       \* tool rounds of a pass
    MaxLocal,       \* harness-only rounds before they count as a round (8)
    MaxChains,      \* chains of the policy
    MaxPasses,      \* bound: passes of the run
    MaxFaults       \* bound: failed writes of the document

ASSUME AgentRunAssumption ==
    /\ Grants \subseteq Nat /\ Growth \subseteq Nat \ {0} /\ HandoverSizes \subseteq Nat \ {0}
    /\ MinOutput \in Nat \ {0} /\ Margin \in Nat /\ Ceiling \in Nat /\ MinOutput <= Ceiling
    /\ Soft \in Nat /\ Hard \in Nat /\ Soft <= Hard
    /\ PromptSize \in Nat \ {0} /\ Note \in Nat
    /\ {MaxSteps, MaxLocal, MaxChains, MaxPasses, MaxFaults} \subseteq Nat

VARIABLES
    doc,       \* handover.json: status and chains
    pass,      \* the running pass
    meter,     \* its token meter
    reported,  \* outcome of the last pass as the caller receives it
    lastEnd,   \* history: how the last pass ended
    passes, faults

vars == <<doc, pass, meter, reported, lastEnd, passes, faults>>

----------------------------------------------------------------------------
(* The pass *)

Smaller(a, b) == IF a < b THEN a ELSE b

Places == {"idle", "resuming", "loop", "send", "fit", "wire", "tools", "synth"}
Tries == {"first", "again", "final", "finalAgain"}
Pass == [at : Places, size : Nat, try : Tries,
         fresh : BOOLEAN,      \* the request is the handover and nothing else
         asked : BOOLEAN,      \* the chain has been asked for a handover
         rounds : 0..MaxSteps, local : 0..MaxLocal,
         chains : Nat,         \* chains of all passes, as the document counts
         here : Nat,           \* history: chains of this pass
         written : BOOLEAN,    \* this pass has written the document
         rebuilt : BOOLEAN,    \* the synthesis starts from the handover
         answer : {"none", "tools", "local"},
         resumed : BOOLEAN, cancelled : BOOLEAN]

NoPass == [at |-> "idle", size |-> 0, try |-> "first", fresh |-> FALSE, asked |-> FALSE,
           rounds |-> 0, local |-> 0, chains |-> 0, here |-> 0, written |-> FALSE,
           rebuilt |-> FALSE, answer |-> "none", resumed |-> FALSE, cancelled |-> FALSE]

At(place) == pass.at = place
\* The second try of a request carries one more instruction.
Sent == IF pass.try \in {"again", "finalAgain"} THEN pass.size + Note ELSE pass.size
Final == pass.try \in {"final", "finalAgain"}

----------------------------------------------------------------------------
(* The handover document *)

\* save: best effort, so the pass goes on when the document cannot be written.
Save(p, status) ==
    \/ /\ doc' = [status |-> status, chains |-> p.chains]
       /\ pass' = [p EXCEPT !.written = TRUE]
       /\ UNCHANGED faults
    \/ /\ faults < MaxFaults /\ faults' = faults + 1
       /\ pass' = p
       /\ UNCHANGED doc

\* freshMessages: a new chain starts from the handover, which is saved.
Fresh(p, size) ==
    Save([p EXCEPT !.chains = @ + 1, !.here = @ + 1, !.size = size, !.asked = FALSE,
                   !.fresh = TRUE, !.try = "first"], "running")

\* load: only a deliberate checkpoint is resumed.
\* (Mutation: every document that is not complete is resumed.)
ResumableUnlessComplete(d) == d.status \in {"running", "checkpointed"}
Resumable(d) == d.status = "checkpointed"

----------------------------------------------------------------------------
(* The end of a pass *)

\* executionTerminalReducer: one terminal event that agrees with the outcome
\* passes; an error without one is a failure; anything else is refused.
Agrees(outcome, event, failed) ==
    /\ failed => outcome \in {"failed", "cancelled"}
    /\ outcome = event
Reduce(outcome, events, failed) ==
    IF events = {} /\ failed THEN "failed"
    ELSE IF \E e \in events : events = {e} /\ Agrees(outcome, e, failed) THEN outcome
    ELSE "protocol_error"

\* Execute returns outcome with the terminal events it emitted.
Ends(outcome, events, failed) ==
    /\ pass' = NoPass
    /\ reported' = Reduce(outcome, events, failed)
    /\ lastEnd' = outcome

\* closeOut("complete"), when this pass has written the document.
CloseOut ==
    IF ~pass.written THEN UNCHANGED <<doc, faults>>
    ELSE \/ doc' = [status |-> "complete", chains |-> pass.chains] /\ UNCHANGED faults
         \/ faults < MaxFaults /\ faults' = faults + 1 /\ UNCHANGED doc

\* (Mutation: the error that ended the chain is returned with the checkpoint.)
EndCheckpointWithError ==
    /\ doc' = [status |-> "checkpointed", chains |-> pass.chains]
    /\ Ends("checkpoint", {"checkpoint"}, TRUE)
    /\ UNCHANGED <<passes, faults>>

\* endCheckpoint: the document is marked for the next pass.
EndCheckpoint ==
    /\ \/ doc' = [status |-> "checkpointed", chains |-> pass.chains] /\ UNCHANGED faults
       \/ faults < MaxFaults /\ faults' = faults + 1 /\ UNCHANGED doc
    /\ Ends("checkpoint", {"checkpoint"}, FALSE)
    /\ UNCHANGED passes

\* restart, or the end of the pass when the request is the handover already or
\* the chains are used up.
MayRestart == ~pass.fresh /\ pass.chains < MaxChains
\* (Mutation: a handover that is too large is rebuilt again and again, which no
\* longer counts as a chain.)
RestartOrEndStubborn ==
    /\ LET again == IF MayRestart THEN pass ELSE [pass EXCEPT !.chains = @ - 1, !.here = @ - 1]
       IN  \E size \in HandoverSizes : Fresh([again EXCEPT !.at = "loop"], size)
    /\ UNCHANGED <<reported, lastEnd, passes>>
\* (Mutation: the restarted request is sent without being judged.)
RestartOrEndUnjudged ==
    IF MayRestart
    THEN /\ \E size \in HandoverSizes : Fresh([pass EXCEPT !.at = "send"], size)
         /\ UNCHANGED <<reported, lastEnd, passes>>
    ELSE EndCheckpoint
RestartOrEnd ==
    IF MayRestart
    THEN /\ \E size \in HandoverSizes : Fresh([pass EXCEPT !.at = "loop"], size)
         /\ UNCHANGED <<reported, lastEnd, passes>>
    ELSE EndCheckpoint

Fail(outcome) ==
    /\ Ends(outcome, {outcome}, TRUE)
    /\ UNCHANGED <<doc, passes, faults>>

----------------------------------------------------------------------------
(* The token meter *)

Meter == [grant : Nat, left : Nat, cap : Nat,
          input : Nat, output : Nat,   \* the reservation of the request in flight
          used : Nat,                  \* reported by the endpoint
          lost : Nat,                  \* reserved, sent, and never reported
          est : Nat,                   \* the adapter's estimate of the request
          tries : 0..2, resized : BOOLEAN]

NewMeter(grant) == [grant |-> grant, left |-> grant, cap |-> 0, input |-> 0, output |-> 0,
                    used |-> 0, lost |-> 0, est |-> 0, tries |-> 0, resized |-> FALSE]

\* The stable context of a pass: the largest power-of-two multiple that fits.
Context(limit) ==
    LET fits == {c \in {MinOutput * 2^i : i \in 0..6} : c <= limit}
    IN  IF fits = {} THEN MinOutput ELSE CHOOSE c \in fits : \A d \in fits : d <= c
Target == Context(Ceiling)

\* The adapter's estimate is the padded one or, when the endpoint has counted a
\* prefix of the conversation, far less; so it is after compaction.
Estimates(n) == {1, n}

Exhausted(cap) == meter.left < 2 * MinOutput \/ meter.left < cap + MinOutput

\* The worst case is debited before inference.
Reserve(est) ==
    LET cap == IF meter.cap = 0 THEN Context(Smaller(Ceiling, meter.left - MinOutput))
                                ELSE meter.cap
        output == Smaller(cap, meter.left - cap)
    IN  /\ At("send") /\ meter.grant > 0
        /\ meter.left >= 2 * MinOutput /\ ~Exhausted(cap)
        /\ meter' = [meter EXCEPT !.cap = cap, !.input = cap, !.output = output,
                                  !.left = @ - (cap + output), !.est = est, !.tries = 0]
        /\ pass' = [pass EXCEPT !.at = "fit"]
        /\ UNCHANGED <<doc, reported, lastEnd, passes, faults>>

\* A provider without a grant is called at once.
SendUnmetered ==
    /\ At("send") /\ meter.grant = 0
    /\ pass' = [pass EXCEPT !.at = "wire"]
    /\ UNCHANGED <<doc, meter, reported, lastEnd, passes, faults>>

Fits == meter.est + meter.output <= meter.input
Room == meter.input - meter.est

Dispatch ==
    /\ At("fit") /\ Fits
    /\ pass' = [pass EXCEPT !.at = "wire"]
    /\ UNCHANGED <<doc, meter, reported, lastEnd, passes, faults>>

\* The preflight refused: the reply is cut to the room the prompt leaves ...
Shrinkable == meter.est + MinOutput <= meter.input
Shrink ==
    /\ At("fit") /\ ~Fits /\ Shrinkable
    /\ meter' = [meter EXCEPT !.left = @ + meter.output - Room, !.output = Room]
    /\ UNCHANGED <<doc, pass, reported, lastEnd, passes, faults>>

\* ... or repeated results, and then directory listings, leave the request ...
Compact(est) ==
    /\ At("fit") /\ ~Fits /\ ~Shrinkable /\ meter.tries < 2
    /\ meter' = [meter EXCEPT !.est = est, !.tries = @ + 1]
    /\ UNCHANGED <<doc, pass, reported, lastEnd, passes, faults>>

\* ... or the reservation is returned, nothing having been sent.
\* (Mutation: only the reply is returned.)
RefundOutput ==
    [meter EXCEPT !.left = @ + meter.output, !.input = 0, !.output = 0, !.resized = FALSE]
Refund == [meter EXCEPT !.left = @ + meter.input + meter.output,
                        !.input = 0, !.output = 0, !.resized = FALSE]
Refused == At("fit") /\ ~Fits /\ ~Shrinkable /\ meter.tries = 2

\* A request before any usage is known may then reserve exactly what it needs, once.
Required == meter.est + MinOutput + Margin
MayResize ==
    /\ ~meter.resized /\ meter.used = 0 /\ Required > meter.input /\ Required <= Target
    /\ Required + MinOutput <= Refund.left
Resize ==
    /\ Refused /\ MayResize
    /\ meter' = [Refund EXCEPT !.cap = Required, !.resized = TRUE]
    /\ pass' = [pass EXCEPT !.at = "send"]
    /\ UNCHANGED <<doc, reported, lastEnd, passes, faults>>

\* The answer's usage is settled against the reservation.
Settle(usage) ==
    [meter EXCEPT !.left = @ + meter.input + meter.output - usage,
                  !.used = @ + usage, !.input = 0, !.output = 0, !.resized = FALSE]
\* A request that was sent keeps its reservation: its usage is unknown.
Forfeit == [meter EXCEPT !.lost = @ + meter.input + meter.output,
                         !.input = 0, !.output = 0, !.resized = FALSE]

----------------------------------------------------------------------------
(* Errors of a request *)

\* overflow: the typed refusal, by the preflight or by the endpoint; abandoned:
\* a timeout or another sign that the request was too large; exhausted: the
\* grant; other: anything else.
SizeFailure(kind) == kind \in {"overflow", "abandoned"} /\ ~pass.cancelled

\* A failed request of the loop: for its size the chain is restarted, for
\* anything else, and after a cancellation, the pass fails.
RoundError(kind) == IF SizeFailure(kind) THEN RestartOrEnd ELSE Fail("failed")

\* A failed synthesis: once it is repeated from the handover; a refusal for
\* lack of capacity fails the pass, anything else leaves it inconclusive.
FinalError(kind) ==
    IF SizeFailure(kind) /\ ~pass.rebuilt
    THEN /\ \E size \in HandoverSizes :
               Save([pass EXCEPT !.chains = @ + 1, !.at = "send", !.try = "final",
                                 !.size = size, !.rebuilt = TRUE], "running")
         /\ UNCHANGED <<reported, lastEnd, passes>>
    ELSE IF kind \in {"exhausted", "overflow"} THEN Fail("failed")
    ELSE CloseOut /\ Ends("max_turns", {"max_turns"}, FALSE) /\ UNCHANGED passes

RequestError(kind) == IF Final THEN FinalError(kind) ELSE RoundError(kind)

\* The grant cannot admit another request.
GrantExhausted ==
    /\ At("send") /\ meter.grant > 0
    /\ \/ meter.left < 2 * MinOutput
       \/ meter.cap > 0 /\ Exhausted(meter.cap)
    /\ meter' = meter
    /\ RequestError("exhausted")

\* The preflight's refusal stands: the grant is too small for a request that
\* the ceiling would admit, the provider is misconfigured, or it is an overflow.
GrantTooSmall ==
    meter.used = 0 /\ meter.input < Target /\ meter.est + MinOutput <= Target
RefusedError ==
    /\ Refused /\ ~MayResize
    /\ meter' = Refund
    /\ \E kind \in IF GrantTooSmall THEN {"exhausted"} ELSE {"other", "overflow"} :
          RequestError(kind)

\* The endpoint refuses or abandons the request, or answers nonsense.
EndpointFails ==
    /\ At("wire")
    /\ meter' = Forfeit
    /\ \E kind \in {"overflow", "abandoned", "other"} : RequestError(kind)

----------------------------------------------------------------------------
(* Answers *)

\* Usage is none, little or all of the reservation.
Usages == IF meter.grant = 0 THEN {0} ELSE {0, 1, meter.input + meter.output}

\* Text without a tool call completes the pass.
AnswerText(usage) ==
    /\ At("wire") /\ ~Final
    /\ meter' = Settle(usage)
    /\ CloseOut
    /\ Ends("succeeded", {"succeeded"}, FALSE)
    /\ UNCHANGED passes

\* Tool calls: of the workspace or the gateway, or of the harness only.
AnswerTools(usage, kind) ==
    /\ At("wire") /\ ~Final
    /\ meter' = Settle(usage)
    /\ pass' = [pass EXCEPT !.at = "tools", !.fresh = FALSE, !.answer = kind]
    /\ UNCHANGED <<doc, reported, lastEnd, passes, faults>>

\* Neither text nor a tool call: asked once more, then an error.
AnswerEmpty(usage) ==
    /\ At("wire") /\ ~Final
    /\ meter' = Settle(usage)
    /\ IF pass.try = "first"
       THEN /\ pass' = [pass EXCEPT !.at = "send", !.try = "again"]
            /\ UNCHANGED <<doc, reported, lastEnd, passes, faults>>
       ELSE Fail("failed")

\* The synthesis answers with text ...
FinalText(usage) ==
    /\ At("wire") /\ Final
    /\ meter' = Settle(usage)
    /\ CloseOut
    /\ Ends("max_turns", {"max_turns"}, FALSE)
    /\ UNCHANGED passes

\* ... or with nothing to show, and is asked once more without tools.
FinalEmpty(usage) ==
    /\ At("wire") /\ Final
    /\ meter' = Settle(usage)
    /\ IF pass.try = "final"
       THEN /\ pass' = [pass EXCEPT !.at = "send", !.try = "finalAgain"]
            /\ UNCHANGED <<doc, reported, lastEnd, passes, faults>>
       ELSE FinalError("other")

\* The results enter the conversation.  Work on the handover alone is not a
\* round, unless it goes on for long.
Counted(p) ==
    IF p.answer = "tools" \/ p.local = MaxLocal
    THEN [p EXCEPT !.rounds = @ + 1, !.local = 0]
    ELSE [p EXCEPT !.local = @ + 1]
RunTools(growth) ==
    LET p == [Counted(pass) EXCEPT !.at = "loop", !.size = @ + growth, !.answer = "none"]
    IN  /\ At("tools")
        /\ \/ pass' = p /\ UNCHANGED <<doc, faults>>
           \/ pass.answer = "local" /\ Save(p, "running")  \* update_handover
        /\ UNCHANGED <<meter, reported, lastEnd, passes>>

\* The caller's event stream is closed: the pass returns the error.
SinkFails ==
    /\ At("tools")
    /\ Ends("failed", {}, TRUE)
    /\ UNCHANGED <<doc, meter, passes, faults>>

----------------------------------------------------------------------------
(* The loop *)

\* A pass begins; the caller may start one whatever became of the last.
Start(grant) ==
    /\ At("idle") /\ passes < MaxPasses
    /\ passes' = passes + 1
    /\ meter' = NewMeter(grant)
    /\ pass' = IF Resumable(doc)
               THEN [NoPass EXCEPT !.at = "resuming", !.chains = doc.chains, !.resumed = TRUE]
               ELSE [NoPass EXCEPT !.at = "loop", !.size = PromptSize]
    /\ UNCHANGED <<doc, reported, lastEnd, faults>>

Resume(size) ==
    /\ At("resuming")
    /\ Fresh([pass EXCEPT !.at = "loop"], size)
    /\ UNCHANGED <<meter, reported, lastEnd, passes>>

LoopCancelled ==
    /\ At("loop") /\ pass.cancelled
    /\ Ends("cancelled", {"cancelled"}, TRUE)
    /\ UNCHANGED <<doc, meter, passes, faults>>

InLoop == At("loop") /\ ~pass.cancelled /\ pass.rounds < MaxSteps

\* admit: past the hard threshold no request is sent.
LoopHard ==
    /\ InLoop /\ pass.size > Hard
    /\ RestartOrEnd
    /\ UNCHANGED meter

\* Past the soft one the model is asked for a handover, once per chain.
LoopSoft ==
    /\ InLoop /\ pass.size > Soft /\ pass.size <= Hard /\ ~pass.asked
    /\ Save([pass EXCEPT !.at = "send", !.try = "first", !.asked = TRUE, !.size = @ + Note],
            "running")
    /\ UNCHANGED <<meter, reported, lastEnd, passes>>

LoopSend ==
    /\ InLoop /\ pass.size <= Hard /\ (pass.size > Soft => pass.asked)
    /\ pass' = [pass EXCEPT !.at = "send", !.try = "first"]
    /\ UNCHANGED <<doc, meter, reported, lastEnd, passes, faults>>

\* The rounds are used up: the answer is asked for, from the handover when the
\* conversation is past the soft threshold.
Synthesize ==
    /\ At("loop") /\ ~pass.cancelled /\ pass.rounds >= MaxSteps
    /\ IF pass.size > Soft
       THEN \E size \in HandoverSizes :
               Save([pass EXCEPT !.at = "send", !.try = "final", !.size = size,
                                 !.chains = @ + 1, !.rebuilt = TRUE], "running")
       ELSE /\ pass' = [pass EXCEPT !.at = "send", !.try = "final"]
            /\ UNCHANGED <<doc, faults>>
    /\ UNCHANGED <<meter, reported, lastEnd, passes>>

\* The caller's context ends.
Cancel ==
    /\ ~At("idle") /\ ~pass.cancelled
    /\ pass' = [pass EXCEPT !.cancelled = TRUE]
    /\ UNCHANGED <<doc, meter, reported, lastEnd, passes, faults>>

\* The process dies.
Crash ==
    /\ ~At("idle")
    /\ pass' = NoPass
    /\ lastEnd' = "crashed"
    /\ reported' = "none"
    /\ UNCHANGED <<doc, meter, passes, faults>>

----------------------------------------------------------------------------

Init ==
    /\ doc = [status |-> "none", chains |-> 0]
    /\ pass = NoPass
    /\ meter = NewMeter(0)
    /\ reported = "none" /\ lastEnd = "none"
    /\ passes = 0 /\ faults = 0

Step ==
    \/ \E size \in HandoverSizes : Resume(size)
    \/ LoopCancelled \/ LoopHard \/ LoopSoft \/ LoopSend \/ Synthesize
    \/ \E est \in Estimates(Sent) : Reserve(est)
    \/ SendUnmetered \/ Dispatch \/ Shrink \/ Resize
    \/ \E est \in Estimates(meter.est) : Compact(est)
    \/ GrantExhausted \/ RefusedError \/ EndpointFails
    \/ \E usage \in Usages :
          \/ AnswerText(usage) \/ AnswerEmpty(usage) \/ FinalText(usage) \/ FinalEmpty(usage)
          \/ \E kind \in {"tools", "local"} : AnswerTools(usage, kind)
    \/ \E growth \in Growth : RunTools(growth)

Next == Step \/ (\E grant \in Grants : Start(grant)) \/ SinkFails \/ Cancel \/ Crash

\* The pass runs on: an endpoint answers or its request times out, and a tool
\* returns or is ended by its own limit.
Spec == Init /\ [][Next]_vars /\ WF_vars(Step)

----------------------------------------------------------------------------
(* Properties *)

\* Every variable holds a value of its type.
TypeOK ==
    /\ doc \in [status : {"none", "running", "checkpointed", "complete"}, chains : Nat]
    /\ pass \in Pass /\ meter \in Meter
    /\ reported \in {"none", "succeeded", "failed", "cancelled", "checkpoint", "max_turns",
                     "protocol_error"}
    /\ lastEnd \in {"none", "succeeded", "failed", "cancelled", "checkpoint", "max_turns",
                    "crashed"}
    /\ passes \in 0..MaxPasses /\ faults \in 0..MaxFaults

\* The grant is conserved through reservation, shrinking, compaction, resizing,
\* refusals before and failures after dispatch: what is left, what is reserved,
\* what was used and what was sent and never reported add up to it.  So a pass
\* can never have more than its grant in use, and a refusal costs nothing.
GrantConserved ==
    meter.left + meter.input + meter.output + meter.used + meter.lost = meter.grant

\* "Never dispatch a request that cannot finish": apart from the instructions
\* the harness itself appends, no request of a chain is sent past the hard
\* threshold, however often the chain was restarted and whatever the size of
\* the handover.  A synthesis rebuilt from the handover is not judged.
SentWithinHard == At("wire") /\ ~pass.rebuilt => Sent <= Hard + 2 * Note

\* A pass resumes a document only after a pass that ended in a checkpoint (or
\* died before it had taken the document over): a run that completed, failed or
\* was cancelled is never resumed, as long as the document could be written.
ResumesCheckpointsOnly ==
    pass.resumed /\ faults = 0 => lastEnd \in {"checkpoint", "crashed"}

\* On every path through the loop the caller is told the outcome the pass ended
\* with: the reducer never has to refuse it as a protocol error.
OutcomeReported == reported # "protocol_error"

\* Every pass ends: empty answers, restarts for size, checkpoints and rounds
\* spent on the handover are all bounded.
PassEnds == ~At("idle") ~> At("idle")

\* "MaxChains bounds the chains of one Execute": a pass that ends as a
\* checkpoint although its chain could have been restarted from the handover
\* has used its chains.
PassHasItsChains ==
    [][~At("idle") /\ pass'.at = "idle" /\ lastEnd' = "checkpoint" /\ ~pass.fresh
        => pass.here >= MaxChains]_vars
=============================================================================
