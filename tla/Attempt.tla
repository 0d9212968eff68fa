------------------------------- MODULE Attempt -------------------------------
(***************************************************************************)
(* The attempts of one run in the manager (pkg/manager: manager.go,        *)
(* events.go, watchdog.go): start, the pipeline that emits events, the     *)
(* goroutine that applies them to PipelineInfo, the goroutine that settles *)
(* the attempt, and those who interfere, Stop, Pause, the watchdog and the *)
(* caller's context.                                                       *)
(*                                                                         *)
(* Each critical section under Manager.mu is one step.  consumeEvents      *)
(* takes an event, applies it under the lock and persists a new terminal   *)
(* status after it has released the lock: three steps.  Which stages a     *)
(* pipeline runs is left open here; the Blueprint module says which.       *)
(***************************************************************************)
EXTENDS Integers, Sequences

CONSTANTS
    Buffer,         \* the capacity of the event channel
    MaxExecutions,  \* bound: stage executions of an attempt
    MaxNoise,       \* bound: events inside a stage, per attempt
    MaxStarts       \* bound: attempts

ASSUME AttemptAssumption ==
    /\ Buffer \in Nat \ {0}
    /\ MaxExecutions \in Nat /\ MaxNoise \in Nat /\ MaxStarts \in Nat

Causes == {"owner_stop", "watchdog_stall", "caller"}
Stages == {"agentic", "deterministic"}

VARIABLES
    admitted,   \* configuration: an admitted StageExecutor runs the stages
    entry,      \* the entry's PipelineInfo: status, cause, silence monitoring,
                \* pending checks, stage type and the age of LastActivity
    context,    \* the cause the attempt's context was cancelled with, or "live"
    flow,       \* where Pipeline.Run is: not running, before or between stages,
                \* in a stage, about to report, returned
    channel,    \* the pipeline's event channel
    consuming,  \* consumeEvents: the event or status it holds
    settled,    \* the entry's done channel is closed
    run,        \* the status of the row in the runs table
    watchdog,   \* the watchdog has seen a stall in its snapshot
    bounds      \* what is left of the bounds

attemptVars == <<admitted, entry, context, flow, channel, consuming, settled, run,
                 watchdog, bounds>>

IsTerminal(status) == status \in {"complete", "error", "stopped"}

NewInfo == [status |-> "starting", cause |-> "none", monitored |-> ~ admitted,
            checks |-> 0, stage |-> "none", activity |-> "none"]

Receiving == [at |-> "receive"]
Closed == [at |-> "closed"]

AttemptInit ==
    /\ admitted \in BOOLEAN
    /\ entry = [NewInfo EXCEPT !.status = "absent"]
    /\ context = "live"
    /\ flow = "absent"
    /\ channel = <<>>
    /\ consuming = Closed
    /\ settled = TRUE
    /\ run = "absent"
    /\ watchdog = FALSE
    /\ bounds = [stages |-> 0, noise |-> 0, starts |-> MaxStarts]

----------------------------------------------------------------------------
(* start *)

\* No entry yet, or entryFinished.  CreateRun ignores a row that exists.
Start ==
    /\ bounds.starts > 0
    /\ entry.status = "absent" \/ (IsTerminal(entry.status) /\ settled)
    /\ entry' = NewInfo
    /\ context' = "live"
    /\ flow' = "begin"
    /\ channel' = <<>>
    /\ consuming' = Receiving
    /\ settled' = FALSE
    /\ run' = IF run = "absent" THEN "starting" ELSE run
    /\ bounds' = [stages |-> MaxExecutions, noise |-> MaxNoise, starts |-> bounds.starts - 1]
    /\ UNCHANGED <<admitted, watchdog>>

----------------------------------------------------------------------------
(* The pipeline *)

\* emit blocks while the channel is full.
SendEvent(event) ==
    /\ Len(channel) < Buffer
    /\ channel' = Append(channel, event)

Goto(next) == flow' = next

\* Run fails before it has an engine and a run: no event says so.
FailEarly ==
    /\ flow = "begin" \/ (flow = "between" /\ bounds.stages = MaxExecutions)
    /\ Goto("failed")
    /\ UNCHANGED <<admitted, entry, context, channel, consuming, settled, run,
                   watchdog, bounds>>

StartBlueprint ==
    /\ flow = "begin"
    /\ SendEvent([type |-> "blueprint_start"])
    /\ Goto("between")
    /\ UNCHANGED <<admitted, entry, context, consuming, settled, run, watchdog, bounds>>

BeginStage(kind) ==
    /\ flow = "between"
    /\ bounds.stages > 0
    /\ SendEvent([type |-> "stage_start", stage |-> kind])
    /\ Goto(kind)
    /\ bounds' = [bounds EXCEPT !.stages = @ - 1]
    /\ UNCHANGED <<admitted, entry, context, consuming, settled, run, watchdog>>

\* What a stage reports while it runs: its progress and checks, if an admitted
\* executor runs it and the context lives; if not, the loop's own events, the
\* scopes of its tool calls and an error of the provider among them.
Noise(type) ==
    /\ flow \in Stages
    /\ bounds.noise > 0
    /\ type \in IF admitted THEN {"monitor", "progress", "check_start", "check_end"}
                ELSE {"progress", "check_start", "check_end", "error"}
    /\ admitted => context = "live"
    /\ ~ admitted /\ type # "progress" => flow = "agentic"
    /\ SendEvent([type |-> type])
    /\ bounds' = [bounds EXCEPT !.noise = @ - 1]
    /\ UNCHANGED <<admitted, entry, context, flow, consuming, settled, run, watchdog>>

EndStage ==
    /\ flow \in Stages
    /\ SendEvent([type |-> "stage_end"])
    /\ Goto("between")
    /\ UNCHANGED <<admitted, entry, context, consuming, settled, run, watchdog, bounds>>

Complete ==
    /\ flow = "between"
    /\ SendEvent([type |-> "blueprint_complete"])
    /\ Goto("completing")
    /\ UNCHANGED <<admitted, entry, context, consuming, settled, run, watchdog, bounds>>

Finish ==
    /\ flow = "completing"
    /\ SendEvent([type |-> "pipeline_complete"])
    /\ Goto("succeeded")
    /\ UNCHANGED <<admitted, entry, context, consuming, settled, run, watchdog, bounds>>

Fail ==
    /\ flow = "between"
    /\ SendEvent([type |-> "blueprint_failed"])
    /\ Goto("failed")
    /\ UNCHANGED <<admitted, entry, context, consuming, settled, run, watchdog, bounds>>

----------------------------------------------------------------------------
(* consumeEvents *)

CheckEnded(checks) == IF checks > 0 THEN checks - 1 ELSE checks

\* The part of updateInfo that the type of the event decides.
Apply(i, event) ==
    CASE event.type = "monitor" -> [i EXCEPT !.monitored = TRUE]
      [] event.type = "check_start" -> [i EXCEPT !.checks = @ + 1]
      [] event.type = "check_end" -> [i EXCEPT !.checks = CheckEnded(@)]
      [] event.type = "error" -> [i EXCEPT !.status = "error"]
      [] event.type = "blueprint_start" ->
            [i EXCEPT !.status = IF @ = "paused" THEN @ ELSE "running"]
      [] event.type = "stage_start" ->
            [i EXCEPT !.status = IF @ = "paused" THEN @ ELSE "running",
                      !.monitored = ~ admitted, !.checks = 0, !.stage = event.stage]
      [] event.type \in {"blueprint_complete", "pipeline_complete"} ->
            [i EXCEPT !.status = "complete"]
      [] event.type = "blueprint_failed" -> [i EXCEPT !.status = "error"]
      [] OTHER -> i

\* (Mutation: late events are applied to an interrupted attempt.)
UpdateInfoLate(event) ==
    LET heard == [entry EXCEPT !.activity = "recent"]
    IN  IF context # "live" /\ heard.cause = "none"
        THEN [heard EXCEPT !.status = "stopped", !.cause = context]
        ELSE Apply(heard, event)

\* updateInfo; the event carries the cause of a cancelled context.
UpdateInfo(event) ==
    LET heard == [entry EXCEPT !.activity = "recent"]
    IN  IF context # "live" THEN [heard EXCEPT !.status = "stopped", !.cause = context]
        ELSE IF heard.cause # "none" THEN heard
        ELSE Apply(heard, event)

TakeEvent ==
    /\ consuming.at = "receive"
    /\ channel # <<>>
    /\ consuming' = [at |-> "apply", event |-> Head(channel)]
    /\ channel' = Tail(channel)
    /\ UNCHANGED <<admitted, entry, context, flow, settled, run, watchdog, bounds>>

\* (Mutation: the consumer leaves at the first terminal status.)
ApplyTakenAndLeave ==
    /\ consuming.at = "apply"
    /\ entry' = UpdateInfo(consuming.event)
    /\ consuming' = IF IsTerminal(entry'.status) THEN Closed ELSE Receiving
    /\ UNCHANGED <<admitted, context, flow, channel, settled, run, watchdog, bounds>>

ApplyTaken ==
    /\ consuming.at = "apply"
    /\ entry' = UpdateInfo(consuming.event)
    /\ consuming' = IF ~ IsTerminal(entry.status) /\ IsTerminal(entry'.status)
                    THEN [at |-> "persist", status |-> entry'.status]
                    ELSE Receiving
    /\ UNCHANGED <<admitted, context, flow, channel, settled, run, watchdog, bounds>>

\* UpdateRunStatus, after the lock is released; an error is only logged.
Persist ==
    /\ consuming.at = "persist"
    /\ run' \in {consuming.status, run}
    /\ consuming' = Receiving
    /\ UNCHANGED <<admitted, entry, context, flow, channel, settled, watchdog, bounds>>

\* The channel is closed and drained.
CloseEvents ==
    /\ consuming.at = "receive"
    /\ flow \in {"succeeded", "failed"}
    /\ channel = <<>>
    /\ consuming' = Closed
    /\ UNCHANGED <<admitted, entry, context, flow, channel, settled, run, watchdog,
                   bounds>>

----------------------------------------------------------------------------
(* The goroutine of start: settle the attempt *)

\* Run has returned and consumeEvents has ended.
Drained == flow \in {"succeeded", "failed"} /\ consuming.at = "closed"

\* The database error of UpdateRunStatus is ignored.
SettleAttempt ==
    /\ Drained
    /\ ~ settled
    /\ LET status == IF context # "live" THEN "stopped"
                     ELSE IF flow = "failed" /\ ~ IsTerminal(entry.status) THEN "error"
                     ELSE entry.status
       IN  /\ entry' = [entry EXCEPT !.status = status,
                                     !.cause = IF context # "live" THEN context ELSE @]
           /\ run' \in {status, run}
    /\ settled' = TRUE
    /\ UNCHANGED <<admitted, context, flow, channel, consuming, watchdog, bounds>>

----------------------------------------------------------------------------
(* Interference *)

\* (Mutation: a second cause replaces the first.)
StopWithAny(cause) ==
    /\ ~ IsTerminal(entry.status)
    /\ entry' = [entry EXCEPT !.status = "stopped", !.cause = cause]
    /\ context' = IF context = "live" THEN cause ELSE context

\* stopWithCause: the first cause wins.
StopWith(cause) ==
    /\ ~ IsTerminal(entry.status)
    /\ context = "live"
    /\ entry' = [entry EXCEPT !.status = "stopped", !.cause = cause]
    /\ context' = cause

Stop ==
    /\ entry.status # "absent"
    /\ StopWith("owner_stop")
    /\ UNCHANGED <<admitted, flow, channel, consuming, settled, run, watchdog, bounds>>

Pause ==
    /\ entry.status # "absent"
    /\ ~ IsTerminal(entry.status)
    /\ entry' = [entry EXCEPT !.status = "paused"]
    /\ UNCHANGED <<admitted, context, flow, channel, consuming, settled, run,
                   watchdog, bounds>>

\* The context that start was called with is cancelled or runs out of time.
CancelCaller ==
    /\ entry.status # "absent" /\ ~ settled
    /\ context = "live"
    /\ context' = "caller"
    /\ UNCHANGED <<admitted, entry, flow, channel, consuming, settled, run,
                   watchdog, bounds>>

\* More than StallThreshold passes without an event.
FallSilent ==
    /\ entry.activity = "recent"
    /\ entry' = [entry EXCEPT !.activity = "old"]
    /\ UNCHANGED <<admitted, context, flow, channel, consuming, settled, run,
                   watchdog, bounds>>

Stalled(i) ==
    /\ i.monitored
    /\ i.checks = 0
    /\ i.status # "paused"
    /\ i.stage # "deterministic"
    /\ i.activity = "old"

\* checkPipeline looks at a snapshot.
WatchdogSees ==
    /\ ~ watchdog
    /\ ~ IsTerminal(entry.status)
    /\ Stalled(entry)
    /\ watchdog' = TRUE
    /\ UNCHANGED <<admitted, entry, context, flow, channel, consuming, settled,
                   run, bounds>>

\* (Mutation: the snapshot decides.)
WatchdogActsOnSnapshot ==
    /\ watchdog
    /\ watchdog' = FALSE
    /\ StopWith("watchdog_stall") \/ UNCHANGED <<entry, context>>
    /\ UNCHANGED <<admitted, flow, channel, consuming, settled, run, bounds>>

\* remediateStall: stopWithCause checks again under the lock.
WatchdogActs ==
    /\ watchdog
    /\ watchdog' = FALSE
    /\ IF Stalled(entry) /\ ~ IsTerminal(entry.status) /\ context = "live"
       THEN StopWith("watchdog_stall")
       ELSE UNCHANGED <<entry, context>>
    /\ UNCHANGED <<admitted, flow, channel, consuming, settled, run, bounds>>

----------------------------------------------------------------------------
FlowStep ==
    \/ FailEarly \/ StartBlueprint \/ EndStage \/ Complete \/ Finish \/ Fail
    \/ \E kind \in Stages : BeginStage(kind)

ConsumingStep == TakeEvent \/ ApplyTaken \/ Persist \/ CloseEvents

Interference ==
    \/ Stop \/ Pause \/ CancelCaller \/ FallSilent \/ WatchdogSees \/ WatchdogActs
    \/ \E type \in {"monitor", "progress", "check_start", "check_end", "error"} :
          Noise(type)

AttemptNext == Start \/ FlowStep \/ ConsumingStep \/ SettleAttempt \/ Interference

AttemptSpec == AttemptInit /\ [][AttemptNext]_attemptVars

\* The pipeline returns (its stages and retries are bounded, see Blueprint),
\* and no goroutine stops of itself.
FairAttemptSpec ==
    /\ AttemptSpec
    /\ WF_attemptVars(FlowStep) /\ WF_attemptVars(ConsumingStep)
    /\ WF_attemptVars(SettleAttempt)

----------------------------------------------------------------------------
(* Properties *)

RunStatuses == {"starting", "running", "paused", "complete", "error", "stopped"}

\* Every variable holds a value of its type, and the event channel never holds
\* more than its capacity: a sender that finds it full waits.
AttemptTypeOK ==
    /\ admitted \in BOOLEAN
    /\ entry \in [status : {"absent"} \cup RunStatuses, cause : {"none"} \cup Causes,
                  monitored : BOOLEAN, checks : 0 .. MaxNoise,
                  stage : {"none"} \cup Stages, activity : {"none", "recent", "old"}]
    /\ context \in {"live"} \cup Causes
    /\ flow \in {"absent", "begin", "between", "completing", "succeeded", "failed"}
                    \cup Stages
    /\ Len(channel) <= Buffer
    /\ consuming.at \in {"receive", "apply", "persist", "closed"}
    /\ settled \in BOOLEAN
    /\ run \in {"absent"} \cup RunStatuses
    /\ watchdog \in BOOLEAN
    /\ bounds \in [stages : 0 .. MaxExecutions, noise : 0 .. MaxNoise, starts : 0 .. MaxStarts]

\* stopWithCause, updateInfo: the cause that an attempt reports is the one its
\* context was cancelled with, whoever else tried to stop it, before or after.
CauseIsFirst == entry.cause # "none" => entry.cause = context

\* updateInfo, "late buffered stage/error events must not overwrite an
\* interruption": once stopped, an attempt stays stopped until a new one starts.
InterruptionStands ==
    [][entry.status = "stopped" => entry'.status = "stopped" \/ flow' = "begin"]_attemptVars

\* "A stale snapshot must not stop an active or newly waiting attempt".
WatchdogSparesTheActive ==
    [][context = "live" /\ context' = "watchdog_stall" => Stalled(entry)]_attemptVars

\* start: every attempt is settled, so Wait returns, although the pipeline
\* blocks on a full channel and the settling waits for the consumer.
AttemptEnds == (flow = "begin") ~> settled

\* "isTerminal returns true if the status represents a finished pipeline":
\* a pipeline with a terminal status and no cause starts no further stage.
TerminalMeansFinished ==
    [][IsTerminal(entry.status) => IsTerminal(entry'.status) \/ flow' = "begin"]_attemptVars
=============================================================================
