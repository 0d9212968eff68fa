---------------------------- MODULE EventStream ----------------------------
(***************************************************************************)
(* The path of an event from a provider's CLI process to the websocket     *)
(* clients that follow the run:                                            *)
(*                                                                         *)
(*   process -> Parser -> Loop.events -> agenticLoopAdapter ->             *)
(*   Pipeline.events -> consumeEvents -> subscribers -> relay -> client    *)
(*                                                                         *)
(* (internal/loop: process.go, parser.go, loop.go; internal/pipeline;      *)
(* pkg/manager: events.go; pkg/api: ws.go.)  Each box is a goroutine and   *)
(* each arrow a bounded channel with a moment at which it is closed.  A    *)
(* send to a full channel waits, unless it is one of a select with a       *)
(* default; a send to a closed channel panics and ends the daemon.         *)
(*                                                                         *)
(* The Attempt module has the statuses that the events lead to; here it is *)
(* the channels and the tool calls that PendingChecks counts.              *)
(***************************************************************************)
EXTENDS Integers, Sequences, FiniteSets

CONSTANTS
    Tools,        \* ids of tool calls
    Clients,      \* websocket clients, each subscribes once
    LoopBuffer,   \* capacity of Loop.events (100)
    PipeBuffer,   \* capacity of Pipeline.events (64)
    SubBuffer,    \* subscriberBufSize (64)
    MaxLines,     \* bound: lines that the processes of a run print
    MaxStages     \* bound: agentic stages of a run

ASSUME EventStreamAssumption ==
    /\ {LoopBuffer, PipeBuffer, SubBuffer} \subseteq Nat \ {0}
    /\ MaxLines \in Nat /\ MaxStages \in Nat \ {0}
    /\ IsFiniteSet(Tools)

VARIABLES
    ctx,        \* the attempt's context is cancelled
    child,      \* the CLI process
    stdout,     \* the read end of its stdout
    parser,     \* where Parse is, what it has yet to emit, pendingTools
    loop,       \* where Loop.Run is
    events,     \* Loop.events
    pipeline,   \* where the pipeline's goroutine is, and the event it relays
    pipe,       \* Pipeline.events
    consumer,   \* where consumeEvents is, and its event
    info,       \* PipelineInfo: interrupted, PendingChecks
    subs,       \* the clients whose channel is in the entry's subs
    feed,       \* feed[c]: the subscriber channel of c
    client,     \* client[c]: its connection and its relay
    done,       \* the entry's done channel is closed
    panic,      \* the goroutine that brought the daemon down, or "none"
    left        \* what is left of the bounds

stage == <<child, stdout, parser, loop, events>>
clients == <<subs, feed, client>>
vars == <<ctx, child, stdout, parser, loop, events, pipeline, pipe, consumer, info,
          subs, feed, client, done, panic, left>>

\* check_start and check_end are the tool scopes of the parser.  Everything
\* else that a line of output turns into (heartbeat, text, tool call or result)
\* is one activity event.
Kinds == {"stage_start", "check_start", "check_end", "activity", "stage_end", "final"}

\* The daemon lives.
Up == panic = "none"

NewChannel == [q |-> <<>>, open |-> TRUE]
NoParser == [at |-> "none", out |-> <<>>, tools |-> {}]

Init ==
    /\ ctx = FALSE
    /\ child = "none" /\ stdout = "closed"
    /\ parser = NoParser
    /\ loop = "none"
    /\ events = [NewChannel EXCEPT !.open = FALSE]
    /\ pipeline = [at |-> "begin", event |-> "none"]
    /\ pipe = NewChannel
    /\ consumer = [at |-> "receive", event |-> "none"]
    /\ info = [stopped |-> FALSE, checks |-> 0]
    /\ subs = {}
    /\ feed = [c \in Clients |-> [n |-> 0, open |-> FALSE]]
    /\ client = [c \in Clients |-> [conn |-> "open", relay |-> "none"]]
    /\ done = FALSE
    /\ panic = "none"
    /\ left = [lines |-> MaxLines, stages |-> MaxStages]

----------------------------------------------------------------------------
(* The CLI process and its parser *)

\* The process ends by itself, or is killed by the cancelled context that it
\* was created with.
ProcessExits ==
    /\ Up
    /\ child = "running"
    /\ child' = "exited"
    /\ UNCHANGED <<ctx, stdout, parser, loop, events, pipeline, pipe, consumer, info,
                   clients, done, panic, left>>

ContextKills == ctx /\ ProcessExits

Ends(n) == [i \in 1..n |-> "check_end"]

\* parseLine: a tool call opens a scope unless its id is open already, a tool
\* result closes its scope if it is open, the result line closes all.
ToolCall(t) ==
    IF t \in parser.tools THEN [parser EXCEPT !.out = <<"activity">>]
    ELSE [parser EXCEPT !.out = <<"check_start", "activity">>, !.tools = @ \cup {t}]
ToolResult(t) ==
    IF t \notin parser.tools THEN [parser EXCEPT !.out = <<"activity">>]
    ELSE [parser EXCEPT !.out = <<"check_end", "activity">>, !.tools = @ \ {t}]
FinishToolChecks ==
    [parser EXCEPT !.out = Ends(Cardinality(parser.tools)), !.tools = {}]

\* The events of one more line; it may have been in the pipe when the process
\* ended.
ParseLine ==
    /\ Up
    /\ parser.at = "read" /\ parser.out = <<>> /\ stdout = "open"
    /\ left.lines > 0
    /\ \/ parser' = [parser EXCEPT !.out = <<"activity">>]
       \/ \E t \in Tools : parser' \in {ToolCall(t), ToolResult(t)}
       \/ parser' = FinishToolChecks
    /\ left' = [left EXCEPT !.lines = @ - 1]
    /\ UNCHANGED <<ctx, child, stdout, loop, events, pipeline, pipe, consumer, info,
                   clients, done, panic>>

\* (Mutation: scopes still open at the end of the output are forgotten.)
ParseEndsForgetful ==
    /\ Up
    /\ parser.at = "read" /\ parser.out = <<>>
    /\ parser' = [parser EXCEPT !.at = "drain"]
    /\ UNCHANGED <<ctx, child, stdout, loop, events, pipeline, pipe, consumer, info,
                   clients, done, panic, left>>

\* Scan returns false: the deferred finishToolChecks closes what is open.
ParseEnds ==
    /\ Up
    /\ parser.at = "read" /\ parser.out = <<>>
    /\ parser' = [FinishToolChecks EXCEPT !.at = "drain"]
    /\ UNCHANGED <<ctx, child, stdout, loop, events, pipeline, pipe, consumer, info,
                   clients, done, panic, left>>

\* The end of the output.  A descendant of the process may hold the pipe open
\* for ever after the process itself has ended.
EndOfOutput == child = "exited" /\ ParseEnds

\* A line that is too long for the scanner.
LineTooLong == stdout = "open" /\ left.lines > 0 /\ ParseEnds

\* A read from the pipe after the loop has closed it.
ReadClosed == stdout = "closed" /\ ParseEnds

\* emit waits while the channel is full.
ParserEmit ==
    /\ Up
    /\ parser.out # <<>>
    /\ \/ /\ ~ events.open
          /\ panic' = "parser"
          /\ UNCHANGED <<parser, events>>
       \/ /\ events.open /\ Len(events.q) < LoopBuffer
          /\ events' = [events EXCEPT !.q = Append(@, Head(parser.out))]
          /\ parser' = [parser EXCEPT !.out = Tail(@)]
          /\ UNCHANGED panic
    /\ UNCHANGED <<ctx, child, stdout, loop, pipeline, pipe, consumer, info, clients,
                   done, left>>

\* Parse returns and its goroutine hands the error over.
ParserDone ==
    /\ Up
    /\ parser.at = "drain" /\ parser.out = <<>>
    /\ parser' = [parser EXCEPT !.at = "done"]
    /\ UNCHANGED <<ctx, child, stdout, loop, events, pipeline, pipe, consumer, info,
                   clients, done, panic, left>>

----------------------------------------------------------------------------
(* Loop.Run, runStandalone *)

LoopGoes(next) ==
    /\ Up
    /\ loop' = next
    /\ UNCHANGED <<ctx, parser, events, pipeline, pipe, consumer, info, clients, done,
                   panic, left>>

\* A process is not started under a cancelled context.
StartProcess ==
    /\ Up
    /\ loop = "start" /\ ~ ctx
    /\ child' = "running"
    /\ stdout' = "open"
    /\ parser' = [NoParser EXCEPT !.at = "read"]
    /\ loop' = "select"
    /\ UNCHANGED <<ctx, events, pipeline, pipe, consumer, info, clients, done, panic, left>>

\* The error event of a process that cannot be started.
StartFails ==
    /\ Up
    /\ loop = "start"
    /\ events' = [events EXCEPT !.q = Append(@, "activity")]
    /\ loop' = "close"
    /\ UNCHANGED <<ctx, child, stdout, parser, pipeline, pipe, consumer, info, clients,
                   done, panic, left>>

\* (Mutation: the parser is not joined.)
LoopCancelledUnjoined ==
    /\ loop = "select" /\ ctx
    /\ child' = "exited" /\ stdout' = "closed"
    /\ LoopGoes("close")

\* The context is cancelled: kill the process, close the pipe, join the parser.
LoopCancelled ==
    /\ loop = "select" /\ ctx
    /\ child' = "exited" /\ stdout' = "closed"
    /\ LoopGoes("join")

LoopJoined ==
    /\ loop = "join" /\ parser.at = "done"
    /\ LoopGoes("close")
    /\ UNCHANGED <<child, stdout>>

\* The output ended first: Wait for the process, or leave with the error of
\* the scanner and the deferred Kill.
LoopParsed ==
    /\ loop = "select" /\ parser.at = "done"
    /\ \/ LoopGoes("wait") /\ UNCHANGED <<child, stdout>>
       \/ LoopGoes("close") /\ child' = "exited" /\ stdout' = "closed"

\* Wait closes the pipe once the process has ended.
LoopWaited ==
    /\ loop = "wait" /\ child = "exited"
    /\ stdout' = "closed"
    /\ LoopGoes("close")
    /\ UNCHANGED child

\* The deferred close of Run.
LoopCloses ==
    /\ Up
    /\ loop = "close"
    /\ events' = [events EXCEPT !.open = FALSE]
    /\ loop' = "returned"
    /\ UNCHANGED <<ctx, child, stdout, parser, pipeline, pipe, consumer, info, clients,
                   done, panic, left>>

----------------------------------------------------------------------------
(* The pipeline's goroutine: stages, and the adapter inside a stage *)

PipelineGoes(next) ==
    /\ Up
    /\ pipeline' = next
    /\ UNCHANGED <<ctx, consumer, info, clients, done, panic>>

Emit(kind) ==
    /\ pipe.open /\ Len(pipe.q) < PipeBuffer
    /\ pipe' = [pipe EXCEPT !.q = Append(@, kind)]

\* OnStageStart, and the loop of the stage in a goroutine of its own.
StartStage ==
    /\ pipeline.at = "begin" /\ left.stages > 0
    /\ Emit("stage_start")
    /\ PipelineGoes([pipeline EXCEPT !.at = "relay"])
    /\ loop' = "start"
    /\ events' = NewChannel
    /\ child' = "none" /\ stdout' = "closed"
    /\ parser' = NoParser
    /\ left' = [left EXCEPT !.stages = @ - 1]

\* The adapter ranges over the loop's events ...
Relay ==
    /\ pipeline.at = "relay" /\ events.q # <<>>
    /\ PipelineGoes([at |-> "emit", event |-> Head(events.q)])
    /\ events' = [events EXCEPT !.q = Tail(@)]
    /\ UNCHANGED <<child, stdout, parser, loop, pipe, left>>

\* ... and emits each as the pipeline's own.
RelayEmit ==
    /\ pipeline.at = "emit"
    /\ Emit(pipeline.event)
    /\ PipelineGoes([at |-> "relay", event |-> "none"])
    /\ UNCHANGED <<stage, left>>

\* The channel is closed and drained, and the loop has returned.
StageEnds ==
    /\ pipeline.at = "relay" /\ ~ events.open /\ events.q = <<>> /\ loop = "returned"
    /\ Emit("stage_end")
    /\ \E next \in {"begin", "final"} : PipelineGoes([pipeline EXCEPT !.at = next])
    /\ UNCHANGED <<stage, left>>

\* The last event of the pipeline.
EmitFinal ==
    /\ pipeline.at \in {"begin", "final"}
    /\ Emit("final")
    /\ PipelineGoes([pipeline EXCEPT !.at = "close"])
    /\ UNCHANGED <<stage, left>>

\* The deferred close of Pipeline.Run.
PipelineCloses ==
    /\ pipeline.at = "close"
    /\ pipe' = [pipe EXCEPT !.open = FALSE]
    /\ PipelineGoes([pipeline EXCEPT !.at = "returned"])
    /\ UNCHANGED <<stage, left>>

----------------------------------------------------------------------------
(* consumeEvents *)

ConsumerGoes(next) ==
    /\ Up
    /\ consumer' = next
    /\ UNCHANGED <<ctx, stage, pipeline, client, done, panic, left>>

Receive ==
    /\ consumer.at = "receive" /\ pipe.q # <<>>
    /\ pipe' = [pipe EXCEPT !.q = Tail(@)]
    /\ ConsumerGoes([at |-> "apply", event |-> Head(pipe.q)])
    /\ UNCHANGED <<info, subs, feed>>

\* updateInfo: an interrupted run ignores what its events say.
ApplyEvent ==
    /\ consumer.at = "apply"
    /\ info' = [stopped |-> info.stopped \/ ctx,
                checks |-> CASE info.stopped \/ ctx -> info.checks
                             [] consumer.event = "stage_start" -> 0
                             [] consumer.event = "check_start" -> info.checks + 1
                             [] consumer.event = "check_end" /\ info.checks > 0 -> info.checks - 1
                             [] OTHER -> info.checks]
    /\ ConsumerGoes([consumer EXCEPT !.at = "fanout"])
    /\ UNCHANGED <<pipe, subs, feed>>

\* (Mutation: the send to a subscriber waits for room.)
FanOutWaiting ==
    /\ consumer.at = "fanout"
    /\ \A c \in subs : feed[c].n < SubBuffer
    /\ feed' = [c \in Clients |-> IF c \in subs THEN [feed[c] EXCEPT !.n = @ + 1] ELSE feed[c]]
    /\ ConsumerGoes([at |-> "receive", event |-> "none"])
    /\ UNCHANGED <<pipe, info, subs>>

\* fanOut: a subscriber without room loses the event.
FanOut ==
    /\ consumer.at = "fanout"
    /\ feed' = [c \in Clients |-> IF c \in subs /\ feed[c].n < SubBuffer
                                  THEN [feed[c] EXCEPT !.n = @ + 1] ELSE feed[c]]
    /\ ConsumerGoes([at |-> "receive", event |-> "none"])
    /\ UNCHANGED <<pipe, info, subs>>

\* Pipeline channel closed: close all subscriber channels.
CloseSubscribers ==
    /\ consumer.at = "receive" /\ ~ pipe.open /\ pipe.q = <<>>
    /\ feed' = [c \in Clients |-> IF c \in subs THEN [feed[c] EXCEPT !.open = FALSE]
                                                ELSE feed[c]]
    /\ subs' = {}
    /\ ConsumerGoes([consumer EXCEPT !.at = "closed"])
    /\ UNCHANGED <<pipe, info>>

\* start's goroutine settles the attempt once its events are persisted.
Settle ==
    /\ Up
    /\ pipeline.at = "returned" /\ consumer.at = "closed"
    /\ ~ done
    /\ done' = TRUE
    /\ info' = [info EXCEPT !.stopped = @ \/ ctx]
    /\ UNCHANGED <<ctx, stage, pipeline, pipe, consumer, clients, panic, left>>

\* Stop, which marks the run at once, or the cancellation of the caller.
Cancel ==
    /\ Up
    /\ ~ ctx /\ ~ done
    /\ ctx' = TRUE
    /\ \E stopped \in {TRUE, info.stopped} : info' = [info EXCEPT !.stopped = stopped]
    /\ UNCHANGED <<stage, pipeline, pipe, consumer, clients, done, panic, left>>

----------------------------------------------------------------------------
(* Websocket clients *)

ClientGoes(c, next) ==
    /\ Up
    /\ client' = [client EXCEPT ![c] = next]
    /\ UNCHANGED <<ctx, stage, pipeline, pipe, consumer, info, done, left>>

\* readPump: Subscribe, and a goroutine that relays the channel.
Subscribe(c) ==
    /\ client[c].conn = "open" /\ client[c].relay = "none"
    /\ subs' = subs \cup {c}
    /\ feed' = [feed EXCEPT ![c] = [n |-> 0, open |-> TRUE]]
    /\ ClientGoes(c, [client[c] EXCEPT !.relay = "range"])
    /\ UNCHANGED panic

\* The unsub of Subscribe: the channel is taken out, not closed.
Unsubscribe(c) ==
    /\ client[c].conn = "open" /\ c \in subs
    /\ subs' = subs \ {c}
    /\ ClientGoes(c, client[c])
    /\ UNCHANGED <<feed, panic>>

\* The connection breaks: readPump unsubscribes ...
Disconnect(c) ==
    /\ client[c].conn = "open"
    /\ subs' = subs \ {c}
    /\ ClientGoes(c, [client[c] EXCEPT !.conn = "leaving"])
    /\ UNCHANGED <<feed, panic>>

\* ... and unregisters with the hub, which closes the send channel.
Unregister(c) ==
    /\ client[c].conn = "leaving"
    /\ ClientGoes(c, [client[c] EXCEPT !.conn = "gone"])
    /\ UNCHANGED <<subs, feed, panic>>

\* The relay takes an event, or ends with the channel ...
RelayTakes(c) ==
    /\ client[c].relay = "range"
    /\ \/ /\ feed[c].n > 0
          /\ feed' = [feed EXCEPT ![c].n = @ - 1]
          /\ ClientGoes(c, [client[c] EXCEPT !.relay = "send"])
       \/ /\ feed[c].n = 0 /\ ~ feed[c].open
          /\ ClientGoes(c, [client[c] EXCEPT !.relay = "ended"])
          /\ UNCHANGED feed
    /\ UNCHANGED <<subs, panic>>

\* ... and sends it to the client, or leaves if the client's send channel is
\* full; that depends on the network and is left open.
RelaySends(c) ==
    /\ client[c].relay = "send"
    /\ \/ /\ client[c].conn = "gone"
          /\ panic' = "relay"
          /\ ClientGoes(c, client[c])
       \/ /\ client[c].conn # "gone"
          /\ \E next \in {"range", "ended"} : ClientGoes(c, [client[c] EXCEPT !.relay = next])
          /\ UNCHANGED panic
    /\ UNCHANGED <<subs, feed>>

----------------------------------------------------------------------------
ParserStep == ParserEmit \/ ParserDone \/ ReadClosed
LoopStep == \/ StartProcess \/ StartFails \/ LoopCancelled \/ LoopJoined
            \/ LoopParsed \/ LoopWaited \/ LoopCloses
PipelineStep == \/ StartStage \/ Relay \/ RelayEmit \/ StageEnds
                \/ EmitFinal \/ PipelineCloses
ConsumerStep == Receive \/ ApplyEvent \/ FanOut \/ CloseSubscribers
ClientStep(c) == \/ Subscribe(c) \/ Unsubscribe(c) \/ Disconnect(c) \/ Unregister(c)
                 \/ RelayTakes(c) \/ RelaySends(c)

Next ==
    \/ ProcessExits \/ ContextKills \/ ParseLine \/ EndOfOutput \/ LineTooLong
    \/ ParserStep \/ LoopStep \/ PipelineStep \/ ConsumerStep \/ Settle \/ Cancel
    \/ \E c \in Clients : ClientStep(c)

Spec == Init /\ [][Next]_vars

\* Goroutines run.  Nothing makes the process print, end by itself or close its
\* output, and nothing makes a client read.
FairSpec ==
    /\ Spec
    /\ WF_vars(ParserStep) /\ WF_vars(LoopStep) /\ WF_vars(PipelineStep)
    /\ WF_vars(ConsumerStep) /\ WF_vars(Settle) /\ WF_vars(ContextKills)

----------------------------------------------------------------------------
(* Properties *)

\* Every variable holds a value of its type, and no channel holds more than
\* its capacity.
TypeOK ==
    /\ ctx \in BOOLEAN /\ done \in BOOLEAN
    /\ child \in {"none", "running", "exited"} /\ stdout \in {"open", "closed"}
    /\ parser \in [at : {"none", "read", "drain", "done"}, out : Seq(Kinds),
                   tools : SUBSET Tools]
    /\ loop \in {"none", "start", "select", "join", "wait", "close", "returned"}
    /\ events \in [q : Seq(Kinds), open : BOOLEAN] /\ Len(events.q) <= LoopBuffer
    /\ pipeline \in [at : {"begin", "relay", "emit", "final", "close", "returned"},
                     event : Kinds \cup {"none"}]
    /\ pipe \in [q : Seq(Kinds), open : BOOLEAN] /\ Len(pipe.q) <= PipeBuffer
    /\ consumer \in [at : {"receive", "apply", "fanout", "closed"},
                     event : Kinds \cup {"none"}]
    /\ info \in [stopped : BOOLEAN, checks : Nat]
    /\ subs \subseteq Clients
    /\ feed \in [Clients -> [n : 0..SubBuffer, open : BOOLEAN]]
    /\ client \in [Clients -> [conn : {"open", "leaving", "gone"},
                               relay : {"none", "range", "send", "ended"}]]
    /\ panic \in {"none", "parser", "relay"}
    /\ left \in [lines : 0..MaxLines, stages : 0..MaxStages]

\* runStandalone, "join the parser before Run closes events": however a stage
\* ends, by cancellation in the middle of a burst of output too, the parser
\* never sends to a closed channel.
ParserIsJoined == panic # "parser"

Count(kind, q) == Cardinality({i \in 1..Len(q) : q[i] = kind})
InFlight(kind) ==
    Cardinality({x \in {<<"relay", pipeline.event>>, <<"apply", consumer.event>>} :
                    x[2] = kind /\ (x[1] = "apply" => consumer.at = "apply")})
      + Count(kind, parser.out) + Count(kind, events.q) + Count(kind, pipe.q)

\* PendingChecks, which exempts a run from the watchdog, counts the tool calls
\* that are really open, less what is still on its way; and the parser that is
\* done with its process, a killed one too, has left none of its calls open.
ScopesBalanced ==
    ~ info.stopped =>
        /\ info.checks + InFlight("check_start")
              = Cardinality(parser.tools) + InFlight("check_end")
        /\ parser.at = "done" => parser.tools = {}

\* A cancelled attempt is settled, so that Stop and Wait get their answer,
\* although its process is hung, its parser has a burst of output to get rid
\* of through full channels, and its clients do not read.
StreamEnds == ctx ~> (done \/ ~ Up)

\* "Client slow or disconnected" (the relay's way out in readPump): a client
\* that goes away ends its relay, not the daemon.
RelayOutlivesItsClient == panic # "relay"

\* consumeEvents "closes all subscriber channels when the pipeline channel
\* closes": no subscriber is left with a channel that nobody will close.
SubscribersAreClosed == \A c \in Clients : done /\ c \in subs ~> ~ (c \in subs)

============================================================================
