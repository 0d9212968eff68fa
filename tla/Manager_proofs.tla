--------------------------- MODULE Manager_proofs ---------------------------
(***************************************************************************)
(* Proofs about the three modules of what a manager runs: EventStream,     *)
(* Attempt and BatchScheduler, for any buffers, bounds, clients, tools,    *)
(* ledger and pool.                                                        *)
(*                                                                         *)
(* Each theorem is about one of them.  Spec, Next and TypeOK are those of  *)
(* EventStream; AttemptSpec and BatchSpec are those of the other two.      *)
(***************************************************************************)
EXTENDS EventStream, Attempt, BatchScheduler, TLAPS, FiniteSetTheorems,
        WellFoundedInduction

----------------------------------------------------------------------------
(* The event stream: types, and who is where *)

Parsers == [at : {"none", "read", "drain", "done"}, out : Seq(Kinds), tools : SUBSET Tools]
Channels == [q : Seq(Kinds), open : BOOLEAN]
Pipelines == [at : {"begin", "relay", "emit", "final", "close", "returned"},
              event : Kinds \cup {"none"}]
Consumers == [at : {"receive", "apply", "fanout", "closed"}, event : Kinds \cup {"none"}]
Infos == [stopped : BOOLEAN, checks : Nat]
Feeds == [n : 0..SubBuffer, open : BOOLEAN]
Conns == [conn : {"open", "leaving", "gone"}, relay : {"none", "range", "send", "ended"}]
Lefts == [lines : 0..MaxLines, stages : 0..MaxStages]

Within(ch, n) == ch \in Channels /\ Len(ch.q) <= n

\* TypeOK in parts, so that a step is asked only about those it writes.
Scalars ==
    /\ ctx \in BOOLEAN /\ done \in BOOLEAN
    /\ child \in {"none", "running", "exited"} /\ stdout \in {"open", "closed"}
    /\ loop \in {"none", "start", "select", "join", "wait", "close", "returned"}
    /\ panic \in {"none", "parser", "relay"}
Typed ==
    /\ Scalars
    /\ parser \in Parsers /\ pipeline \in Pipelines /\ consumer \in Consumers
    /\ Within(events, LoopBuffer) /\ Within(pipe, PipeBuffer)
    /\ info \in Infos /\ left \in Lefts
    /\ subs \subseteq Clients
    /\ feed \in [Clients -> Feeds] /\ client \in [Clients -> Conns]

\* Typed is TypeOK.
LEMMA TypedIs == Typed <=> TypeOK
  BY DEF Typed, Scalars, TypeOK, Within, Parsers, Channels, Pipelines, Consumers, Infos,
         Feeds, Conns, Lefts

\* The parser works only while the loop waits for it, and the loop closes its
\* channel only after that; a stage begins and ends with nothing under way.
Joined ==
    /\ parser.at \in {"read", "drain"} => loop \in {"select", "join"}
    /\ parser.at \in {"none", "done"} => parser.out = <<>>
    /\ parser.at # "read" => parser.tools = {}
    /\ loop \in {"start", "select", "join", "wait", "close"} => events.open
    /\ loop = "start" => events.q = <<>> /\ parser.at = "none"
    /\ pipeline.at \in {"begin", "final", "close", "returned"} =>
          events.q = <<>> /\ loop \in {"none", "returned"}
    /\ pipeline.at # "emit" <=> pipeline.event = "none"
    /\ ParserIsJoined

StreamInv == Typed /\ Joined

USE DEF stage, clients

\* The buffers have room for one event.
LEMMA Buffers == LoopBuffer \in Nat \ {0} /\ PipeBuffer \in Nat \ {0} /\ SubBuffer \in Nat \ {0}
                 /\ MaxLines \in Nat /\ MaxStages \in Nat
  BY EventStreamAssumption

\* A channel that has room takes an event.
LEMMA Pushed ==
    ASSUME NEW n \in Nat, NEW ch, Within(ch, n), Len(ch.q) < n, NEW k \in Kinds
    PROVE  LET new == [ch EXCEPT !.q = Append(@, k)]
           IN  Within(new, n) /\ new.q = Append(ch.q, k) /\ new.open = ch.open
  <1>1. ch.q \in Seq(Kinds) /\ ch \in Channels
    BY DEF Within, Channels
  <1>2. Append(ch.q, k) \in Seq(Kinds) /\ Len(Append(ch.q, k)) = Len(ch.q) + 1 /\ Len(ch.q) \in Nat
    BY <1>1
  <1>3. [ch EXCEPT !.q = Append(@, k)] \in Channels
        /\ [ch EXCEPT !.q = Append(@, k)].q = Append(ch.q, k)
        /\ [ch EXCEPT !.q = Append(@, k)].open = ch.open
    <2>. DEFINE s == Append(ch.q, k)
    <2>1. s \in Seq(Kinds)
      BY <1>2
    <2>. HIDE DEF s
    <2>2. [ch EXCEPT !.q = s] \in Channels /\ [ch EXCEPT !.q = s].q = s
          /\ [ch EXCEPT !.q = s].open = ch.open
      BY <1>1, <2>1 DEF Channels
    <2>. QED  BY <2>2 DEF s
  <1>. QED  BY <1>2, <1>3 DEF Within

\* The first event of a channel is taken out.
LEMMA Popped ==
    ASSUME NEW n \in Nat, NEW ch, Within(ch, n), ch.q # <<>>
    PROVE  LET new == [ch EXCEPT !.q = Tail(@)]
           IN  /\ Within(new, n) /\ new.q = Tail(ch.q) /\ new.open = ch.open
               /\ Head(ch.q) \in Kinds
  <1>1. ch.q \in Seq(Kinds) /\ ch \in Channels
    BY DEF Within, Channels
  <1>2. Tail(ch.q) \in Seq(Kinds) /\ Len(Tail(ch.q)) = Len(ch.q) - 1 /\ Len(ch.q) \in Nat
        /\ Head(ch.q) \in Kinds
    BY <1>1
  <1>3. [ch EXCEPT !.q = Tail(@)] \in Channels
        /\ [ch EXCEPT !.q = Tail(@)].q = Tail(ch.q)
        /\ [ch EXCEPT !.q = Tail(@)].open = ch.open
    <2>. DEFINE s == Tail(ch.q)
    <2>1. s \in Seq(Kinds)
      BY <1>2
    <2>. HIDE DEF s
    <2>2. [ch EXCEPT !.q = s] \in Channels /\ [ch EXCEPT !.q = s].q = s
          /\ [ch EXCEPT !.q = s].open = ch.open
      BY <1>1, <2>1 DEF Channels
    <2>. QED  BY <2>2 DEF s
  <1>. QED  BY <1>2, <1>3 DEF Within

\* A channel is closed.
LEMMA Shut ==
    ASSUME NEW n \in Nat, NEW ch, Within(ch, n)
    PROVE  LET new == [ch EXCEPT !.open = FALSE]
           IN  Within(new, n) /\ new.q = ch.q /\ ~ new.open
  BY DEF Within, Channels

\* A new channel is empty and open.
LEMMA Fresh ==
    ASSUME NEW n \in Nat
    PROVE  Within(NewChannel, n) /\ NewChannel.q = <<>> /\ NewChannel.open
  <1>1. NewChannel \in Channels /\ NewChannel.q = <<>> /\ NewChannel.open
    BY DEF NewChannel, Channels
  <1>. QED  BY <1>1 DEF Within

\* A parser with other events to emit.
LEMMA ParserOut ==
    ASSUME NEW p \in Parsers, NEW s \in Seq(Kinds)
    PROVE  /\ [p EXCEPT !.out = s] = [at |-> p.at, out |-> s, tools |-> p.tools]
           /\ [p EXCEPT !.out = s] \in Parsers
  BY DEF Parsers

\* A parser elsewhere.
LEMMA ParserAt ==
    ASSUME NEW p \in Parsers, NEW a \in {"none", "read", "drain", "done"}
    PROVE  /\ [p EXCEPT !.at = a] = [at |-> a, out |-> p.out, tools |-> p.tools]
           /\ [p EXCEPT !.at = a] \in Parsers
  BY DEF Parsers

\* A parser with other events to emit and other tools open.
LEMMA ParserTools ==
    ASSUME NEW p \in Parsers, NEW s \in Seq(Kinds), NEW T \in SUBSET Tools
    PROVE  /\ [p EXCEPT !.out = s, !.tools = T] = [at |-> p.at, out |-> s, tools |-> T]
           /\ [p EXCEPT !.out = s, !.tools = T] \in Parsers
  <1>. DEFINE q == [p EXCEPT !.out = s]
  <1>1. q \in Parsers /\ q.at = p.at /\ q.out = s
    <2>1. q \in Parsers /\ q = [at |-> p.at, out |-> s, tools |-> p.tools]
      BY ParserOut
    <2>. HIDE DEF q
    <2>. QED  BY <2>1
  <1>2. [p EXCEPT !.out = s, !.tools = T] = [q EXCEPT !.tools = T]
    BY Zenon
  <1>. HIDE DEF q
  <1>3. [q EXCEPT !.tools = T] = [at |-> q.at, out |-> q.out, tools |-> T]
        /\ [q EXCEPT !.tools = T] \in Parsers
    BY <1>1 DEF Parsers
  <1>. QED  BY <1>1, <1>2, <1>3

\* Before a stage there is no output to parse.
LEMMA NoParserType ==
    NoParser \in Parsers /\ NoParser.at = "none" /\ NoParser.out = <<>> /\ NoParser.tools = {}
  BY DEF NoParser, Parsers

\* The fields of the pipeline and of the consumer that are set.
LEMMA PlaceSet ==
    /\ \A p \in Pipelines, a \in {"begin", "relay", "emit", "final", "close", "returned"} :
          [p EXCEPT !.at = a] \in Pipelines /\ [p EXCEPT !.at = a].at = a
          /\ [p EXCEPT !.at = a].event = p.event
    /\ \A p \in Consumers, a \in {"receive", "apply", "fanout", "closed"} :
          [p EXCEPT !.at = a] \in Consumers /\ [p EXCEPT !.at = a].at = a
          /\ [p EXCEPT !.at = a].event = p.event
  BY DEF Pipelines, Consumers

\* As many ends as there are scopes.
LEMMA EndsType == ASSUME NEW n \in Nat PROVE Ends(n) \in Seq(Kinds)
  <1>1. Ends(n) \in [1..n -> Kinds]
    BY DEF Ends, Kinds
  <1>. QED  BY <1>1

\* The parser after a line, field by field.
Line(p) ==
    \/ p = [at |-> parser.at, out |-> <<"activity">>, tools |-> parser.tools]
    \/ \E t \in Tools \ parser.tools :
          p = [at |-> parser.at, out |-> <<"check_start", "activity">>,
               tools |-> parser.tools \cup {t}]
    \/ \E t \in parser.tools :
          p = [at |-> parser.at, out |-> <<"check_end", "activity">>,
               tools |-> parser.tools \ {t}]
    \/ p = [at |-> parser.at, out |-> Ends(Cardinality(parser.tools)), tools |-> {}]

\* Tool calls are finite in number.
LEMMA ToolsFinite ==
    ASSUME parser \in Parsers
    PROVE  IsFiniteSet(parser.tools) /\ Cardinality(parser.tools) \in Nat
           /\ Ends(Cardinality(parser.tools)) \in Seq(Kinds)
  <1>1. parser.tools \subseteq Tools
    BY DEF Parsers
  <1>2. IsFiniteSet(parser.tools) /\ Cardinality(parser.tools) \in Nat
    BY <1>1, EventStreamAssumption, FS_Subset, FS_CardinalityType
  <1>. QED  BY <1>2, EndsType

\* The sequences that one line gives.
LEMMA LineOut ==
    /\ <<"activity">> \in Seq(Kinds)
    /\ <<"check_start", "activity">> \in Seq(Kinds)
    /\ <<"check_end", "activity">> \in Seq(Kinds)
  BY DEF Kinds

\* finishToolChecks, field by field.
LEMMA FinishIs ==
    ASSUME parser \in Parsers
    PROVE  FinishToolChecks = [at |-> parser.at, out |-> Ends(Cardinality(parser.tools)), tools |-> {}]
  BY ToolsFinite, ParserTools DEF FinishToolChecks

\* parseLine, field by field.
LEMMA LineIs ==
    ASSUME parser \in Parsers, ParseLine
    PROVE  Line(parser') /\ parser' \in Parsers /\ parser'.at = "read"
  <1>0. parser.tools \subseteq Tools /\ parser.at = "read"
    BY DEF Parsers, ParseLine
  <1>1. Line(parser')
    <2>1. [parser EXCEPT !.out = <<"activity">>]
             = [at |-> parser.at, out |-> <<"activity">>, tools |-> parser.tools]
      BY LineOut, ParserOut
    <2>2. ASSUME NEW t \in Tools, parser' = ToolCall(t)
          PROVE  Line(parser')
      <3>1. CASE t \in parser.tools
        BY <2>1, <2>2, <3>1 DEF ToolCall, Line
      <3>2. CASE t \notin parser.tools
        <4>1. parser' = [parser EXCEPT !.out = <<"check_start", "activity">>,
                                       !.tools = parser.tools \cup {t}]
          BY <2>2, <3>2 DEF ToolCall
        <4>2. parser' = [at |-> parser.at, out |-> <<"check_start", "activity">>,
                         tools |-> parser.tools \cup {t}]
          <5>1. parser.tools \cup {t} \in SUBSET Tools
            BY <1>0
          <5>. QED  BY <4>1, <5>1, LineOut, ParserTools
        <4>. QED  BY <3>2, <4>2 DEF Line
      <3>. QED  BY <3>1, <3>2
    <2>3. ASSUME NEW t \in Tools, parser' = ToolResult(t)
          PROVE  Line(parser')
      <3>1. CASE t \notin parser.tools
        BY <2>1, <2>3, <3>1 DEF ToolResult, Line
      <3>2. CASE t \in parser.tools
        <4>1. parser' = [parser EXCEPT !.out = <<"check_end", "activity">>,
                                       !.tools = parser.tools \ {t}]
          BY <2>3, <3>2 DEF ToolResult
        <4>2. parser' = [at |-> parser.at, out |-> <<"check_end", "activity">>,
                         tools |-> parser.tools \ {t}]
          BY <1>0, <4>1, LineOut, ParserTools
        <4>. QED  BY <3>2, <4>2 DEF Line
      <3>. QED  BY <3>1, <3>2
    <2>. QED  BY <2>1, <2>2, <2>3, FinishIs DEF ParseLine, Line
  <1>2. parser' \in Parsers /\ parser'.at = "read"
    <2>1. PICK s \in Seq(Kinds), T \in SUBSET Tools : parser' = [at |-> "read", out |-> s, tools |-> T]
      <3>1. {} \in SUBSET Tools /\ parser.tools \in SUBSET Tools
            /\ \A t \in Tools : (parser.tools \cup {t} \in SUBSET Tools)
                               /\ (parser.tools \ {t} \in SUBSET Tools)
        BY <1>0
      <3>. QED  BY <1>0, <1>1, <3>1, LineOut, ToolsFinite DEF Line
    <2>. QED  BY <2>1 DEF Parsers
  <1>. QED  BY <1>1, <1>2

\* Nothing is under way before the first stage.
LEMMA InitStream == Init => StreamInv
  <1>. SUFFICES ASSUME Init PROVE StreamInv
    OBVIOUS
  <1>1. parser \in Parsers /\ parser.at = "none" /\ parser.out = <<>> /\ parser.tools = {}
    BY NoParserType DEF Init
  <1>2. Within(events, LoopBuffer) /\ events.q = <<>> /\ Within(pipe, PipeBuffer)
    BY Buffers, Fresh, Shut DEF Init
  <1>3. pipeline \in Pipelines /\ consumer \in Consumers /\ info \in Infos /\ left \in Lefts
    BY Buffers DEF Init, Pipelines, Consumers, Infos, Lefts
  <1>4. feed \in [Clients -> Feeds] /\ client \in [Clients -> Conns]
    BY Buffers DEF Init, Feeds, Conns
  <1>5. Typed
    BY <1>1, <1>2, <1>3, <1>4 DEF Init, Typed, Scalars
  <1>. QED  BY <1>1, <1>2, <1>5 DEF Init, StreamInv, Joined, ParserIsJoined

\* The parser's own steps.
LEMMA ParserStream ==
    ASSUME StreamInv, ParseLine \/ ParseEnds \/ ParserEmit \/ ParserDone
    PROVE  StreamInv'
  <1>. USE DEF StreamInv
  <1>1. CASE ParseLine
    <2>1. parser' \in Parsers /\ parser'.at = "read" /\ parser.at = "read"
      BY <1>1, LineIs DEF Typed, ParseLine
    <2>2. left' \in Lefts
      BY <1>1, Buffers DEF ParseLine, Typed, Lefts
    <2>3. Typed'
      BY <1>1, <2>1, <2>2 DEF ParseLine, Typed, Scalars
    <2>. QED  BY <1>1, <2>1, <2>3 DEF ParseLine, Joined, ParserIsJoined
  <1>2. CASE ParseEnds
    <2>. DEFINE q == FinishToolChecks
    <2>1. q = [at |-> parser.at, out |-> Ends(Cardinality(parser.tools)), tools |-> {}]
          /\ q \in Parsers
      BY FinishIs, ToolsFinite DEF Typed, Parsers
    <2>. HIDE DEF q
    <2>2. parser' = [q EXCEPT !.at = "drain"] /\ parser.at = "read"
      BY <1>2 DEF ParseEnds, q
    <2>3. parser' \in Parsers /\ parser' = [at |-> "drain", out |-> q.out, tools |-> q.tools]
      BY <2>1, <2>2, ParserAt
    <2>4. parser'.at = "drain" /\ parser'.tools = {}
      BY <2>1, <2>3
    <2>5. Typed'
      BY <1>2, <2>3 DEF ParseEnds, Typed, Scalars
    <2>. QED  BY <1>2, <2>2, <2>4, <2>5 DEF ParseEnds, Joined, ParserIsJoined
  <1>3. CASE ParserEmit
    <2>1. parser.at \in {"read", "drain"} /\ events.open
      BY <1>3 DEF ParserEmit, Joined, Typed, Parsers
    <2>2. parser.out \in Seq(Kinds) /\ parser.out # <<>>
      BY <1>3 DEF ParserEmit, Typed, Parsers
    <2>3. Head(parser.out) \in Kinds /\ Tail(parser.out) \in Seq(Kinds)
      BY <2>2
    <2>4. parser' \in Parsers /\ parser' = [at |-> parser.at, out |-> Tail(parser.out), tools |-> parser.tools]
      <3>1. parser \in Parsers /\ parser' = [parser EXCEPT !.out = Tail(parser.out)]
        BY <1>3, <2>1 DEF ParserEmit, Typed
      <3>. QED  BY <2>3, <3>1, ParserOut
    <2>5. parser'.at = parser.at /\ parser'.tools = parser.tools
      BY <2>4
    <2>6. Within(events', LoopBuffer) /\ events'.open = events.open
      <3>1. /\ events' = [events EXCEPT !.q = Append(@, Head(parser.out))]
            /\ Len(events.q) < LoopBuffer /\ Within(events, LoopBuffer)
        BY <1>3, <2>1 DEF ParserEmit, Typed
      <3>. QED  BY <2>3, <3>1, Pushed, Buffers
    <2>7. Typed'
      BY <1>3, <2>1, <2>4, <2>6 DEF ParserEmit, Typed, Scalars
    <2>. QED  BY <1>3, <2>1, <2>5, <2>6, <2>7 DEF ParserEmit, Joined, ParserIsJoined
  <1>4. CASE ParserDone
    <2>1. parser' \in Parsers /\ parser' = [at |-> "done", out |-> parser.out, tools |-> parser.tools]
      BY <1>4, ParserAt DEF ParserDone, Typed
    <2>2. parser'.at = "done" /\ parser'.out = <<>> /\ parser'.tools = {}
      BY <1>4, <2>1 DEF ParserDone, Joined
    <2>3. Typed'
      BY <1>4, <2>1 DEF ParserDone, Typed, Scalars
    <2>. QED  BY <1>4, <2>2, <2>3 DEF ParserDone, Joined, ParserIsJoined
  <1>. QED  BY <1>1, <1>2, <1>3, <1>4

\* The steps of the loop and the end of the process.
LEMMA LoopStream ==
    ASSUME StreamInv, LoopStep \/ ProcessExits
    PROVE  StreamInv'
  <1>. USE DEF StreamInv
  <1>1. CASE StartProcess
    <2>1. parser' \in Parsers /\ parser' = [at |-> "read", out |-> NoParser.out, tools |-> NoParser.tools]
      BY <1>1, NoParserType, ParserAt DEF StartProcess
    <2>2. parser'.at = "read"
      BY <2>1
    <2>3. Typed'
      BY <1>1, <2>1 DEF StartProcess, Typed, Scalars
    <2>. QED  BY <1>1, <2>2, <2>3 DEF StartProcess, Joined, ParserIsJoined
  <1>2. CASE StartFails
    <2>1. "activity" \in Kinds /\ Len(events.q) < LoopBuffer
      BY <1>2, Buffers DEF StartFails, Joined, Kinds
    <2>2. Within(events', LoopBuffer) /\ events'.open = events.open
      BY <1>2, <2>1, Buffers, Pushed DEF StartFails, Typed
    <2>3. Typed'
      BY <1>2, <2>2 DEF StartFails, Typed, Scalars
    <2>. QED  BY <1>2, <2>2, <2>3 DEF StartFails, Joined, ParserIsJoined
  <1>3. CASE LoopCancelled \/ LoopJoined \/ LoopParsed \/ LoopWaited
    BY <1>3 DEF LoopCancelled, LoopJoined, LoopParsed, LoopWaited, LoopGoes, Typed, Scalars,
                Joined, ParserIsJoined
  <1>4. CASE LoopCloses
    <2>1. Within(events', LoopBuffer) /\ events'.q = events.q
      BY <1>4, Buffers, Shut DEF LoopCloses, Typed
    <2>2. Typed'
      BY <1>4, <2>1 DEF LoopCloses, Typed, Scalars
    <2>. QED  BY <1>4, <2>1, <2>2 DEF LoopCloses, Joined, ParserIsJoined
  <1>5. CASE ProcessExits
    BY <1>5 DEF ProcessExits, Typed, Scalars, Joined, ParserIsJoined
  <1>. QED  BY <1>1, <1>2, <1>3, <1>4, <1>5 DEF LoopStep

\* The pipeline emits into a channel that has room.
LEMMA Emitted ==
    ASSUME Typed, NEW kind \in Kinds, Emit(kind)
    PROVE  Within(pipe', PipeBuffer) /\ pipe'.q = Append(pipe.q, kind)
  BY Buffers, Pushed DEF Emit, Typed

\* The steps of the pipeline.
LEMMA PipelineStream ==
    ASSUME StreamInv, PipelineStep
    PROVE  StreamInv'
  <1>. USE DEF StreamInv
  <1>0. {"stage_start", "stage_end", "final"} \subseteq Kinds /\ "none" \notin Kinds
    BY DEF Kinds
  <1>1. CASE StartStage
    <2>1. Within(pipe', PipeBuffer)
      BY <1>0, <1>1, Emitted DEF StartStage
    <2>2. pipeline' \in Pipelines /\ pipeline'.at = "relay" /\ pipeline'.event = pipeline.event
      BY <1>1, PlaceSet DEF StartStage, PipelineGoes, Typed
    <2>3. Within(events', LoopBuffer) /\ events'.q = <<>> /\ events'.open
      BY <1>1, Buffers, Fresh DEF StartStage
    <2>4. parser' \in Parsers /\ parser'.at = "none" /\ parser'.out = <<>> /\ parser'.tools = {}
      BY <1>1, NoParserType DEF StartStage
    <2>5. left' \in Lefts
      BY <1>1, Buffers DEF StartStage, Typed, Lefts
    <2>6. Typed'
      BY <1>1, <2>1, <2>2, <2>3, <2>4, <2>5 DEF StartStage, PipelineGoes, Typed, Scalars
    <2>. QED  BY <1>1, <2>2, <2>3, <2>4, <2>6 DEF StartStage, PipelineGoes, Joined, ParserIsJoined
  <1>2. CASE Relay
    <2>1. Within(events', LoopBuffer) /\ events'.open = events.open /\ Head(events.q) \in Kinds
      BY <1>2, Buffers, Popped DEF Relay, Typed
    <2>2. pipeline' \in Pipelines /\ pipeline'.at = "emit" /\ pipeline'.event \in Kinds
      BY <1>2, <2>1 DEF Relay, PipelineGoes, Pipelines
    <2>3. Typed'
      BY <1>2, <2>1, <2>2 DEF Relay, PipelineGoes, Typed, Scalars
    <2>. QED  BY <1>0, <1>2, <2>1, <2>2, <2>3 DEF Relay, PipelineGoes, Joined, ParserIsJoined
  <1>3. CASE RelayEmit
    <2>1. pipeline.event \in Kinds
      BY <1>3 DEF RelayEmit, Joined, Typed, Pipelines
    <2>2. Within(pipe', PipeBuffer)
      BY <1>3, <2>1, Emitted DEF RelayEmit
    <2>3. pipeline' \in Pipelines /\ pipeline'.at = "relay" /\ pipeline'.event = "none"
      BY <1>3 DEF RelayEmit, PipelineGoes, Pipelines
    <2>4. Typed'
      BY <1>3, <2>2, <2>3 DEF RelayEmit, PipelineGoes, Typed, Scalars
    <2>. QED  BY <1>3, <2>3, <2>4 DEF RelayEmit, PipelineGoes, Joined, ParserIsJoined
  <1>4. CASE StageEnds
    <2>1. Within(pipe', PipeBuffer)
      BY <1>0, <1>4, Emitted DEF StageEnds
    <2>2. pipeline' \in Pipelines /\ pipeline'.at \in {"begin", "final"}
          /\ pipeline'.event = pipeline.event
      <3>1. \/ pipeline' = [pipeline EXCEPT !.at = "begin"]
            \/ pipeline' = [pipeline EXCEPT !.at = "final"]
        BY <1>4 DEF StageEnds, PipelineGoes
      <3>2. pipeline \in Pipelines
        BY DEF Typed
      <3>3. CASE pipeline' = [pipeline EXCEPT !.at = "begin"]
        BY <3>2, <3>3, PlaceSet
      <3>4. CASE pipeline' = [pipeline EXCEPT !.at = "final"]
        BY <3>2, <3>4, PlaceSet
      <3>. QED  BY <3>1, <3>3, <3>4
    <2>3. Typed'
      BY <1>4, <2>1, <2>2 DEF StageEnds, PipelineGoes, Typed, Scalars
    <2>. QED  BY <1>4, <2>2, <2>3 DEF StageEnds, PipelineGoes, Joined, ParserIsJoined
  <1>5. CASE EmitFinal
    <2>1. Within(pipe', PipeBuffer)
      BY <1>0, <1>5, Emitted DEF EmitFinal
    <2>2. pipeline' \in Pipelines /\ pipeline'.at = "close" /\ pipeline'.event = pipeline.event
      BY <1>5, PlaceSet DEF EmitFinal, PipelineGoes, Typed
    <2>3. Typed'
      BY <1>5, <2>1, <2>2 DEF EmitFinal, PipelineGoes, Typed, Scalars
    <2>. QED  BY <1>5, <2>2, <2>3 DEF EmitFinal, PipelineGoes, Joined, ParserIsJoined
  <1>6. CASE PipelineCloses
    <2>1. Within(pipe', PipeBuffer)
      BY <1>6, Buffers, Shut DEF PipelineCloses, Typed
    <2>2. pipeline' \in Pipelines /\ pipeline'.at = "returned" /\ pipeline'.event = pipeline.event
      BY <1>6, PlaceSet DEF PipelineCloses, PipelineGoes, Typed
    <2>3. Typed'
      BY <1>6, <2>1, <2>2 DEF PipelineCloses, PipelineGoes, Typed, Scalars
    <2>. QED  BY <1>6, <2>2, <2>3 DEF PipelineCloses, PipelineGoes, Joined, ParserIsJoined
  <1>. QED  BY <1>1, <1>2, <1>3, <1>4, <1>5, <1>6 DEF PipelineStep

\* The steps of the consumer, the settling and the cancellation.
LEMMA ConsumerStream ==
    ASSUME StreamInv, ConsumerStep \/ Settle \/ Cancel
    PROVE  StreamInv'
  <1>. USE DEF StreamInv
  <1>0. UNCHANGED <<child, stdout, parser, loop, events, pipeline, panic, left, client>>
    BY DEF ConsumerStep, Receive, ApplyEvent, FanOut, CloseSubscribers, ConsumerGoes, Settle, Cancel
  <1>. SUFFICES Typed'
    BY <1>0 DEF Joined, ParserIsJoined
  <1>1. CASE Receive
    <2>1. Within(pipe', PipeBuffer) /\ Head(pipe.q) \in Kinds
      BY <1>1, Buffers, Popped DEF Receive, Typed
    <2>2. consumer' \in Consumers
      BY <1>1, <2>1 DEF Receive, ConsumerGoes, Consumers
    <2>. QED  BY <1>0, <1>1, <2>1, <2>2 DEF Receive, ConsumerGoes, Typed, Scalars
  <1>2. CASE ApplyEvent
    <2>1. info' \in Infos
      <3>1. info.checks \in Nat /\ info.stopped \in BOOLEAN /\ ctx \in BOOLEAN
        BY DEF Typed, Infos, Scalars
      <3>. QED  BY <1>2, <3>1 DEF ApplyEvent, Infos
    <2>2. consumer' \in Consumers
      <3>1. consumer' = [consumer EXCEPT !.at = "fanout"] /\ consumer \in Consumers
        BY <1>2 DEF ApplyEvent, ConsumerGoes, Typed
      <3>. QED  BY <3>1, PlaceSet
    <2>. QED  BY <1>0, <1>2, <2>1, <2>2 DEF ApplyEvent, ConsumerGoes, Typed, Scalars
  <1>3. CASE FanOut
    <2>1. feed' \in [Clients -> Feeds]
      <3>1. ASSUME NEW c \in Clients, feed[c].n < SubBuffer
            PROVE  [feed[c] EXCEPT !.n = @ + 1] \in Feeds
        <4>1. feed[c] \in Feeds
          BY DEF Typed
        <4>. QED  BY <3>1, <4>1, Buffers DEF Feeds
      <3>. QED  BY <1>3, <3>1 DEF FanOut, Typed
    <2>2. consumer' \in Consumers
      BY <1>3 DEF FanOut, ConsumerGoes, Consumers
    <2>. QED  BY <1>0, <1>3, <2>1, <2>2 DEF FanOut, ConsumerGoes, Typed, Scalars
  <1>4. CASE CloseSubscribers
    <2>1. feed' \in [Clients -> Feeds]
      <3>1. \A f \in Feeds : [f EXCEPT !.open = FALSE] \in Feeds
        BY DEF Feeds
      <3>. QED  BY <1>4, <3>1 DEF CloseSubscribers, Typed
    <2>2. consumer' \in Consumers
      BY <1>4, PlaceSet DEF CloseSubscribers, ConsumerGoes, Typed
    <2>. QED  BY <1>0, <1>4, <2>1, <2>2 DEF CloseSubscribers, ConsumerGoes, Typed, Scalars
  <1>5. CASE Settle \/ Cancel
    <2>1. info' \in Infos
      <3>1. \A b \in BOOLEAN : [info EXCEPT !.stopped = b] \in Infos
        BY DEF Typed, Infos
      <3>2. info.stopped \in BOOLEAN /\ ctx \in BOOLEAN
        BY DEF Typed, Infos, Scalars
      <3>. QED  BY <1>5, <3>1, <3>2 DEF Settle, Cancel
    <2>. QED  BY <1>0, <1>5, <2>1 DEF Settle, Cancel, Typed, Scalars
  <1>. QED  BY <1>1, <1>2, <1>3, <1>4, <1>5 DEF ConsumerStep

\* The steps of a client and its relay.
LEMMA ClientStream ==
    ASSUME StreamInv, NEW c \in Clients, ClientStep(c)
    PROVE  StreamInv'
  <1>. USE DEF StreamInv
  <1>1. UNCHANGED <<ctx, child, stdout, parser, loop, events, pipeline, pipe, consumer, info, done, left>>
        /\ panic' \in {panic, "relay"}
    BY DEF ClientStep, Subscribe, Unsubscribe, Disconnect, Unregister, RelayTakes, RelaySends,
           ClientGoes
  <1>2. client' \in [Clients -> Conns]
    <2>1. \A k \in Conns, b \in {"leaving", "gone"}, e \in {"range", "send", "ended"} :
             [k EXCEPT !.conn = b] \in Conns /\ [k EXCEPT !.relay = e] \in Conns
      BY DEF Conns
    <2>2. client[c] \in Conns
      BY DEF Typed
    <2>3. PICK k \in Conns : client' = [client EXCEPT ![c] = k]
      BY <2>1, <2>2 DEF ClientStep, Subscribe, Unsubscribe, Disconnect, Unregister, RelayTakes,
                        RelaySends, ClientGoes
    <2>. QED  BY <2>3 DEF Typed
  <1>3. feed' \in [Clients -> Feeds]
    <2>1. CASE Subscribe(c)
      <3>1. [n |-> 0, open |-> TRUE] \in Feeds
        BY Buffers DEF Feeds
      <3>. QED  BY <2>1, <3>1 DEF Subscribe, Typed
    <2>2. CASE RelayTakes(c)
      <3>1. feed[c] \in Feeds
        BY DEF Typed
      <3>2. feed[c].n > 0 => [feed[c] EXCEPT !.n = @ - 1] \in Feeds
        BY <3>1, Buffers DEF Feeds
      <3>3. feed' = feed \/ (feed[c].n > 0 /\ feed' = [feed EXCEPT ![c] = [feed[c] EXCEPT !.n = @ - 1]])
        BY <2>2 DEF RelayTakes, Typed
      <3>. QED  BY <3>2, <3>3 DEF Typed
    <2>. QED  BY <2>1, <2>2 DEF ClientStep, Unsubscribe, Disconnect, Unregister, RelaySends, Typed
  <1>4. subs' \subseteq Clients
    BY DEF ClientStep, Subscribe, Unsubscribe, Disconnect, Unregister, RelayTakes, RelaySends, Typed
  <1>5. Typed'
    BY <1>1, <1>2, <1>3, <1>4 DEF Typed, Scalars
  <1>. QED  BY <1>1, <1>5 DEF Joined, ParserIsJoined

\* Every step keeps the types and Joined.
LEMMA NextStream == StreamInv /\ [Next]_vars => StreamInv'
  <1>1. StreamInv /\ UNCHANGED vars => StreamInv'
    BY DEF vars, StreamInv, Typed, Scalars, Joined, ParserIsJoined
  <1>. QED  BY <1>1, ParserStream, LoopStream, PipelineStream, ConsumerStream, ClientStream
            DEF Next, ContextKills, EndOfOutput, LineTooLong, ParserStep, ReadClosed

\* The types and Joined hold in every reachable state.
LEMMA StreamAlways == Spec => []StreamInv
  BY InitStream, NextStream, PTL DEF Spec

\* Every variable of the event stream has its type and no channel ever holds
\* more than its capacity; the error event of a process that cannot be started,
\* which is sent without a look at the room, finds the channel empty.
THEOREM StreamTypeCorrect == Spec => []TypeOK
  <1>1. StreamInv => TypeOK
    BY TypedIs DEF StreamInv
  <1>. QED  BY <1>1, StreamAlways, PTL

\* runStandalone: whatever ends a stage, a cancellation in the middle of a
\* burst of output too, Run closes the loop's channel only after Parse returned.
THEOREM ParserAlwaysJoined == Spec => []ParserIsJoined
  <1>1. StreamInv => ParserIsJoined
    BY DEF StreamInv, Joined
  <1>. QED  BY <1>1, StreamAlways, PTL

----------------------------------------------------------------------------
(* The event stream: tool scopes *)

Where(kind, q) == {i \in 1..Len(q) : q[i] = kind}

\* Count is the number of places.
LEMMA CountIs ==
    ASSUME NEW q \in Seq(Kinds), NEW kind
    PROVE  /\ IsFiniteSet(Where(kind, q)) /\ Count(kind, q) \in Nat
           /\ Count(kind, q) = Cardinality(Where(kind, q))
  <1>1. Len(q) \in Nat /\ Where(kind, q) \in SUBSET (1..Len(q))
    BY DEF Where
  <1>2. IsFiniteSet(1..Len(q))
    BY <1>1, FS_Interval
  <1>3. IsFiniteSet(Where(kind, q))
    BY <1>1, <1>2, FS_Subset
  <1>. QED  BY <1>3, FS_CardinalityType DEF Count, Where

\* No event, nothing to count.
LEMMA CountEmpty == ASSUME NEW kind PROVE Count(kind, <<>>) = 0
  <1>1. {i \in 1..Len(<<>>) : <<>>[i] = kind} = {}
    OBVIOUS
  <1>. QED  BY <1>1, FS_EmptySet DEF Count

\* 1 if the event is of the kind.
One(kind, x) == IF x = kind THEN 1 ELSE 0

\* One event more.
LEMMA CountAppend ==
    ASSUME NEW q \in Seq(Kinds), NEW x \in Kinds, NEW kind
    PROVE  Count(kind, Append(q, x)) = Count(kind, q) + One(kind, x)
  <1>. DEFINE p == Append(q, x)
  <1>1. p \in Seq(Kinds) /\ Len(p) = Len(q) + 1 /\ Len(q) \in Nat /\ p[Len(q) + 1] = x
        /\ \A i \in 1..Len(q) : p[i] = q[i]
    OBVIOUS
  <1>. HIDE DEF p
  <1>4. /\ IsFiniteSet(Where(kind, q)) /\ Count(kind, q) \in Nat
        /\ Count(kind, q) = Cardinality(Where(kind, q))
        /\ Count(kind, p) = Cardinality(Where(kind, p))
    BY <1>1, CountIs
  <1>2. CASE x = kind
    <2>1. Where(kind, p) = Where(kind, q) \cup {Len(q) + 1} /\ Len(q) + 1 \notin Where(kind, q)
      BY <1>1, <1>2 DEF Where
    <2>2. Count(kind, p) = Count(kind, q) + 1
      BY <1>4, <2>1, FS_AddElement
    <2>. QED  BY <1>2, <2>2 DEF p, One
  <1>3. CASE x # kind
    <2>1. Where(kind, p) = Where(kind, q)
      BY <1>1, <1>3 DEF Where
    <2>2. Count(kind, p) = Count(kind, q)
      BY <1>4, <2>1
    <2>. QED  BY <1>3, <1>4, <2>2 DEF p, One
  <1>. QED  BY <1>2, <1>3

\* The first event taken out.
LEMMA CountTail ==
    ASSUME NEW q \in Seq(Kinds), q # <<>>, NEW kind
    PROVE  Count(kind, q) = Count(kind, Tail(q)) + One(kind, Head(q))
  <1>. DEFINE p == Tail(q)
  <1>1. p \in Seq(Kinds) /\ Len(p) = Len(q) - 1 /\ Len(q) \in Nat \ {0} /\ Head(q) = q[1]
        /\ \A i \in 1..Len(p) : p[i] = q[i + 1]
    OBVIOUS
  <1>. HIDE DEF p
  <1>. DEFINE S == Where(kind, p)
              T == Where(kind, q) \ {1}
              f == [i \in S |-> i + 1]
  <1>2. f \in Bijection(S, T)
    <2>1. S \subseteq Nat /\ T \subseteq Nat
      BY <1>1 DEF Where
    <2>2. \A i \in S : i + 1 \in T
      BY <1>1 DEF Where
    <2>3. \A j \in T : j - 1 \in S /\ (j - 1) + 1 = j
      BY <1>1 DEF Where
    <2>4. f \in [S -> T]
      BY <2>2
    <2>5. \A i, j \in S : f[i] = f[j] => i = j
      BY <2>1
    <2>6. \A j \in T : \E i \in S : f[i] = j
      BY <2>3
    <2>. HIDE DEF f, S, T
    <2>. QED  BY <2>4, <2>5, <2>6 DEF Bijection, Injection, Surjection, IsInjective
  <1>3. Cardinality(T) = Cardinality(S)
    <2>. HIDE DEF f, S, T
    <2>1. IsFiniteSet(S)
      BY <1>1, CountIs DEF S
    <2>. QED  BY <1>2, <2>1, FS_Bijection DEF ExistsBijection
  <1>4. 1 \in Where(kind, q) <=> Head(q) = kind
    BY <1>1 DEF Where
  <1>5. IsFiniteSet(Where(kind, q)) /\ Count(kind, q) = Cardinality(Where(kind, q))
        /\ Count(kind, p) = Cardinality(S) /\ Count(kind, q) \in Nat /\ Count(kind, p) \in Nat
    BY <1>1, CountIs
  <1>6. Cardinality(T) = IF 1 \in Where(kind, q) THEN Cardinality(Where(kind, q)) - 1
                         ELSE Cardinality(Where(kind, q))
    BY <1>5, FS_RemoveElement
  <1>. HIDE DEF S, T
  <1>. QED  BY <1>3, <1>4, <1>5, <1>6 DEF p, One

\* A burst of ends has nothing else.
LEMMA CountEnds ==
    ASSUME NEW n \in Nat
    PROVE  Count("check_end", Ends(n)) = n /\ Count("check_start", Ends(n)) = 0
           /\ Len(Ends(n)) = n
  <1>1. Len(Ends(n)) = n /\ \A i \in 1..n : Ends(n)[i] = "check_end"
    BY DEF Ends
  <1>2. {i \in 1..Len(Ends(n)) : Ends(n)[i] = "check_end"} = 1..n
    BY <1>1
  <1>3. {i \in 1..Len(Ends(n)) : Ends(n)[i] = "check_start"} = {}
    BY <1>1
  <1>4. Cardinality(1..n) = n
    BY FS_Interval
  <1>. QED  BY <1>1, <1>2, <1>3, <1>4, FS_EmptySet DEF Count

\* What an event does to the number of open scopes, where it does what it
\* should: a stage begins with none open and an end closes one that is open.
Step(a, x, b) ==
    CASE x = "stage_start" -> a = 0 /\ b = 0
      [] x = "check_start" -> b = a + 1
      [] x = "check_end" -> a = b + 1
      [] OTHER -> b = a

\* The events q lead from a to b open scopes, and never below none.
Walks(q, a, b) ==
    /\ \E f \in [0..Len(q) -> Nat] :
          /\ f[0] = a /\ f[Len(q)] = b
          /\ \A i \in 1..Len(q) : Step(f[i - 1], q[i], f[i])
    /\ a + Count("check_start", q) = b + Count("check_end", q)

\* No event changes nothing.
LEMMA WalkEmpty ==
    ASSUME NEW a \in Nat, NEW b
    PROVE  Walks(<<>>, a, b) <=> a = b
  <1>1. Walks(<<>>, a, b) => a = b
    BY DEF Walks
  <1>2. Walks(<<>>, a, a)
    <2>. DEFINE f == [i \in 0..0 |-> a]
    <2>1. f \in [0..Len(<<>>) -> Nat] /\ f[0] = a /\ f[Len(<<>>)] = a
          /\ \A i \in 1..Len(<<>>) : Step(f[i - 1], <<>>[i], f[i])
      OBVIOUS
    <2>. HIDE DEF f
    <2>. QED  BY <2>1, CountEmpty DEF Walks
  <1>. QED  BY <1>1, <1>2

\* One event more leads one step further.
LEMMA WalkAppend ==
    ASSUME NEW q \in Seq(Kinds), NEW x \in Kinds, NEW a \in Nat, NEW b \in Nat, NEW c \in Nat,
           Walks(q, a, b), Step(b, x, c)
    PROVE  Walks(Append(q, x), a, c)
  <1>. DEFINE p == Append(q, x)
  <1>1. p \in Seq(Kinds) /\ Len(p) = Len(q) + 1 /\ Len(q) \in Nat /\ p[Len(q) + 1] = x
        /\ \A i \in 1..Len(q) : p[i] = q[i]
    OBVIOUS
  <1>2. Count("check_start", p) = Count("check_start", q) + One("check_start", x)
        /\ Count("check_end", p) = Count("check_end", q) + One("check_end", x)
    BY CountAppend
  <1>. HIDE DEF p
  <1>3. PICK f \in [0..Len(q) -> Nat] :
            /\ f[0] = a /\ f[Len(q)] = b
            /\ \A i \in 1..Len(q) : Step(f[i - 1], q[i], f[i])
    BY DEF Walks
  <1>. DEFINE g == [i \in 0..Len(p) |-> IF i <= Len(q) THEN f[i] ELSE c]
  <1>4. g \in [0..Len(p) -> Nat] /\ g[0] = a /\ g[Len(p)] = c
    BY <1>1, <1>3
  <1>5. ASSUME NEW i \in 1..Len(p)
        PROVE  Step(g[i - 1], p[i], g[i])
    <2>1. CASE i <= Len(q)
      <3>1. g[i] = f[i] /\ g[i - 1] = f[i - 1] /\ p[i] = q[i] /\ i \in 1..Len(q)
        BY <1>1, <2>1
      <3>. QED  BY <1>3, <3>1
    <2>2. CASE ~ (i <= Len(q))
      <3>1. i = Len(q) + 1 /\ g[i] = c /\ g[i - 1] = b /\ p[i] = x
        BY <1>1, <1>3, <2>2
      <3>. QED  BY <3>1
    <2>. QED  BY <2>1, <2>2
  <1>6. a + Count("check_start", p) = c + Count("check_end", p)
    <2>1. a + Count("check_start", q) = b + Count("check_end", q)
          /\ Count("check_start", q) \in Nat /\ Count("check_end", q) \in Nat
      BY CountIs DEF Walks
    <2>. QED  BY <1>2, <2>1 DEF Step, One
  <1>. HIDE DEF g
  <1>. QED  BY <1>4, <1>5, <1>6 DEF Walks, p

\* The first event is the first step.
LEMMA WalkTail ==
    ASSUME NEW q \in Seq(Kinds), q # <<>>, NEW a \in Nat, NEW b \in Nat, Walks(q, a, b)
    PROVE  \E m \in Nat : Step(a, Head(q), m) /\ Walks(Tail(q), m, b)
  <1>. DEFINE p == Tail(q)
  <1>1. p \in Seq(Kinds) /\ Len(p) = Len(q) - 1 /\ Len(q) \in Nat \ {0} /\ Head(q) = q[1]
        /\ \A i \in 1..Len(p) : p[i] = q[i + 1]
    OBVIOUS
  <1>2. Count("check_start", q) = Count("check_start", p) + One("check_start", Head(q))
        /\ Count("check_end", q) = Count("check_end", p) + One("check_end", Head(q))
    BY CountTail
  <1>. HIDE DEF p
  <1>3. PICK f \in [0..Len(q) -> Nat] :
            /\ f[0] = a /\ f[Len(q)] = b
            /\ \A i \in 1..Len(q) : Step(f[i - 1], q[i], f[i])
    BY DEF Walks
  <1>. DEFINE g == [i \in 0..Len(p) |-> f[i + 1]]
              m == f[1]
  <1>4. m \in Nat /\ Step(a, Head(q), m)
    <2>1. 1 \in 1..Len(q) /\ 1 - 1 = 0
      BY <1>1
    <2>2. Step(f[1 - 1], q[1], f[1])
      BY <1>3, <2>1
    <2>. QED  BY <1>1, <1>3, <2>1, <2>2
  <1>5. g \in [0..Len(p) -> Nat] /\ g[0] = m /\ g[Len(p)] = b
    BY <1>1, <1>3
  <1>6. ASSUME NEW i \in 1..Len(p)
        PROVE  Step(g[i - 1], p[i], g[i])
    <2>1. i + 1 \in 1..Len(q) /\ (i + 1) - 1 = i
      BY <1>1
    <2>2. g[i] = f[i + 1] /\ g[i - 1] = f[i] /\ p[i] = q[i + 1]
      BY <1>1
    <2>3. Step(f[(i + 1) - 1], q[i + 1], f[i + 1])
      BY <1>3, <2>1
    <2>. QED  BY <2>1, <2>2, <2>3
  <1>. HIDE DEF g, m
  <1>7. m + Count("check_start", p) = b + Count("check_end", p)
    <2>1. a + Count("check_start", q) = b + Count("check_end", q)
          /\ Count("check_start", p) \in Nat /\ Count("check_end", p) \in Nat
      BY <1>1, CountIs DEF Walks
    <2>. QED  BY <1>2, <1>4, <2>1 DEF Step, One
  <1>8. Walks(p, m, b)
    BY <1>5, <1>6, <1>7 DEF Walks
  <1>. QED  BY <1>4, <1>8 DEF p

\* finishToolChecks closes what is open, one by one.
LEMMA WalkEnds ==
    ASSUME NEW n \in Nat
    PROVE  Walks(Ends(n), n, 0)
  <1>. DEFINE f == [i \in 0..n |-> n - i]
  <1>1. Len(Ends(n)) = n /\ \A i \in 1..n : Ends(n)[i] = "check_end"
    BY DEF Ends
  <1>2. f \in [0..n -> Nat] /\ f[0] = n /\ f[n] = 0
    OBVIOUS
  <1>3. \A i \in 1..n : f[i - 1] = f[i] + 1
    OBVIOUS
  <1>. HIDE DEF f
  <1>4. \A i \in 1..n : Step(f[i - 1], Ends(n)[i], f[i])
    BY <1>1, <1>3 DEF Step
  <1>. QED  BY <1>1, <1>2, <1>4, CountEnds DEF Walks

\* An event that somebody holds is one still on its way.
Carries(held, x, a, b) == IF held THEN Step(a, x, b) ELSE a = b

\* From PendingChecks, through the events on their way, to the scopes that the
\* parser has open.
Paced ==
    \E a, b, c, d \in Nat :
        /\ Carries(consumer.at = "apply", consumer.event, info.checks, a)
        /\ Walks(pipe.q, a, b)
        /\ Carries(pipeline.at = "emit", pipeline.event, b, c)
        /\ Walks(events.q, c, d)
        /\ Walks(parser.out, d, Cardinality(parser.tools))

Scopes == ~ info.stopped => Paced

\* What is known of the sequences and numbers.
LEMMA StreamFacts ==
    ASSUME StreamInv
    PROVE  /\ pipe.q \in Seq(Kinds) /\ events.q \in Seq(Kinds) /\ parser.out \in Seq(Kinds)
           /\ info.checks \in Nat /\ Cardinality(parser.tools) \in Nat
           /\ IsFiniteSet(parser.tools) /\ parser.tools \subseteq Tools
           /\ pipeline.event \in Kinds \cup {"none"} /\ consumer.event \in Kinds \cup {"none"}
           /\ info.stopped \in BOOLEAN /\ ctx \in BOOLEAN
  <1>1. IsFiniteSet(parser.tools) /\ Cardinality(parser.tools) \in Nat
    BY ToolsFinite DEF StreamInv, Typed
  <1>. QED  BY <1>1 DEF StreamInv, Typed, Scalars, Within, Channels, Parsers, Infos, Pipelines,
                        Consumers

\* One event more.
LEMMA Appended ==
    ASSUME NEW q \in Seq(Kinds), NEW x \in Kinds
    PROVE  /\ Append(q, x) \in Seq(Kinds) /\ Len(Append(q, x)) = Len(q) + 1
           /\ Append(q, x)[Len(q) + 1] = x
           /\ \A i \in 1..Len(q) : Append(q, x)[i] = q[i]
  OBVIOUS

\* Two events, one after the other.
LEMMA Pair ==
    ASSUME NEW x \in Kinds, NEW y \in Kinds
    PROVE  Append(Append(<<>>, x), y) = <<x, y>>
  <1>. DEFINE s == Append(<<>>, x)
              u == Append(s, y)
  <1>1. s \in Seq(Kinds) /\ Len(s) = 1 /\ s[1] = x
    OBVIOUS
  <1>. HIDE DEF s
  <1>2. u \in Seq(Kinds) /\ Len(u) = Len(s) + 1 /\ u[Len(s) + 1] = y
        /\ \A i \in 1..Len(s) : u[i] = s[i]
    BY <1>1, Appended
  <1>. HIDE DEF u
  <1>3. u \in Seq(Kinds) /\ Len(u) = 2 /\ u[1] = x /\ u[2] = y
    BY <1>1, <1>2
  <1>4. u = <<x, y>>
    BY <1>3
  <1>. QED  BY <1>4 DEF u, s

\* What a line gives to emit leads from the scopes before it to those after.
LEMMA LineWalks ==
    ASSUME StreamInv, ParseLine
    PROVE  Walks(parser'.out, Cardinality(parser.tools), Cardinality(parser'.tools))
  <1>. DEFINE n == Cardinality(parser.tools)
  <1>0. n \in Nat /\ IsFiniteSet(parser.tools)
    BY StreamFacts
  <1>1. Line(parser')
    BY LineIs DEF StreamInv, Typed
  <1>2. <<>> \in Seq(Kinds) /\ {"activity", "check_start", "check_end"} \subseteq Kinds
        /\ \A x \in Kinds : <<x>> = Append(<<>>, x) /\ <<x>> \in Seq(Kinds)
    BY DEF Kinds
  <1>3. \A a \in Nat : Step(a, "activity", a) /\ Step(a, "check_start", a + 1)
                       /\ (a > 0 => Step(a, "check_end", a - 1) /\ a - 1 \in Nat)
    BY DEF Step
  <1>4. \A a \in Nat : Walks(<<>>, a, a)
    BY WalkEmpty
  <1>5. CASE parser' = [at |-> parser.at, out |-> <<"activity">>, tools |-> parser.tools]
    <2>1. Walks(Append(<<>>, "activity"), n, n)
      BY <1>0, <1>2, <1>3, <1>4, WalkAppend
    <2>. QED  BY <1>2, <1>5, <2>1
  <1>6. ASSUME NEW t \in Tools \ parser.tools,
               parser' = [at |-> parser.at, out |-> <<"check_start", "activity">>,
                          tools |-> parser.tools \cup {t}]
        PROVE  Walks(parser'.out, n, Cardinality(parser'.tools))
    <2>1. Cardinality(parser.tools \cup {t}) = n + 1
      BY <1>0, FS_AddElement
    <2>3. Append(<<>>, "check_start") \in Seq(Kinds) /\ n + 1 \in Nat
      BY <1>0, <1>2
    <2>2. Walks(Append(<<>>, "check_start"), n, n + 1)
      <3>1. Step(n, "check_start", n + 1) /\ Walks(<<>>, n, n) /\ "check_start" \in Kinds
        BY <1>0, <1>2, <1>3, <1>4
      <3>. HIDE DEF n
      <3>. QED  BY <1>0, <1>2, <2>3, <3>1, WalkAppend
    <2>4. Walks(Append(Append(<<>>, "check_start"), "activity"), n, n + 1)
      BY <1>0, <1>2, <1>3, <2>2, <2>3, WalkAppend
    <2>5. Append(Append(<<>>, "check_start"), "activity") = <<"check_start", "activity">>
      BY <1>2, Pair
    <2>. QED  BY <1>6, <2>1, <2>4, <2>5
  <1>7. ASSUME NEW t \in parser.tools,
               parser' = [at |-> parser.at, out |-> <<"check_end", "activity">>,
                          tools |-> parser.tools \ {t}]
        PROVE  Walks(parser'.out, n, Cardinality(parser'.tools))
    <2>1. Cardinality(parser.tools \ {t}) = n - 1 /\ IsFiniteSet(parser.tools \ {t})
      BY <1>0, FS_RemoveElement
    <2>2. n - 1 \in Nat /\ n > 0
      BY <1>0, <2>1, FS_CardinalityType
    <2>3. Walks(Append(<<>>, "check_end"), n, n - 1)
      BY <1>0, <1>2, <1>3, <1>4, <2>2, WalkAppend
    <2>4. Append(<<>>, "check_end") \in Seq(Kinds)
      BY <1>2
    <2>5. Walks(Append(Append(<<>>, "check_end"), "activity"), n, n - 1)
      BY <1>0, <1>2, <1>3, <2>2, <2>3, <2>4, WalkAppend
    <2>6. Append(Append(<<>>, "check_end"), "activity") = <<"check_end", "activity">>
      BY <1>2, Pair
    <2>. QED  BY <1>7, <2>1, <2>5, <2>6
  <1>8. CASE parser' = [at |-> parser.at, out |-> Ends(n), tools |-> {}]
    BY <1>0, <1>8, WalkEnds, FS_EmptySet
  <1>. QED  BY <1>1, <1>5, <1>6, <1>7, <1>8 DEF Line

\* The parser's steps.
LEMMA ParserScopes ==
    ASSUME StreamInv, Scopes, ParseLine \/ ParseEnds \/ ParserEmit \/ ParserDone
    PROVE  Scopes'
  <1>. SUFFICES ASSUME ~ info'.stopped PROVE Paced'
    BY DEF Scopes
  <1>0. UNCHANGED <<info, consumer, pipe, pipeline>>
    BY DEF ParseLine, ParseEnds, ParserEmit, ParserDone
  <1>1. PICK a \in Nat, b \in Nat, c \in Nat, d \in Nat :
            /\ Carries(consumer.at = "apply", consumer.event, info.checks, a)
            /\ Walks(pipe.q, a, b)
            /\ Carries(pipeline.at = "emit", pipeline.event, b, c)
            /\ Walks(events.q, c, d)
            /\ Walks(parser.out, d, Cardinality(parser.tools))
    BY <1>0 DEF Scopes, Paced
  <1>2. SUFFICES \E e \in Nat : Walks(events'.q, c, e) /\ Walks(parser'.out, e, Cardinality(parser'.tools))
    BY <1>0, <1>1 DEF Paced
  <1>3. CASE ParseLine
    <2>1. parser.out = <<>> /\ events' = events
      BY <1>3 DEF ParseLine
    <2>2. d = Cardinality(parser.tools)
      BY <1>1, <2>1, WalkEmpty
    <2>. QED  BY <1>1, <1>3, <2>1, <2>2, LineWalks
  <1>4. CASE ParseEnds
    <2>1. parser.out = <<>> /\ events' = events /\ parser' = [FinishToolChecks EXCEPT !.at = "drain"]
      BY <1>4 DEF ParseEnds
    <2>2. d = Cardinality(parser.tools)
      BY <1>1, <2>1, WalkEmpty
    <2>. DEFINE q == FinishToolChecks
    <2>3. q = [at |-> parser.at, out |-> Ends(d), tools |-> {}] /\ q \in Parsers
      BY <2>2, FinishIs, ToolsFinite DEF StreamInv, Typed, Parsers
    <2>. HIDE DEF q
    <2>4. parser' = [at |-> "drain", out |-> q.out, tools |-> q.tools]
      BY <2>1, <2>3, ParserAt DEF q
    <2>5. parser'.out = Ends(d) /\ parser'.tools = {}
      BY <2>3, <2>4
    <2>. QED  BY <1>1, <2>1, <2>5, WalkEnds, FS_EmptySet
  <1>5. CASE ParserEmit
    <2>0. parser.out \in Seq(Kinds) /\ parser.out # <<>> /\ events.q \in Seq(Kinds)
          /\ Cardinality(parser.tools) \in Nat /\ parser \in Parsers /\ Within(events, LoopBuffer)
      BY <1>5, StreamFacts DEF ParserEmit, StreamInv, Typed
    <2>1. PICK e \in Nat : Step(d, Head(parser.out), e)
                           /\ Walks(Tail(parser.out), e, Cardinality(parser.tools))
      BY <1>1, <2>0, WalkTail
    <2>2. Head(parser.out) \in Kinds /\ Tail(parser.out) \in Seq(Kinds)
      BY <2>0
    <2>3. Walks(Append(events.q, Head(parser.out)), c, e)
      BY <1>1, <2>0, <2>1, <2>2, WalkAppend
    <2>4. events.open
      BY <1>5 DEF ParserEmit, StreamInv, Joined, Typed, Parsers
    <2>5. /\ events' = [events EXCEPT !.q = Append(@, Head(parser.out))]
          /\ Len(events.q) < LoopBuffer
          /\ parser' = [parser EXCEPT !.out = Tail(parser.out)]
      BY <1>5, <2>4 DEF ParserEmit
    <2>6. events'.q = Append(events.q, Head(parser.out))
      BY <2>0, <2>2, <2>5, Pushed, Buffers
    <2>7. parser' = [at |-> parser.at, out |-> Tail(parser.out), tools |-> parser.tools]
      BY <2>0, <2>2, <2>5, ParserOut
    <2>. QED  BY <2>1, <2>3, <2>6, <2>7
  <1>6. CASE ParserDone
    <2>1. parser' = [at |-> "done", out |-> parser.out, tools |-> parser.tools] /\ events' = events
      BY <1>6, ParserAt DEF ParserDone, StreamInv, Typed
    <2>. QED  BY <1>1, <2>1
  <1>. QED  BY <1>3, <1>4, <1>5, <1>6

\* What Paced says when the parser is at rest and the channel of the loop empty.
LEMMA Quiet ==
    ASSUME StreamInv, pipeline.at \in {"begin", "final"}
    PROVE  parser.out = <<>> /\ parser.tools = {} /\ events.q = <<>> /\ pipeline.at # "emit"
  <1>1. parser.at \in {"none", "done"}
    BY DEF StreamInv, Joined, Typed, Parsers
  <1>. QED  BY <1>1 DEF StreamInv, Joined

\* The steps of the loop and the end of the process.
LEMMA LoopScopes ==
    ASSUME StreamInv, Scopes, LoopStep \/ ProcessExits
    PROVE  Scopes'
  <1>. SUFFICES ASSUME ~ info'.stopped PROVE Paced'
    BY DEF Scopes
  <1>0. UNCHANGED <<info, consumer, pipe, pipeline>>
    BY DEF LoopStep, ProcessExits, StartProcess, StartFails, LoopCancelled, LoopJoined, LoopParsed,
           LoopWaited, LoopGoes, LoopCloses
  <1>1. Paced
    BY <1>0 DEF Scopes
  <1>2. SUFFICES ASSUME NEW c \in Nat, NEW d \in Nat, Walks(events.q, c, d),
                        Walks(parser.out, d, Cardinality(parser.tools))
                 PROVE  Walks(events'.q, c, d) /\ Walks(parser'.out, d, Cardinality(parser'.tools))
    BY <1>0, <1>1 DEF Paced
  <1>3. CASE StartProcess
    <2>1. parser.out = <<>> /\ parser.tools = {} /\ events' = events
      BY <1>3 DEF StartProcess, StreamInv, Joined
    <2>2. parser' = [at |-> "read", out |-> NoParser.out, tools |-> NoParser.tools]
      BY <1>3, NoParserType, ParserAt DEF StartProcess
    <2>3. parser'.out = <<>> /\ parser'.tools = {}
      BY <2>2, NoParserType
    <2>. QED  BY <1>2, <2>1, <2>3
  <1>4. CASE StartFails
    <2>1. "activity" \in Kinds /\ Len(events.q) < LoopBuffer /\ Within(events, LoopBuffer)
      BY <1>4, Buffers DEF StartFails, StreamInv, Joined, Kinds, Typed
    <2>2. events'.q = Append(events.q, "activity") /\ parser' = parser
      BY <1>4, <2>1, Buffers, Pushed DEF StartFails
    <2>3. Step(d, "activity", d) /\ events.q \in Seq(Kinds)
      BY StreamFacts DEF Step
    <2>4. Walks(Append(events.q, "activity"), c, d)
      BY <1>2, <2>1, <2>3, WalkAppend
    <2>. QED  BY <1>2, <2>2, <2>4
  <1>5. CASE LoopCloses
    <2>1. events'.q = events.q /\ parser' = parser
      BY <1>5, Buffers, Shut DEF LoopCloses, StreamInv, Typed
    <2>. QED  BY <1>2, <2>1
  <1>6. CASE ProcessExits \/ LoopCancelled \/ LoopJoined \/ LoopParsed \/ LoopWaited
    <2>1. UNCHANGED <<events, parser>>
      BY <1>6 DEF ProcessExits, LoopCancelled, LoopJoined, LoopParsed, LoopWaited, LoopGoes
    <2>. QED  BY <1>2, <2>1
  <1>. QED  BY <1>3, <1>4, <1>5, <1>6 DEF LoopStep

\* The steps of the pipeline.
LEMMA PipelineScopes ==
    ASSUME StreamInv, Scopes, PipelineStep
    PROVE  Scopes'
  <1>. SUFFICES ASSUME ~ info'.stopped PROVE Paced'
    BY DEF Scopes
  <1>0. UNCHANGED <<info, consumer>>
    BY DEF PipelineStep, StartStage, Relay, RelayEmit, StageEnds, EmitFinal, PipelineCloses,
           PipelineGoes
  <1>1. PICK a \in Nat, b \in Nat, c \in Nat, d \in Nat :
            /\ Carries(consumer.at = "apply", consumer.event, info.checks, a)
            /\ Walks(pipe.q, a, b)
            /\ Carries(pipeline.at = "emit", pipeline.event, b, c)
            /\ Walks(events.q, c, d)
            /\ Walks(parser.out, d, Cardinality(parser.tools))
    BY <1>0 DEF Scopes, Paced
  <1>2. SUFFICES \E e, f, g \in Nat :
                    /\ Walks(pipe'.q, a, e)
                    /\ Carries(pipeline'.at = "emit", pipeline'.event, e, f)
                    /\ Walks(events'.q, f, g)
                    /\ Walks(parser'.out, g, Cardinality(parser'.tools))
    BY <1>0, <1>1 DEF Paced
  <1>3. {"stage_start", "stage_end", "final"} \subseteq Kinds /\ pipe.q \in Seq(Kinds)
        /\ events.q \in Seq(Kinds) /\ Typed
    BY StreamFacts DEF Kinds, StreamInv
  <1>4. CASE StartStage
    <2>1. b = 0 /\ c = 0 /\ d = 0
      <3>1. d = 0
        BY <1>1, <1>4, Quiet, WalkEmpty, FS_EmptySet DEF StartStage
      <3>2. c = d
        BY <1>1, <1>4, Quiet, WalkEmpty DEF StartStage
      <3>3. b = c
        BY <1>1, <1>4 DEF StartStage, Carries
      <3>. QED  BY <3>1, <3>2, <3>3
    <2>2. pipe'.q = Append(pipe.q, "stage_start")
      BY <1>3, <1>4, Emitted DEF StartStage
    <2>3. Step(0, "stage_start", 0)
      BY DEF Step
    <2>4. Walks(pipe'.q, a, 0)
      BY <1>1, <1>3, <2>1, <2>2, <2>3, WalkAppend
    <2>5. pipeline'.at = "relay"
      BY <1>3, <1>4, PlaceSet DEF StartStage, PipelineGoes, Typed
    <2>6. events'.q = <<>> /\ parser'.out = <<>> /\ parser'.tools = {}
      BY <1>4, NoParserType, Fresh, Buffers DEF StartStage
    <2>7. Walks(events'.q, 0, 0) /\ Walks(parser'.out, 0, Cardinality(parser'.tools))
      BY <2>6, WalkEmpty, FS_EmptySet
    <2>. QED  BY <2>4, <2>5, <2>7 DEF Carries
  <1>5. CASE Relay
    <2>1. events.q # <<>> /\ parser' = parser /\ pipe' = pipe
          /\ pipeline' = [at |-> "emit", event |-> Head(events.q)]
          /\ events' = [events EXCEPT !.q = Tail(@)] /\ pipeline.at # "emit"
      BY <1>5 DEF Relay, PipelineGoes
    <2>2. b = c
      BY <1>1, <2>1 DEF Carries
    <2>3. PICK m \in Nat : Step(c, Head(events.q), m) /\ Walks(Tail(events.q), m, d)
      BY <1>1, <1>3, <2>1, WalkTail
    <2>4. events'.q = Tail(events.q)
      BY <1>3, <2>1, Popped, Buffers DEF Typed
    <2>5. pipeline'.at = "emit" /\ pipeline'.event = Head(events.q)
      BY <2>1
    <2>6. Carries(pipeline'.at = "emit", pipeline'.event, b, m)
      BY <2>2, <2>3, <2>5 DEF Carries
    <2>. QED  BY <1>1, <2>1, <2>3, <2>4, <2>6
  <1>6. CASE RelayEmit
    <2>1. pipeline.at = "emit" /\ Emit(pipeline.event) /\ UNCHANGED <<events, parser>>
          /\ pipeline' = [at |-> "relay", event |-> "none"]
      BY <1>6 DEF RelayEmit, PipelineGoes
    <2>2. pipeline.event \in Kinds
      BY <2>1 DEF StreamInv, Joined, Typed, Pipelines
    <2>3. pipe'.q = Append(pipe.q, pipeline.event)
      BY <1>3, <2>1, <2>2, Emitted
    <2>4. Step(b, pipeline.event, c)
      BY <1>1, <2>1 DEF Carries
    <2>5. Walks(pipe'.q, a, c)
      BY <1>1, <1>3, <2>2, <2>3, <2>4, WalkAppend
    <2>6. Carries(pipeline'.at = "emit", pipeline'.event, c, c)
      BY <2>1 DEF Carries
    <2>. QED  BY <1>1, <2>1, <2>5, <2>6
  <1>7. CASE StageEnds \/ EmitFinal
    <2>1. PICK k \in {"stage_end", "final"} : Emit(k)
      BY <1>7 DEF StageEnds, EmitFinal
    <2>2. pipeline.at # "emit" /\ UNCHANGED <<events, parser>>
      BY <1>7 DEF StageEnds, EmitFinal
    <2>3. pipe'.q = Append(pipe.q, k) /\ k \in Kinds
      BY <1>3, <2>1, Emitted
    <2>4. Step(b, k, b)
      BY <2>1 DEF Step
    <2>5. Walks(pipe'.q, a, b)
      BY <1>1, <1>3, <2>3, <2>4, WalkAppend
    <2>6. pipeline'.at # "emit"
      <3>1. \/ pipeline' = [pipeline EXCEPT !.at = "begin"]
            \/ pipeline' = [pipeline EXCEPT !.at = "final"]
            \/ pipeline' = [pipeline EXCEPT !.at = "close"]
        BY <1>7 DEF StageEnds, EmitFinal, PipelineGoes
      <3>. QED  BY <1>3, <3>1 DEF Typed, Pipelines
    <2>7. b = c
      BY <1>1, <2>2 DEF Carries
    <2>. QED  BY <1>1, <2>2, <2>5, <2>6, <2>7 DEF Carries
  <1>8. CASE PipelineCloses
    <2>1. pipeline.at # "emit" /\ UNCHANGED <<events, parser>>
      BY <1>8 DEF PipelineCloses
    <2>2. pipeline'.at # "emit"
      BY <1>3, <1>8, PlaceSet DEF PipelineCloses, PipelineGoes, Typed
    <2>3. pipe'.q = pipe.q
      BY <1>3, <1>8, Shut, Buffers DEF PipelineCloses, Typed
    <2>4. b = c
      BY <1>1, <2>1 DEF Carries
    <2>. QED  BY <1>1, <2>1, <2>2, <2>3, <2>4 DEF Carries
  <1>. QED  BY <1>4, <1>5, <1>6, <1>7, <1>8 DEF PipelineStep

\* The steps of the consumer, the settling and the cancellation.
LEMMA ConsumerScopes ==
    ASSUME StreamInv, Scopes, ConsumerStep \/ Settle \/ Cancel
    PROVE  Scopes'
  <1>. SUFFICES ASSUME ~ info'.stopped PROVE Paced'
    BY DEF Scopes
  <1>0. UNCHANGED <<parser, events, pipeline>>
    BY DEF ConsumerStep, Receive, ApplyEvent, FanOut, CloseSubscribers, ConsumerGoes, Settle, Cancel
  <1>1. info.checks \in Nat /\ info.stopped \in BOOLEAN /\ ctx \in BOOLEAN /\ pipe.q \in Seq(Kinds)
        /\ Typed /\ info \in Infos
    BY StreamFacts DEF StreamInv, Typed
  <1>2. ~ info.stopped
    <2>1. CASE Settle
      BY <1>1, <2>1 DEF Settle, Infos
    <2>2. CASE Cancel
      BY <1>1, <2>2 DEF Cancel, Infos
    <2>3. CASE ApplyEvent
      <3>1. info'.stopped = (info.stopped \/ ctx)
        BY <2>3 DEF ApplyEvent
      <3>. QED  BY <3>1
    <2>. QED  BY <2>1, <2>2, <2>3 DEF ConsumerStep, Receive, FanOut, CloseSubscribers
  <1>3. PICK a \in Nat, b \in Nat :
            /\ Carries(consumer.at = "apply", consumer.event, info.checks, a)
            /\ Walks(pipe.q, a, b)
            /\ \E c, d \in Nat :
                  /\ Carries(pipeline.at = "emit", pipeline.event, b, c)
                  /\ Walks(events.q, c, d)
                  /\ Walks(parser.out, d, Cardinality(parser.tools))
    BY <1>2 DEF Scopes, Paced
  <1>4. SUFFICES \E e \in Nat : /\ Carries(consumer'.at = "apply", consumer'.event, info'.checks, e)
                                /\ Walks(pipe'.q, e, b)
    BY <1>0, <1>3 DEF Paced
  <1>5. CASE Receive
    <2>1. pipe.q # <<>> /\ consumer.at = "receive" /\ info' = info
          /\ pipe' = [pipe EXCEPT !.q = Tail(@)]
          /\ consumer' = [at |-> "apply", event |-> Head(pipe.q)]
      BY <1>5 DEF Receive, ConsumerGoes
    <2>2. a = info.checks
      BY <1>3, <2>1 DEF Carries
    <2>3. PICK m \in Nat : Step(a, Head(pipe.q), m) /\ Walks(Tail(pipe.q), m, b)
      BY <1>1, <1>3, <2>1, WalkTail
    <2>4. pipe'.q = Tail(pipe.q)
      BY <1>1, <2>1, Popped, Buffers DEF Typed
    <2>5. consumer'.at = "apply" /\ consumer'.event = Head(pipe.q)
      BY <2>1
    <2>6. Carries(consumer'.at = "apply", consumer'.event, info'.checks, m)
      BY <2>1, <2>2, <2>3, <2>5 DEF Carries
    <2>. QED  BY <2>3, <2>4, <2>6
  <1>6. CASE ApplyEvent
    <2>1. consumer.at = "apply" /\ pipe' = pipe /\ consumer' = [consumer EXCEPT !.at = "fanout"]
      BY <1>6 DEF ApplyEvent, ConsumerGoes
    <2>2. Step(info.checks, consumer.event, a)
      BY <1>3, <2>1 DEF Carries
    <2>3. ~ ctx
      <3>1. info'.stopped = (info.stopped \/ ctx)
        BY <1>6 DEF ApplyEvent
      <3>. QED  BY <3>1
    <2>4. info'.checks = a
      <3>1. info'.checks = CASE consumer.event = "stage_start" -> 0
                             [] consumer.event = "check_start" -> info.checks + 1
                             [] consumer.event = "check_end" /\ info.checks > 0 -> info.checks - 1
                             [] OTHER -> info.checks
        BY <1>2, <1>6, <2>3 DEF ApplyEvent
      <3>. QED  BY <1>1, <2>2, <3>1 DEF Step
    <2>5. consumer'.at # "apply"
      BY <1>1, <2>1, PlaceSet DEF Typed
    <2>. QED  BY <1>3, <2>1, <2>4, <2>5 DEF Carries
  <1>7. CASE FanOut \/ CloseSubscribers
    <2>1. consumer.at # "apply" /\ UNCHANGED <<pipe, info>>
      BY <1>7 DEF FanOut, CloseSubscribers
    <2>2. consumer'.at # "apply"
      <3>1. CASE FanOut
        BY <3>1 DEF FanOut, ConsumerGoes
      <3>2. CASE CloseSubscribers
        BY <1>1, <3>2, PlaceSet DEF CloseSubscribers, ConsumerGoes, Typed
      <3>. QED  BY <1>7, <3>1, <3>2
    <2>. QED  BY <1>3, <2>1, <2>2 DEF Carries
  <1>8. CASE Settle \/ Cancel
    <2>1. UNCHANGED <<pipe, consumer>>
      BY <1>8 DEF Settle, Cancel
    <2>2. info'.checks = info.checks
      BY <1>1, <1>8 DEF Settle, Cancel, Infos
    <2>. QED  BY <1>3, <2>1, <2>2
  <1>. QED  BY <1>5, <1>6, <1>7, <1>8 DEF ConsumerStep

\* Every step keeps Scopes.
LEMMA NextScopes == StreamInv /\ Scopes /\ [Next]_vars => Scopes'
  <1>. SUFFICES ASSUME StreamInv, Scopes, [Next]_vars
                PROVE  Scopes'
    OBVIOUS
  <1>1. ASSUME UNCHANGED <<info, consumer, pipe, pipeline, events, parser>>
        PROVE  Scopes'
    BY <1>1 DEF Scopes, Paced
  <1>2. CASE UNCHANGED vars
    BY <1>1, <1>2 DEF vars
  <1>3. ASSUME NEW c \in Clients, ClientStep(c)
        PROVE  Scopes'
    <2>1. UNCHANGED <<info, consumer, pipe, pipeline, events, parser>>
      BY <1>3 DEF ClientStep, Subscribe, Unsubscribe, Disconnect, Unregister, RelayTakes, RelaySends,
                  ClientGoes
    <2>. QED  BY <1>1, <2>1
  <1>. QED  BY <1>2, <1>3, ParserScopes, LoopScopes, PipelineScopes, ConsumerScopes
            DEF Next, ContextKills, EndOfOutput, LineTooLong, ParserStep, ReadClosed

\* Nothing is open and nothing on its way at the start.
LEMMA InitScopes == Init => Scopes
  <1>. SUFFICES ASSUME Init PROVE Paced
    BY DEF Scopes
  <1>1. parser.out = <<>> /\ parser.tools = {} /\ events.q = <<>> /\ pipe.q = <<>>
    BY NoParserType, Fresh, Shut, Buffers DEF Init
  <1>2. info.checks = 0 /\ consumer.at # "apply" /\ pipeline.at # "emit"
    BY DEF Init
  <1>3. Walks(<<>>, 0, 0) /\ Cardinality(parser.tools) = 0
    BY <1>1, WalkEmpty, FS_EmptySet
  <1>. QED  BY <1>1, <1>2, <1>3 DEF Paced, Carries

\* The events that the pipeline and the consumer hold, one by one.
LEMMA InFlightIs ==
    ASSUME StreamInv, NEW kind \in Kinds
    PROVE  InFlight(kind) = One(kind, pipeline.event)
               + (IF consumer.at = "apply" THEN One(kind, consumer.event) ELSE 0)
               + Count(kind, parser.out) + Count(kind, events.q) + Count(kind, pipe.q)
  <1>. DEFINE u == <<"relay", pipeline.event>>
              v == <<"apply", consumer.event>>
              S == {x \in {u, v} : x[2] = kind /\ (x[1] = "apply" => consumer.at = "apply")}
              P == pipeline.event = kind
              Q == consumer.event = kind /\ consumer.at = "apply"
  <1>1. u # v /\ u[1] = "relay" /\ u[2] = pipeline.event /\ v[1] = "apply" /\ v[2] = consumer.event
    OBVIOUS
  <1>. HIDE DEF u, v
  <1>2. (u \in S <=> P) /\ (v \in S <=> Q) /\ S \subseteq {u, v}
    BY <1>1
  <1>. HIDE DEF S
  <1>3. Cardinality(S) = (IF P THEN 1 ELSE 0) + (IF Q THEN 1 ELSE 0)
    <2>0. Cardinality({u}) = 1 /\ IsFiniteSet({u}) /\ Cardinality({v}) = 1
      BY FS_Singleton
    <2>1. Cardinality({u} \cup {v}) = 2
      <3>. DEFINE W == {u}
      <3>1. v \notin W /\ Cardinality(W) = 1 /\ IsFiniteSet(W)
        BY <1>1, <2>0
      <3>. HIDE DEF W
      <3>2. Cardinality(W \cup {v}) = 2
        BY <3>1, FS_AddElement
      <3>. QED  BY <3>2 DEF W
    <2>2. CASE P /\ Q
      <3>1. S = {u} \cup {v}
        BY <1>2, <2>2
      <3>. QED  BY <2>1, <2>2, <3>1
    <2>3. CASE P /\ ~ Q
      <3>1. S = {u}
        BY <1>2, <2>3
      <3>. QED  BY <2>0, <2>3, <3>1
    <2>4. CASE ~ P /\ Q
      <3>1. S = {v}
        BY <1>2, <2>4
      <3>. QED  BY <2>0, <2>4, <3>1
    <2>5. CASE ~ P /\ ~ Q
      <3>1. S = {}
        BY <1>2, <2>5
      <3>. QED  BY <2>5, <3>1, FS_EmptySet
    <2>. QED  BY <2>2, <2>3, <2>4, <2>5
  <1>4. InFlight(kind) = Cardinality(S) + Count(kind, parser.out) + Count(kind, events.q)
                            + Count(kind, pipe.q)
    BY DEF InFlight, S, u, v
  <1>. QED  BY <1>3, <1>4 DEF One

\* parseLine, finishToolChecks, updateInfo: however the events of the stages
\* lie between the parser and PipelineInfo, PendingChecks is the number of tool
\* calls that are open, less what is on its way.  Neither the reset at a stage's
\* start nor the guard that keeps the count from going below zero ever drops one.
THEOREM ScopesAlwaysBalanced == Spec => []ScopesBalanced
  <1>1. ASSUME StreamInv, Scopes
        PROVE  ScopesBalanced
    <2>. USE <1>1
    <2>1. ASSUME ~ info.stopped
          PROVE  info.checks + InFlight("check_start") = Cardinality(parser.tools) + InFlight("check_end")
      <3>1. PICK a \in Nat, b \in Nat, c \in Nat, d \in Nat :
                /\ Carries(consumer.at = "apply", consumer.event, info.checks, a)
                /\ Walks(pipe.q, a, b)
                /\ Carries(pipeline.at = "emit", pipeline.event, b, c)
                /\ Walks(events.q, c, d)
                /\ Walks(parser.out, d, Cardinality(parser.tools))
        BY <2>1 DEF Scopes, Paced
      <3>2. info.checks \in Nat /\ Cardinality(parser.tools) \in Nat
            /\ \A k \in Kinds : Count(k, pipe.q) \in Nat /\ Count(k, events.q) \in Nat
                                /\ Count(k, parser.out) \in Nat
        BY StreamFacts, CountIs
      <3>3. a + Count("check_start", pipe.q) = b + Count("check_end", pipe.q)
            /\ c + Count("check_start", events.q) = d + Count("check_end", events.q)
            /\ d + Count("check_start", parser.out) = Cardinality(parser.tools) + Count("check_end", parser.out)
        BY <3>1 DEF Walks
      <3>4. b + One("check_start", pipeline.event) = c + One("check_end", pipeline.event)
        <4>1. pipeline.at # "emit" => pipeline.event = "none"
          BY DEF StreamInv, Joined
        <4>. QED  BY <3>1, <4>1 DEF Carries, Step, One
      <3>5. info.checks + (IF consumer.at = "apply" THEN One("check_start", consumer.event) ELSE 0)
              = a + (IF consumer.at = "apply" THEN One("check_end", consumer.event) ELSE 0)
        BY <3>1, <3>2 DEF Carries, Step, One
      <3>6. "check_start" \in Kinds /\ "check_end" \in Kinds
        BY DEF Kinds
      <3>7. \A k \in Kinds : InFlight(k) = One(k, pipeline.event)
               + (IF consumer.at = "apply" THEN One(k, consumer.event) ELSE 0)
               + Count(k, parser.out) + Count(k, events.q) + Count(k, pipe.q)
        BY InFlightIs
      <3>8. \A k, x : One(k, x) \in Nat
        BY DEF One
      <3>. QED  BY <3>2, <3>3, <3>4, <3>5, <3>6, <3>7, <3>8
    <2>2. parser.at = "done" => parser.tools = {}
      BY DEF StreamInv, Joined
    <2>. QED  BY <2>1, <2>2 DEF ScopesBalanced
  <1>2. Spec => []Scopes
    BY InitScopes, NextScopes, StreamAlways, PTL DEF Spec
  <1>. QED  BY <1>1, <1>2, StreamAlways, PTL

----------------------------------------------------------------------------
(* Attempts *)

\* CauseIsFirst is not inductive by itself: an attempt that reports a cause
\* must also be known to be stopped, or Stop could give it another, and a
\* stopped attempt to have a cause, or a late event could revive it.
\* Interrupted says both, and that PipelineInfo has the fields it is updated
\* at.
Fields == {"status", "cause", "monitored", "checks", "stage", "activity"}

Interrupted ==
    /\ DOMAIN entry = Fields
    /\ entry = [f \in Fields |-> entry[f]]
    /\ context \in {"live"} \cup Causes
    /\ entry.cause # "none" <=> entry.status = "stopped"
    /\ entry.cause # "none" => entry.cause = context /\ context # "live"

\* Before the first attempt there is no cause.
LEMMA InitInterrupted == AttemptInit => Interrupted
  BY DEF AttemptInit, NewInfo, Interrupted, Fields

\* Apply keeps the cause and never stops an attempt.
LEMMA ApplyKeeps ==
    ASSUME NEW i, NEW event, DOMAIN i = Fields, i = [f \in Fields |-> i[f]]
    PROVE  LET j == Apply(i, event)
           IN  /\ DOMAIN j = Fields
               /\ j = [f \in Fields |-> j[f]]
               /\ j.cause = i.cause
               /\ j.status = "stopped" => i.status = "stopped"
  BY DEF Apply, Fields

\* updateInfo keeps a stopped attempt stopped and stops no other.
LEMMA UpdateKeeps ==
    ASSUME Interrupted, NEW event
    PROVE  LET j == UpdateInfo(event)
           IN  /\ DOMAIN j = Fields
               /\ j = [f \in Fields |-> j[f]]
               /\ j.cause # "none" <=> j.status = "stopped"
               /\ j.cause # "none" => j.cause = context /\ context # "live"
               /\ entry.status = "stopped" => j.status = "stopped"
  <1>. DEFINE heard == [entry EXCEPT !.activity = "recent"]
  <1>1. /\ DOMAIN heard = Fields
        /\ heard = [f \in Fields |-> heard[f]]
        /\ heard.cause = entry.cause
        /\ heard.status = entry.status
    BY DEF Interrupted, Fields
  <1>2. CASE context # "live"
    <2>1. UpdateInfo(event) = [[heard EXCEPT !.status = "stopped"] EXCEPT !.cause = context]
      BY <1>2 DEF UpdateInfo
    <2>. QED  BY <1>1, <1>2, <2>1 DEF Interrupted, Fields, Causes
  <1>3. CASE context = "live"
    <2>1. heard.cause = "none" /\ entry.status # "stopped"
      BY <1>1, <1>3 DEF Interrupted
    <2>. DEFINE next == Apply(heard, event)
    <2>2. UpdateInfo(event) = next
      BY <1>3, <2>1 DEF UpdateInfo
    <2>3. /\ DOMAIN next = Fields
          /\ next = [f \in Fields |-> next[f]]
          /\ next.cause = "none"
          /\ next.status # "stopped"
      <3>. HIDE DEF heard
      <3>. QED  BY <1>1, <2>1, ApplyKeeps
    <2>. HIDE DEF next, heard
    <2>. QED  BY <2>1, <2>2, <2>3
  <1>. QED  BY <1>2, <1>3

\* Every step keeps Interrupted.
LEMMA NextInterrupted == Interrupted /\ [AttemptNext]_attemptVars => Interrupted'
  <1>. SUFFICES ASSUME Interrupted, [AttemptNext]_attemptVars
                PROVE  Interrupted'
    OBVIOUS
  <1>1. CASE Start
    BY <1>1 DEF Start, NewInfo, Interrupted, Fields
  <1>2. CASE FlowStep
    BY <1>2 DEF FlowStep, FailEarly, StartBlueprint, BeginStage, EndStage,
                Complete, Finish, Fail, Interrupted
  <1>3. CASE ConsumingStep
    <2>1. CASE ApplyTaken
      <3>1. entry' = UpdateInfo(consuming.event) /\ context' = context
        BY <2>1 DEF ApplyTaken
      <3>. QED  BY <3>1, UpdateKeeps DEF Interrupted
    <2>. QED  BY <1>3, <2>1 DEF ConsumingStep, TakeEvent, Persist, CloseEvents, Interrupted
  <1>4. CASE SettleAttempt
    <2>1. CASE context # "live"
      BY <1>4, <2>1 DEF SettleAttempt, Interrupted, Fields, Causes
    <2>2. CASE context = "live"
      BY <1>4, <2>2 DEF SettleAttempt, Interrupted, Fields, IsTerminal
    <2>. QED  BY <2>1, <2>2
  <1>5. CASE Stop \/ WatchdogActs
    BY <1>5 DEF Stop, WatchdogActs, StopWith, Interrupted, Fields, Causes
  <1>6. CASE Pause
    BY <1>6 DEF Pause, IsTerminal, Interrupted, Fields
  <1>7. CASE CancelCaller
    BY <1>7 DEF CancelCaller, Interrupted, Causes
  <1>8. CASE FallSilent
    BY <1>8 DEF FallSilent, Interrupted, Fields
  <1>9. CASE WatchdogSees \/ \E type \in {"monitor", "progress", "check_start", "check_end", "error"} : Noise(type)
    BY <1>9 DEF WatchdogSees, Noise, Interrupted
  <1>10. CASE UNCHANGED attemptVars
    BY <1>10 DEF attemptVars, Interrupted
  <1>. QED  BY <1>1, <1>2, <1>3, <1>4, <1>5, <1>6, <1>7, <1>8, <1>9, <1>10
             DEF AttemptNext, Interference

\* Interrupted holds in every reachable state.
LEMMA InterruptedAlways == AttemptSpec => []Interrupted
  BY InitInterrupted, NextInterrupted, PTL DEF AttemptSpec

\* stopWithCause, updateInfo, start: of everything that can interrupt an
\* attempt, the cause it reports is the one that cancelled its context.
THEOREM FirstCauseAlways == AttemptSpec => []CauseIsFirst
  <1>1. Interrupted => CauseIsFirst
    BY DEF Interrupted, CauseIsFirst
  <1>. QED  BY <1>1, InterruptedAlways, PTL

\* No late event, no Pause and no settling revives a stopped attempt.
THEOREM InterruptionAlways == AttemptSpec => InterruptionStands
  <1>. DEFINE Stays == entry.status = "stopped" => entry'.status = "stopped" \/ flow' = "begin"
  <1>1. ASSUME Interrupted, [AttemptNext]_attemptVars
        PROVE  Stays
    <2>. SUFFICES ASSUME entry.status = "stopped"
                  PROVE  entry'.status = "stopped" \/ flow' = "begin"
      OBVIOUS
    <2>. USE <1>1
    <2>1. CASE ApplyTaken
      BY <2>1, UpdateKeeps DEF ApplyTaken
    <2>2. CASE SettleAttempt
      BY <2>2 DEF SettleAttempt, Interrupted, Fields, IsTerminal
    <2>3. CASE Stop \/ Pause \/ WatchdogActs
      BY <2>3 DEF Stop, Pause, WatchdogActs, StopWith, IsTerminal
    <2>4. CASE FallSilent
      BY <2>4 DEF FallSilent, Interrupted, Fields
    <2>5. CASE Start
      BY <2>5 DEF Start
    <2>6. CASE UNCHANGED entry
      BY <2>6
    <2>. QED
      BY <2>1, <2>2, <2>3, <2>4, <2>5, <2>6
      DEF AttemptNext, attemptVars, FlowStep, FailEarly, StartBlueprint, BeginStage, EndStage,
          Complete, Finish, Fail, ConsumingStep, TakeEvent, Persist, CloseEvents,
          Interference, CancelCaller, WatchdogSees, Noise
  <1>2. Interrupted /\ [AttemptNext]_attemptVars => [Stays]_attemptVars
    BY <1>1
  <1>3. InterruptionStands <=> [][Stays]_attemptVars
    BY DEF InterruptionStands
  <1>. QED  BY <1>2, <1>3, InterruptedAlways, PTL DEF AttemptSpec

\* remediateStall and stopWithCause: whatever the snapshot that the watchdog
\* acts on has missed, an event, a pause, a check or a new attempt, the watchdog
\* interrupts only an attempt that is stalled at that moment; and nobody else
\* cancels a context in its name.
THEOREM WatchdogAlwaysSpares == AttemptSpec => WatchdogSparesTheActive
  <1>. DEFINE Spares == context = "live" /\ context' = "watchdog_stall" => Stalled(entry)
  <1>1. ASSUME [AttemptNext]_attemptVars
        PROVE  Spares
    <2>. SUFFICES ASSUME context = "live", context' = "watchdog_stall"
                  PROVE  Stalled(entry)
      OBVIOUS
    <2>1. CASE WatchdogActs
      BY <2>1 DEF WatchdogActs
    <2>2. CASE Start
      BY <2>2 DEF Start
    <2>3. CASE Stop \/ CancelCaller
      BY <2>3 DEF Stop, StopWith, CancelCaller
    <2>4. CASE UNCHANGED context
      BY <2>4
    <2>. QED
      BY <1>1, <2>1, <2>2, <2>3, <2>4
      DEF AttemptNext, attemptVars, FlowStep, FailEarly, StartBlueprint, BeginStage, EndStage,
          Complete, Finish, Fail, ConsumingStep, TakeEvent, ApplyTaken, Persist, CloseEvents,
          SettleAttempt, Interference, Pause, FallSilent, WatchdogSees, Noise
  <1>2. [AttemptNext]_attemptVars => [Spares]_attemptVars
    BY <1>1
  <1>3. WatchdogSparesTheActive <=> [][Spares]_attemptVars
    BY DEF WatchdogSparesTheActive
  <1>. QED  BY <1>2, <1>3, PTL DEF AttemptSpec

----------------------------------------------------------------------------
(* What a settled attempt is *)

\* start and entryFinished: an attempt whose done channel is closed has a
\* terminal status, so that the run can be started again.
SettledIsTerminal == settled => entry.status = "absent" \/ IsTerminal(entry.status)

PipelineEvents ==
    [type : {"blueprint_start", "stage_end", "blueprint_complete", "pipeline_complete",
             "blueprint_failed", "monitor", "progress", "check_start", "check_end", "error"}]
    \cup [type : {"stage_start"}, stage : Stages]

\* What makes it so: the last event of a pipeline that succeeded is on its way
\* to updateInfo or has been applied, unless the attempt was interrupted; and
\* settling waits for the consumer, which waits for the pipeline.
Settling ==
    /\ channel \in Seq(PipelineEvents)
    /\ entry.status = "absent" <=> flow = "absent"
    /\ entry.status = "absent" => entry.activity = "none" /\ settled
    /\ settled => consuming.at = "closed"
    /\ consuming.at = "closed" => flow \in {"absent", "succeeded", "failed"} /\ channel = <<>>
    /\ flow = "succeeded" /\ context = "live" =>
          \/ channel # <<>> /\ channel[Len(channel)].type = "pipeline_complete"
          \/ /\ channel = <<>> /\ consuming.at = "apply"
             /\ consuming.event.type = "pipeline_complete"
          \/ channel = <<>> /\ consuming.at # "apply" /\ entry.status = "complete"
    /\ SettledIsTerminal

\* Before the first attempt.
LEMMA InitSettling == AttemptInit => Settling
  BY DEF AttemptInit, Settling, SettledIsTerminal, NewInfo, Closed

\* updateInfo: an attempt stays there, and the pipeline's last event completes
\* one that nobody interrupted.
LEMMA UpdateCompletes ==
    ASSUME Interrupted, NEW event
    PROVE  LET j == UpdateInfo(event)
           IN  /\ entry.status # "absent" => j.status # "absent"
               /\ context = "live" /\ event.type = "pipeline_complete" => j.status = "complete"
  <1>. DEFINE heard == [entry EXCEPT !.activity = "recent"]
  <1>1. /\ DOMAIN heard = Fields /\ heard.cause = entry.cause /\ heard.status = entry.status
    BY DEF Interrupted, Fields
  <1>2. CASE context # "live"
    BY <1>1, <1>2 DEF UpdateInfo, Fields
  <1>3. CASE context = "live"
    <2>1. heard.cause = "none"
      BY <1>1, <1>3 DEF Interrupted
    <2>2. UpdateInfo(event) = Apply(heard, event)
      BY <1>3, <2>1 DEF UpdateInfo
    <2>. HIDE DEF heard
    <2>3. entry.status # "absent" => Apply(heard, event).status # "absent"
      BY <1>1 DEF Apply, Fields
    <2>4. event.type = "pipeline_complete" => Apply(heard, event).status = "complete"
      BY <1>1 DEF Apply, Fields
    <2>. QED  BY <2>2, <2>3, <2>4
  <1>. QED  BY <1>2, <1>3

\* An event goes to the end of the channel.
LEMMA SendSettling ==
    ASSUME Settling, NEW event \in PipelineEvents, SendEvent(event),
           flow \notin {"absent", "succeeded", "failed"}, flow' # "absent",
           UNCHANGED <<entry, context, consuming, settled>>,
           flow' = "succeeded" => event.type = "pipeline_complete"
    PROVE  Settling'
  <1>1. /\ channel' \in Seq(PipelineEvents) /\ channel' # <<>>
        /\ channel'[Len(channel')] = event
    BY DEF SendEvent, Settling
  <1>2. consuming.at # "closed" /\ ~settled
    BY DEF Settling
  <1>. QED  BY <1>1, <1>2 DEF Settling, SettledIsTerminal

\* Every step keeps Settling.
LEMMA NextSettling == Interrupted /\ Settling /\ [AttemptNext]_attemptVars => Settling'
  <1>. SUFFICES ASSUME Interrupted, Settling, [AttemptNext]_attemptVars
                PROVE  Settling'
    OBVIOUS
  <1>1. CASE Start
    BY <1>1 DEF Start, NewInfo, Receiving, Settling, SettledIsTerminal
  <1>2. CASE FlowStep
    <2>1. CASE FailEarly
      BY <2>1 DEF FailEarly, Goto, Settling, SettledIsTerminal
    <2>2. CASE StartBlueprint
      <3>1. [type |-> "blueprint_start"] \in PipelineEvents
        BY DEF PipelineEvents
      <3>. QED  BY <2>2, <3>1, SendSettling DEF StartBlueprint, Goto
    <2>3. CASE EndStage
      <3>1. [type |-> "stage_end"] \in PipelineEvents
        BY DEF PipelineEvents
      <3>. QED  BY <2>3, <3>1, SendSettling DEF EndStage, Goto, Stages
    <2>4. CASE Complete
      <3>1. [type |-> "blueprint_complete"] \in PipelineEvents
        BY DEF PipelineEvents
      <3>. QED  BY <2>4, <3>1, SendSettling DEF Complete, Goto
    <2>5. CASE Finish
      <3>1. [type |-> "pipeline_complete"] \in PipelineEvents
        BY DEF PipelineEvents
      <3>. QED  BY <2>5, <3>1, SendSettling DEF Finish, Goto
    <2>6. CASE Fail
      <3>1. [type |-> "blueprint_failed"] \in PipelineEvents
        BY DEF PipelineEvents
      <3>. QED  BY <2>6, <3>1, SendSettling DEF Fail, Goto
    <2>7. ASSUME NEW kind \in Stages, BeginStage(kind) PROVE Settling'
      <3>1. [type |-> "stage_start", stage |-> kind] \in PipelineEvents
        BY DEF PipelineEvents
      <3>. QED  BY <2>7, <3>1, SendSettling DEF BeginStage, Goto, Stages
    <2>. QED  BY <1>2, <2>1, <2>2, <2>3, <2>4, <2>5, <2>6, <2>7 DEF FlowStep
  <1>3. CASE TakeEvent
    <2>1. /\ consuming.at = "receive" /\ channel # <<>> /\ channel' = Tail(channel)
          /\ consuming'.at = "apply" /\ consuming'.event = Head(channel)
          /\ UNCHANGED <<entry, context, flow, settled>>
      BY <1>3 DEF TakeEvent
    <2>2. /\ channel' \in Seq(PipelineEvents)
          /\ channel' # <<>> => channel'[Len(channel')] = channel[Len(channel)]
          /\ channel' = <<>> => Head(channel) = channel[Len(channel)]
      BY <2>1 DEF Settling
    <2>. QED  BY <2>1, <2>2 DEF Settling, SettledIsTerminal
  <1>4. CASE ApplyTaken
    <2>1. /\ consuming.at = "apply" /\ consuming'.at \in {"receive", "persist"}
          /\ entry' = UpdateInfo(consuming.event)
          /\ UNCHANGED <<context, flow, channel, settled>>
      BY <1>4 DEF ApplyTaken, Receiving
    <2>2. ~settled /\ entry.status # "absent"
      BY <2>1 DEF Settling
    <2>3. /\ entry'.status # "absent"
          /\ context = "live" /\ consuming.event.type = "pipeline_complete"
                => entry'.status = "complete"
      BY <2>1, <2>2, UpdateCompletes
    <2>. QED  BY <2>1, <2>2, <2>3 DEF Settling, SettledIsTerminal
  <1>5. CASE Persist \/ CloseEvents
    BY <1>5 DEF Persist, CloseEvents, Receiving, Closed, Settling, SettledIsTerminal
  <1>6. CASE SettleAttempt
    <2>1. /\ flow \in {"succeeded", "failed"} /\ consuming.at = "closed" /\ ~settled
          /\ UNCHANGED <<context, flow, channel, consuming>>
      BY <1>6 DEF SettleAttempt, Drained
    <2>2. entry'.status = IF context # "live" THEN "stopped"
                          ELSE IF flow = "failed" /\ ~ IsTerminal(entry.status) THEN "error"
                          ELSE entry.status
      BY <1>6 DEF SettleAttempt, Interrupted, Fields
    <2>3. IsTerminal(entry'.status) /\ entry'.status # "absent"
      BY <2>1, <2>2 DEF Settling, IsTerminal
    <2>4. context = "live" /\ flow = "succeeded" => entry'.status = "complete"
      BY <2>1, <2>2 DEF Settling
    <2>. QED  BY <2>1, <2>3, <2>4 DEF Settling, SettledIsTerminal
  <1>7. ASSUME UNCHANGED <<flow, channel, consuming, settled>>, entry.status # "absent",
               ~ IsTerminal(entry.status), entry'.status # "absent",
               context' = "live" => context = "live"
        PROVE  Settling'
    <2>1. ~settled /\ entry.status # "complete"
      BY <1>7 DEF Settling, SettledIsTerminal, IsTerminal
    <2>. QED  BY <1>7, <2>1 DEF Settling, SettledIsTerminal
  <1>8. CASE Stop \/ Pause
    <2>1. entry'.status \in {"stopped", "paused"}
      BY <1>8 DEF Stop, Pause, StopWith, Interrupted, Fields
    <2>. QED  BY <1>7, <1>8, <2>1 DEF Stop, Pause, StopWith, IsTerminal
  <1>9. CASE WatchdogActs
    <2>1. CASE UNCHANGED <<entry, context>>
      BY <1>9, <2>1 DEF WatchdogActs, Settling, SettledIsTerminal
    <2>2. CASE Stalled(entry) /\ StopWith("watchdog_stall")
      <3>1. entry.status # "absent" /\ ~IsTerminal(entry.status)
        BY <2>2 DEF Stalled, StopWith, Settling
      <3>2. entry'.status = "stopped" /\ context' = "watchdog_stall"
        BY <2>2 DEF StopWith, Interrupted, Fields
      <3>. QED  BY <1>7, <1>9, <3>1, <3>2 DEF WatchdogActs
    <2>. QED  BY <1>9, <2>1, <2>2 DEF WatchdogActs
  <1>10. CASE CancelCaller
    BY <1>10 DEF CancelCaller, Settling, SettledIsTerminal
  <1>11. CASE FallSilent
    <2>1. entry'.status = entry.status /\ entry.activity = "recent"
      BY <1>11 DEF FallSilent, Interrupted, Fields
    <2>. QED  BY <1>11, <2>1 DEF FallSilent, Settling, SettledIsTerminal
  <1>12. CASE WatchdogSees \/ UNCHANGED attemptVars
    BY <1>12 DEF WatchdogSees, attemptVars, Settling, SettledIsTerminal
  <1>13. ASSUME NEW type \in {"monitor", "progress", "check_start", "check_end", "error"},
                Noise(type)
         PROVE  Settling'
    <2>1. [type |-> type] \in PipelineEvents
      BY DEF PipelineEvents
    <2>. QED  BY <1>13, <2>1, SendSettling DEF Noise, Stages
  <1>. QED  BY <1>1, <1>2, <1>3, <1>4, <1>5, <1>6, <1>8, <1>9, <1>10, <1>11, <1>12, <1>13
             DEF AttemptNext, ConsumingStep, Interference

\* SettledIsTerminal, for every buffer and any interference: the goroutine of
\* start closes done only over a terminal status, because the pipeline's last
\* event reached updateInfo before the consumer ended, or the pipeline failed, or
\* the context has a cause; a Pause that comes late changes none of that.
THEOREM SettledAlwaysTerminal == AttemptSpec => []SettledIsTerminal
  <1>1. Settling => SettledIsTerminal
    BY DEF Settling
  <1>. QED  BY <1>1, InitSettling, NextSettling, InterruptedAlways, PTL DEF AttemptSpec

----------------------------------------------------------------------------
(* The batch scheduler *)

\* What a task is before anybody runs it, and that nobody runs it twice.
Sent ==
    /\ status \in [Tasks -> Ledgers \cup {"done", "error"}]
    /\ nodes \subseteq Tasks /\ dispatched \subseteq nodes /\ ready \subseteq dispatched
    /\ worker \in [Workers -> [at : Places, task : Tasks]]
    /\ \A n \in nodes \ (dispatched \cup finished) : status[n] = "pending"
    /\ \A n \in ready : status[n] = "pending"
    /\ \A w \in Workers : worker[w].at = "run" =>
          /\ worker[w].task \in dispatched \ ready
          /\ status[worker[w].task] = "pending"
          /\ \A v \in Workers \ {w} : worker[v].at = "run" => worker[v].task # worker[w].task

\* What is known of the batch when it starts.
LEMMA InitSent == BatchInit => Sent /\ DependenciesFirst
  <1>. SUFFICES ASSUME BatchInit PROVE Sent /\ DependenciesFirst
    OBVIOUS
  <1>1. nodes \subseteq Pending(status) /\ nodes # {}
    BY DEF BatchInit, Batches, Accepted
  <1>2. \A n \in nodes : n \in Tasks /\ status[n] = "pending"
    BY <1>1 DEF Pending
  <1>3. Idle \in [at : Places, task : Tasks] /\ Idle.at = "recv"
    <2>1. (CHOOSE t \in Tasks : TRUE) \in Tasks
      BY <1>1, <1>2
    <2>. QED  BY <2>1 DEF Idle, Places
  <1>4. worker \in [Workers -> [at : Places, task : Tasks]]
        /\ \A w \in Workers : worker[w].at = "recv"
    BY <1>3 DEF BatchInit
  <1>5. status \in [Tasks -> Ledgers \cup {"done", "error"}]
    BY DEF BatchInit
  <1>6. dispatched = {} /\ ready = {} /\ finished = {}
    BY DEF BatchInit
  <1>7. Sent
    BY <1>2, <1>4, <1>5, <1>6 DEF Sent
  <1>. QED  BY <1>6, <1>7 DEF DependenciesFirst

\* What is done stays done, and what is finished stays finished.
Kept ==
    /\ nodes' = nodes /\ finished \subseteq finished'
    /\ \A u \in Tasks : status[u] = "done" => status'[u] = "done"

\* What was dispatched rightly stays so.
LEMMA KeptFirst ==
    ASSUME Sent, DependenciesFirst, Kept,
           NEW t \in dispatched
    PROVE  /\ \A d \in Deps[t] : IF d \in nodes' THEN d \in finished' ELSE status'[d] = "done"
           /\ \A u \in Tasks : StoryWaits(t, u) => status'[u] = "done"
  <1>1. t \in Tasks
    BY DEF Sent
  <1>. QED  BY <1>1, BatchAssumption DEF Kept, DependenciesFirst

\* checkReady: the cascade fails only tasks that nobody ran, and what it
\* dispatches is ready.
LEMMA CheckReadySent ==
    ASSUME Sent, DependenciesFirst, CheckReady, nodes' = nodes,
           worker' \in [Workers -> [at : Places, task : Tasks]],
           \A w \in Workers : worker'[w].at = "run" => worker'[w] = worker[w]
    PROVE  Sent' /\ DependenciesFirst'
  <1>. DEFINE stOf(c) == [t \in Tasks |-> IF t \in c THEN "error" ELSE status[t]]
  <1>1. PICK c \in Cascades :
           /\ finished' = finished \cup c /\ status' = stOf(c)
           /\ \E new \in {{}, Ready(finished \cup c, stOf(c))} :
                 dispatched' = dispatched \cup new /\ ready' = ready \cup new
    BY DEF CheckReady
  <1>2. c \subseteq nodes \ (dispatched \cup finished)
    BY DEF Cascades, Waiting
  <1>. DEFINE st == stOf(c)
  <1>3. PICK new \in {{}, Ready(finished \cup c, st)} :
           /\ finished' = finished \cup c /\ status' = st
           /\ dispatched' = dispatched \cup new /\ ready' = ready \cup new
    BY <1>1
  <1>4. ASSUME NEW n \in new
        PROVE  /\ n \in nodes \ (dispatched \cup finished \cup c)
               /\ \A d \in Deps[n] : IF d \in nodes THEN d \in finished \cup c ELSE st[d] = "done"
               /\ \A u \in Tasks : StoryWaits(n, u) => st[u] = "done"
    BY <1>4 DEF Ready
  <1>5. /\ st \in [Tasks -> Ledgers \cup {"done", "error"}]
        /\ \A u \in Tasks \ c : st[u] = status[u]
    BY DEF Sent
  <1>. HIDE DEF st
  <1>6. Kept
    <2>1. \A u \in Tasks : status[u] = "done" => u \notin c
      BY <1>2 DEF Sent
    <2>. QED  BY <1>3, <1>5, <2>1 DEF Kept
  <1>7. Sent'
    <2>1. \A n \in nodes' \ (dispatched' \cup finished') : status'[n] = "pending"
      BY <1>3, <1>5 DEF Sent
    <2>2. \A n \in ready' : status'[n] = "pending"
      <3>1. ASSUME NEW n \in ready PROVE status'[n] = "pending"
        BY <1>2, <1>3, <1>5 DEF Sent
      <3>2. ASSUME NEW n \in new PROVE status'[n] = "pending"
        BY <1>3, <1>4, <1>5 DEF Sent
      <3>. QED  BY <1>3, <3>1, <3>2
    <2>3. ASSUME NEW w \in Workers, worker'[w].at = "run"
          PROVE  /\ worker'[w].task \in dispatched' \ ready'
                 /\ status'[worker'[w].task] = "pending"
                 /\ \A v \in Workers \ {w} : worker'[v].at = "run" => worker'[v].task # worker'[w].task
      <3>1. worker'[w] = worker[w] /\ worker[w].at = "run"
        BY <2>3
      <3>2. worker[w].task \in dispatched \ ready /\ status[worker[w].task] = "pending"
            /\ \A v \in Workers \ {w} : worker[v].at = "run" => worker[v].task # worker[w].task
        BY <3>1 DEF Sent
      <3>3. worker[w].task \notin new /\ worker[w].task \notin c /\ worker[w].task \in Tasks
        BY <1>2, <1>4, <3>2 DEF Sent
      <3>. QED  BY <1>3, <1>5, <3>1, <3>2, <3>3
    <2>4. status' \in [Tasks -> Ledgers \cup {"done", "error"}] /\ nodes' \subseteq Tasks
          /\ dispatched' \subseteq nodes' /\ ready' \subseteq dispatched'
      BY <1>3, <1>4, <1>5 DEF Sent
    <2>. QED  BY <2>1, <2>2, <2>3, <2>4 DEF Sent
  <1>8. DependenciesFirst'
    <2>1. ASSUME NEW t \in new
          PROVE  /\ \A d \in Deps[t] : IF d \in nodes' THEN d \in finished' ELSE status'[d] = "done"
                 /\ \A u \in Tasks : StoryWaits(t, u) => status'[u] = "done"
      BY <1>3, <1>4
    <2>. QED  BY <1>3, <1>6, <2>1, KeptFirst DEF DependenciesFirst, StoryWaits
  <1>. QED  BY <1>7, <1>8

\* A worker's own steps.
LEMMA WorkerSent ==
    ASSUME Sent, DependenciesFirst, NEW w \in Workers,
           WorkerStep(w)
    PROVE  Sent' /\ DependenciesFirst'
  <1>. DEFINE W == [at : Places, task : Tasks]
  <1>0. worker[w] \in W
    BY DEF Sent
  <1>1. \A p \in Places, q \in W : [q EXCEPT !.at = p] \in W /\ [q EXCEPT !.at = p].at = p
                                   /\ [q EXCEPT !.at = p].task = q.task
    BY DEF Places
  <1>2. \A p \in Places : MoveTo(w, p) =>
           /\ worker' \in [Workers -> W] /\ worker'[w].at = p /\ worker'[w].task = worker[w].task
           /\ \A v \in Workers \ {w} : worker'[v] = worker[v]
    <2>. TAKE p \in Places
    <2>. HAVE MoveTo(w, p)
    <2>1. worker' = [worker EXCEPT ![w] = [worker[w] EXCEPT !.at = p]]
      BY DEF MoveTo, Sent
    <2>. HIDE DEF W
    <2>2. worker \in [Workers -> W]
      BY DEF Sent, W
    <2>. QED  BY <1>0, <1>1, <2>1, <2>2
  <1>3. ASSUME Kept, dispatched' = dispatched
        PROVE  DependenciesFirst'
    BY <1>3, KeptFirst DEF DependenciesFirst, StoryWaits
  <1>4. ASSUME NEW t \in Tasks, TakeTask(w, t)
        PROVE  Sent' /\ DependenciesFirst'
    <2>1. /\ t \in ready /\ ready' = ready \ {t}
          /\ worker' = [worker EXCEPT ![w] = [at |-> "run", task |-> t]]
          /\ UNCHANGED <<status, nodes, dispatched, finished>>
      BY <1>4 DEF TakeTask
    <2>2. Kept
      BY <2>1 DEF Kept
    <2>3. worker' \in [Workers -> W] /\ worker'[w].at = "run" /\ worker'[w].task = t
          /\ \A v \in Workers \ {w} : worker'[v] = worker[v]
      BY <2>1 DEF Sent, Places
    <2>4. \A v \in Workers \ {w} : worker[v].at = "run" => worker[v].task # t
      BY <2>1 DEF Sent
    <2>5. ASSUME NEW v \in Workers, worker'[v].at = "run"
          PROVE  /\ worker'[v].task \in dispatched' \ ready'
                 /\ status'[worker'[v].task] = "pending"
                 /\ \A x \in Workers \ {v} : worker'[x].at = "run" => worker'[x].task # worker'[v].task
      <3>1. CASE v = w
        BY <2>1, <2>3, <2>4, <3>1 DEF Sent
      <3>2. CASE v # w
        BY <2>1, <2>3, <2>4, <2>5, <3>2 DEF Sent
      <3>. QED  BY <3>1, <3>2
    <2>. QED  BY <1>3, <2>1, <2>2, <2>3, <2>5 DEF Sent
  <1>5. ASSUME UNCHANGED <<status, nodes, dispatched, ready>>, finished \subseteq finished',
               NEW p \in Places \ {"run"}, MoveTo(w, p)
        PROVE  Sent' /\ DependenciesFirst'
    <2>1. Kept
      BY <1>5 DEF Kept
    <2>2. worker' \in [Workers -> W] /\ worker'[w].at # "run"
          /\ \A v \in Workers \ {w} : worker'[v] = worker[v]
      BY <1>2, <1>5
    <2>3. ASSUME NEW v \in Workers, worker'[v].at = "run"
          PROVE  /\ worker'[v].task \in dispatched' \ ready'
                 /\ status'[worker'[v].task] = "pending"
                 /\ \A x \in Workers \ {v} : worker'[x].at = "run" => worker'[x].task # worker'[v].task
      BY <1>5, <2>2, <2>3 DEF Sent
    <2>. QED  BY <1>3, <1>5, <2>1, <2>2, <2>3 DEF Sent
  <1>6. CASE Leave(w) \/ CloseLast(w)
    BY <1>5, <1>6 DEF Leave, CloseLast, Places
  <1>7. CASE CountFinished(w)
    <2>1. PICK p \in {"close", "check"} : MoveTo(w, p)
      BY <1>7 DEF CountFinished
    <2>. QED  BY <1>5, <1>7, <2>1 DEF CountFinished, Places
  <1>8. ASSUME At(w, "run"), NEW s \in {"done", "error"},
               status' = status \/ status' = [status EXCEPT ![worker[w].task] = s],
               UNCHANGED <<nodes, dispatched, finished, ready>>, MoveTo(w, "count")
        PROVE  Sent' /\ DependenciesFirst'
    <2>. DEFINE t == worker[w].task
    <2>1. /\ t \in dispatched \ ready /\ status[t] = "pending" /\ t \in Tasks
          /\ \A v \in Workers \ {w} : worker[v].at = "run" => worker[v].task # t
      BY <1>8 DEF At, Sent
    <2>. HIDE DEF t
    <2>2. /\ status' \in [Tasks -> Ledgers \cup {"done", "error"}]
          /\ \A u \in Tasks \ {t} : status'[u] = status[u]
      BY <1>8, <2>1 DEF Sent, t
    <2>3. Kept
      BY <1>8, <2>1, <2>2 DEF Kept
    <2>4. worker' \in [Workers -> W] /\ worker'[w].at = "count"
          /\ \A v \in Workers \ {w} : worker'[v] = worker[v]
      BY <1>2, <1>8 DEF Places
    <2>5. ASSUME NEW v \in Workers, worker'[v].at = "run"
          PROVE  /\ worker'[v].task \in dispatched' \ ready'
                 /\ status'[worker'[v].task] = "pending"
                 /\ \A x \in Workers \ {v} : worker'[x].at = "run" => worker'[x].task # worker'[v].task
      <3>1. v # w /\ worker'[v] = worker[v]
        BY <2>4, <2>5
      <3>2. worker[v].task \in Tasks \ {t}
        BY <2>1, <2>5, <3>1 DEF Sent
      <3>. QED  BY <1>8, <2>2, <2>4, <2>5, <3>1, <3>2 DEF Sent
    <2>6. \A n \in (nodes \ (dispatched \cup finished)) \cup ready : status'[n] = "pending"
      BY <2>1, <2>2 DEF Sent
    <2>. QED  BY <1>3, <1>8, <2>2, <2>3, <2>4, <2>5, <2>6 DEF Sent
  <1>9. CASE TaskFails(w) \/ \E refused \in BOOLEAN : Succeed(w, refused)
    BY <1>8, <1>9 DEF TaskFails, Succeed
  <1>10. CASE Recheck(w)
    <2>1. CheckReady /\ MoveTo(w, "recv") /\ nodes' = nodes
      BY <1>10 DEF Recheck
    <2>2. worker' \in [Workers -> W] /\ worker'[w].at = "recv"
          /\ \A v \in Workers \ {w} : worker'[v] = worker[v]
      BY <1>2, <2>1 DEF Places
    <2>. QED  BY <2>1, <2>2, CheckReadySent
  <1>. QED  BY <1>4, <1>6, <1>7, <1>9, <1>10 DEF WorkerStep

\* Every step of the pool.
LEMMA NextSent ==
    Sent /\ DependenciesFirst /\ [BatchNext]_batchVars => Sent' /\ DependenciesFirst'
  <1>. SUFFICES ASSUME Sent, DependenciesFirst, [BatchNext]_batchVars
                PROVE  Sent' /\ DependenciesFirst'
    OBVIOUS
  <1>1. CASE FirstCheck
    <2>1. CheckReady /\ nodes' = nodes /\ worker' = worker
      BY <1>1 DEF FirstCheck
    <2>2. worker \in [Workers -> [at : Places, task : Tasks]]
      BY DEF Sent
    <2>. QED  BY <2>1, <2>2, CheckReadySent
  <1>2. CASE UNCHANGED batchVars
    BY <1>2 DEF batchVars, Sent, DependenciesFirst, StoryWaits
  <1>. QED  BY <1>1, <1>2, WorkerSent DEF BatchNext

\* checkReady and the workers: in whatever order tasks end, are counted and
\* fail others, no worker gets a task before its dependencies of the batch are
\* finished and those outside it, and of the stories before it, are done.
THEOREM DispatchedInOrder == BatchSpec => []DependenciesFirst
  BY InitSent, NextSent, PTL DEF BatchSpec

----------------------------------------------------------------------------
(* What needs a human is held back *)

\* A set of numbers with 0 and with the successors of its members has them all:
\* there is no least number outside it.
LEMMA EveryNumber ==
    ASSUME NEW T, 0 \in T, \A n \in Nat : n \in T => n + 1 \in T
    PROVE  Nat \subseteq T
  <1>. DEFINE R == OpToRel(<, Nat)
  <1>. SUFFICES ASSUME Nat \ T # {} PROVE FALSE
    OBVIOUS
  <1>1. IsWellFoundedOn(R, Nat)
    BY NatLessThanWellFounded
  <1>2. \A i, j \in Nat : <<i, j>> \in R <=> i < j
    BY DEF OpToRel
  <1>. HIDE DEF R
  <1>3. PICK n \in Nat \ T : \A m \in Nat \ T : ~ (<<m, n>> \in R)
    BY <1>1, WFMin
  <1>4. n # 0
    OBVIOUS
  <1>5. n - 1 \in Nat /\ n - 1 < n /\ (n - 1) + 1 = n
    BY <1>4
  <1>6. n - 1 \in T
    BY <1>2, <1>3, <1>5
  <1>. QED  BY <1>5, <1>6

\* S and the pending tasks that wait for one of its members.
Wider(pending, S) ==
    S \cup {t \in pending : \E u \in S : u \in Deps[t] \/ StoryWaits(t, u)}

\* The sets filterAutoDispatchable goes through, up to the m-th.
IsHolding(F, m, pending) ==
    F = [n \in 0..m |-> IF n = 0 THEN pending \cap Hitl ELSE Wider(pending, F[n - 1])]

\* There are such sets.
LEMMA HoldingExists ==
    ASSUME NEW N \in Nat, NEW pending
    PROVE  \E F : IsHolding(F, N, pending)
  <1>. DEFINE T == {m \in Nat : \E F : IsHolding(F, m, pending)}
  <1>1. 0 \in T
    <2>. DEFINE F == [n \in 0..0 |-> pending \cap Hitl]
    <2>1. IsHolding(F, 0, pending)
      BY DEF IsHolding
    <2>. QED  BY <2>1
  <1>2. ASSUME NEW m \in Nat, m \in T PROVE m + 1 \in T
    <2>1. PICK F : IsHolding(F, m, pending)
      BY <1>2
    <2>. DEFINE E == [n \in 0..(m + 1) |-> IF n = m + 1 THEN Wider(pending, F[m]) ELSE F[n]]
    <2>2. \A n \in 0..(m + 1) :
             E[n] = IF n = 0 THEN pending \cap Hitl ELSE Wider(pending, E[n - 1])
      <3>. TAKE n \in 0..(m + 1)
      <3>1. CASE n = 0
        <4>1. F[0] = pending \cap Hitl
          BY <2>1 DEF IsHolding
        <4>. QED  BY <3>1, <4>1
      <3>2. CASE n = m + 1
        <4>1. E[n] = Wider(pending, F[m])
          BY <3>2
        <4>2. E[n - 1] = F[m] /\ n # 0
          BY <3>2
        <4>. QED  BY <4>1, <4>2
      <3>3. CASE n \in 1..m
        <4>1. F[n] = Wider(pending, F[n - 1])
          <5>1. n \in 0..m /\ n # 0
            BY <3>3
          <5>. QED  BY <2>1, <5>1, Zenon DEF IsHolding
        <4>2. E[n] = F[n] /\ E[n - 1] = F[n - 1] /\ n # 0
          BY <3>3
        <4>. QED  BY <4>1, <4>2
      <3>. QED  BY <3>1, <3>2, <3>3
    <2>3. IsHolding(E, m + 1, pending)
      <3>1. E = [n \in 0..(m + 1) |-> E[n]]
        OBVIOUS
      <3>. HIDE DEF E
      <3>. QED  BY <2>2, <3>1, Zenon DEF IsHolding
    <2>. HIDE DEF E
    <2>. QED  BY <2>3
  <1>. HIDE DEF T
  <1>3. N \in T
    BY <1>1, <1>2, EveryNumber
  <1>. QED  BY <1>3 DEF T

\* Held is the last of them.
LEMMA HeldIs ==
    ASSUME NEW pending, IsFiniteSet(pending)
    PROVE  \E F : /\ IsHolding(F, Cardinality(pending), pending)
                  /\ Held(pending) = F[Cardinality(pending)]
  <1>. DEFINE N == Cardinality(pending)
              F == CHOOSE F : IsHolding(F, N, pending)
  <1>1. N \in Nat
    BY FS_CardinalityType
  <1>2. IsHolding(F, N, pending)
    <2>. HIDE DEF N
    <2>. QED  BY <1>1, HoldingExists
  <1>3. Held(pending) = F[N]
    BY DEF Held, IsHolding, Wider
  <1>. HIDE DEF F
  <1>. QED  BY <1>2, <1>3

\* There is nothing left to add to it: a set that is not complete after n rounds
\* has n members at least, and after as many rounds as there are tasks, all.
LEMMA HeldClosed ==
    ASSUME NEW pending, IsFiniteSet(pending)
    PROVE  Held(pending) \subseteq pending /\ HumanClosed(Held(pending), pending)
  <1>. DEFINE N == Cardinality(pending)
  <1>1. PICK F : IsHolding(F, N, pending) /\ Held(pending) = F[N]
    BY HeldIs
  <1>2. N \in Nat
    BY FS_CardinalityType
  <1>. DEFINE Good(n) == /\ pending \cap Hitl \subseteq F[n] /\ F[n] \subseteq pending
                         /\ Wider(pending, F[n]) = F[n] \/ Cardinality(F[n]) >= n
              T == {n \in Nat : n <= N => Good(n)}
  <1>3. Good(0)
    <2>1. F[0] = pending \cap Hitl
      BY <1>1, <1>2 DEF IsHolding
    <2>2. F[0] \subseteq pending
      BY <2>1
    <2>3. IsFiniteSet(F[0]) /\ Cardinality(F[0]) \in Nat
      BY <2>2, FS_Subset, FS_CardinalityType
    <2>. QED  BY <2>1, <2>2, <2>3
  <1>4. ASSUME NEW n \in Nat, n + 1 <= N, Good(n) PROVE Good(n + 1)
    <2>1. F[n + 1] = Wider(pending, F[n])
      <3>1. n + 1 \in 0..N /\ n + 1 # 0 /\ (n + 1) - 1 = n
        BY <1>2, <1>4
      <3>. QED  BY <1>1, <3>1 DEF IsHolding
    <2>2. F[n] \subseteq F[n + 1] /\ F[n + 1] \subseteq pending /\ F[n] \subseteq pending
      BY <1>4, <2>1 DEF Wider
    <2>3. CASE F[n + 1] = F[n]
      <3>1. Wider(pending, F[n + 1]) = F[n + 1]
        BY <2>1, <2>3
      <3>. QED  BY <1>4, <2>2, <3>1
    <2>4. CASE F[n + 1] # F[n]
      <3>1. Cardinality(F[n]) >= n
        BY <1>4, <2>1, <2>4
      <3>2. IsFiniteSet(F[n + 1]) /\ Cardinality(F[n + 1]) \in Nat
        BY <2>2, FS_Subset, FS_CardinalityType
      <3>3. /\ Cardinality(F[n]) \in Nat
            /\ Cardinality(F[n]) < Cardinality(F[n + 1])
        BY <2>2, <2>4, <3>2, FS_Subset, FS_CardinalityType
      <3>4. Cardinality(F[n + 1]) >= n + 1
        BY <3>1, <3>2, <3>3
      <3>. QED  BY <1>4, <2>2, <3>4
    <2>. QED  BY <2>3, <2>4
  <1>. HIDE DEF Good
  <1>5. 0 \in T
    BY <1>3
  <1>6. ASSUME NEW n \in Nat, n \in T PROVE n + 1 \in T
    BY <1>2, <1>4, <1>6
  <1>. HIDE DEF T
  <1>7. N \in T
    BY <1>2, <1>5, <1>6, EveryNumber
  <1>8. Good(N)
    BY <1>2, <1>7 DEF T
  <1>9. Wider(pending, F[N]) = F[N]
    <2>1. CASE Cardinality(F[N]) >= N
      <3>1. F[N] = pending
        BY <1>2, <1>8, <2>1, FS_Subset, FS_CardinalityType DEF Good
      <3>. QED  BY <3>1 DEF Wider
    <2>. QED  BY <1>8, <2>1 DEF Good
  <1>. QED  BY <1>1, <1>8, <1>9 DEF Good, Wider, HumanClosed

\* So whatever needs a human is held back ...
LEMMA HeldNeedsHuman ==
    ASSUME NEW pending, IsFiniteSet(pending)
    PROVE  NeedsHuman(pending) \subseteq Held(pending)
  BY HeldClosed DEF NeedsHuman

\* ... and fewer pending tasks need none more.
LEMMA FewerNeedHuman ==
    ASSUME NEW p, NEW q, p \subseteq q
    PROVE  NeedsHuman(p) \subseteq NeedsHuman(q)
  <1>. SUFFICES ASSUME NEW t \in NeedsHuman(p), NEW S \in SUBSET q, HumanClosed(S, q)
                PROVE  t \in S
    BY DEF NeedsHuman
  <1>1. S \cap p \in SUBSET p /\ HumanClosed(S \cap p, p)
    BY DEF HumanClosed
  <1>. QED  BY <1>1 DEF NeedsHuman

\* No step makes a task pending or a node.
LEMMA PendingShrinks ==
    ASSUME [BatchNext]_batchVars
    PROVE  Pending(status') \subseteq Pending(status) /\ nodes' = nodes
  <1>1. CASE UNCHANGED batchVars
    BY <1>1 DEF batchVars
  <1>2. CheckReady => Pending(status') \subseteq Pending(status)
    BY DEF CheckReady, Pending
  <1>3. ASSUME NEW w, Recheck(w)
        PROVE  Pending(status') \subseteq Pending(status) /\ nodes' = nodes
    BY <1>2, <1>3 DEF Recheck
  <1>4. CASE FirstCheck
    BY <1>2, <1>4 DEF FirstCheck
  <1>5. ASSUME NEW w, NEW refused, Succeed(w, refused)
        PROVE  Pending(status') \subseteq Pending(status) /\ nodes' = nodes
    BY <1>5 DEF Succeed, Pending
  <1>6. ASSUME NEW w, TaskFails(w)
        PROVE  Pending(status') \subseteq Pending(status) /\ nodes' = nodes
    BY <1>6 DEF TaskFails, Pending
  <1>7. ASSUME NEW w, \/ \E t \in Tasks : TakeTask(w, t)
                      \/ Leave(w) \/ CountFinished(w) \/ CloseLast(w)
        PROVE  Pending(status') \subseteq Pending(status) /\ nodes' = nodes
    BY <1>7 DEF TakeTask, Leave, CountFinished, CloseLast, Pending
  <1>. QED  BY <1>1, <1>3, <1>4, <1>5, <1>6, <1>7 DEF BatchNext, WorkerStep

\* HumansFirst, for every ledger, every graph of task and story dependencies,
\* cycles included, and any pool: filterAutoDispatchable, whose rounds end after
\* as many as there are pending tasks, leaves no node that waits for a human, and
\* none comes to wait for one while the batch runs.
THEOREM HumansHeldBack == BatchSpec => []HumansFirst
  <1>1. BatchInit => HumansFirst
    <2>. SUFFICES ASSUME BatchInit PROVE HumansFirst
      OBVIOUS
    <2>1. IsFiniteSet(Pending(status))
      BY BatchAssumption, FS_Subset DEF Pending
    <2>2. nodes \cap Held(Pending(status)) = {}
      BY DEF BatchInit, Batches, Accepted
    <2>. QED  BY <2>1, <2>2, HeldNeedsHuman DEF HumansFirst
  <1>2. HumansFirst /\ [BatchNext]_batchVars => HumansFirst'
    <2>. SUFFICES ASSUME HumansFirst, [BatchNext]_batchVars PROVE HumansFirst'
      OBVIOUS
    <2>1. NeedsHuman(Pending(status')) \subseteq NeedsHuman(Pending(status))
      BY PendingShrinks, FewerNeedHuman
    <2>2. HumansFirst' <=> nodes' \cap NeedsHuman(Pending(status')) = {}
      BY DEF HumansFirst
    <2>. QED  BY <2>1, <2>2, PendingShrinks DEF HumansFirst
  <1>. QED  BY <1>1, <1>2, PTL DEF BatchSpec

----------------------------------------------------------------------------
(* The pool's channels and counters *)

\* The tasks that were run: taken out of the channel, and not running now.
Ran == dispatched \ (ready \cup {worker[w].task : w \in {v \in Workers : worker[v].at = "run"}})

\* Every finished node is counted once, no two workers have the same task before
\* it is counted, and the last count is the sign to close the channel.
Counted ==
    /\ finished \subseteq nodes /\ count = Cardinality(finished)
    /\ ready \cap finished = {}
    /\ \A w \in Workers : worker[w].at \in {"run", "count"} =>
          /\ worker[w].task \in dispatched \ (ready \cup finished)
          /\ \A v \in Workers \ {w} : worker[v].at \in {"run", "count"} =>
                worker[v].task # worker[w].task
    /\ \A w \in Workers : worker[w].at = "close" => finished = nodes
    /\ closed => finished = nodes
    /\ errors \in Nat /\ errors <= Cardinality(Ran)

Flags == closed \in BOOLEAN /\ panicked \in BOOLEAN /\ first \in BOOLEAN

\* Nodes, and their subsets, can be counted.
LEMMA NodesFinite ==
    ASSUME nodes \subseteq Tasks
    PROVE  /\ IsFiniteSet(nodes) /\ Cardinality(nodes) \in Nat
           /\ \A s \in SUBSET nodes : /\ IsFiniteSet(s) /\ Cardinality(s) \in Nat
                                      /\ Cardinality(s) <= Cardinality(nodes)
                                      /\ Cardinality(s) = Cardinality(nodes) => s = nodes
  <1>1. IsFiniteSet(nodes)
    BY BatchAssumption, FS_Subset
  <1>. QED  BY <1>1, FS_Subset, FS_CardinalityType

\* Before the pool starts.
LEMMA InitCounted == BatchInit => Counted /\ Flags
  <1>. SUFFICES ASSUME BatchInit PROVE Counted /\ Flags
    OBVIOUS
  <1>1. /\ dispatched = {} /\ finished = {} /\ count = 0 /\ ready = {} /\ errors = 0
    BY DEF BatchInit
  <1>2. \A w \in Workers : worker[w].at = "recv"
    BY DEF BatchInit, Idle
  <1>3. Ran = {}
    BY <1>1 DEF Ran
  <1>4. closed = FALSE /\ panicked = FALSE /\ first = TRUE
    BY DEF BatchInit
  <1>5. errors \in Nat /\ errors <= Cardinality(Ran) /\ count = Cardinality(finished)
    BY <1>1, <1>3, FS_EmptySet
  <1>6. Counted
    BY <1>1, <1>2, <1>4, <1>5 DEF Counted
  <1>7. Flags
    BY <1>4, Zenon DEF Flags
  <1>. QED  BY <1>6, <1>7

\* checkReady counts the nodes it fails, and dispatches others.
LEMMA CheckReadyCounted ==
    ASSUME Sent, Counted, CheckReady, nodes' = nodes, errors' = errors,
           \A w \in Workers :
              \/ worker'[w] = worker[w]
              \/ worker[w].at = "check" /\ worker'[w].at = "recv"
    PROVE  Counted'
  <1>. DEFINE stOf(c) == [t \in Tasks |-> IF t \in c THEN "error" ELSE status[t]]
  <1>1. PICK c \in Cascades :
           /\ finished' = finished \cup c /\ count' = count + Cardinality(c)
           /\ IF count' = Cardinality(nodes) THEN Close ELSE UNCHANGED <<closed, panicked>>
           /\ \E new \in {{}, Ready(finished \cup c, stOf(c))} :
                 dispatched' = dispatched \cup new /\ ready' = ready \cup new
    BY DEF CheckReady
  <1>c. closed' => closed \/ count' = Cardinality(nodes)
    BY <1>1, Zenon
  <1>2. c \subseteq nodes \ (dispatched \cup finished)
    BY DEF Cascades, Waiting
  <1>3. PICK new \in {{}, Ready(finished \cup c, stOf(c))} :
                 dispatched' = dispatched \cup new /\ ready' = ready \cup new
    BY <1>1
  <1>4. new \subseteq nodes \ (dispatched \cup finished \cup c)
    BY DEF Ready
  <1>5. /\ nodes \subseteq Tasks /\ dispatched \subseteq nodes /\ ready \subseteq dispatched
        /\ finished \subseteq nodes
    BY DEF Sent, Counted
  <1>6. finished' \subseteq nodes /\ count' = Cardinality(finished')
    <2>1. IsFiniteSet(finished) /\ IsFiniteSet(c) /\ finished \cap c = {}
      BY <1>2, <1>5, NodesFinite
    <2>2. Cardinality(finished \cup c) = Cardinality(finished) + Cardinality(c)
      <3>1. Cardinality(finished) \in Nat /\ Cardinality(c) \in Nat /\ Cardinality({}) = 0
        BY <2>1, FS_CardinalityType, FS_EmptySet
      <3>2. Cardinality(finished \cup c)
              = Cardinality(finished) + Cardinality(c) - Cardinality(finished \cap c)
        BY <2>1, FS_Union
      <3>3. Cardinality(finished \cap c) = 0
        BY <2>1, FS_EmptySet, Zenon
      <3>4. \A i, j, k \in Nat : k = 0 => i + j - k = i + j
        OBVIOUS
      <3>. QED  BY <3>1, <3>2, <3>3, <3>4
    <2>. QED  BY <1>1, <1>2, <1>5, <2>2 DEF Counted
  <1>7. closed' => finished' = nodes'
    <2>1. finished = nodes => finished' = nodes
      BY <1>1, <1>6
    <2>2. count' = Cardinality(nodes) => finished' = nodes
      BY <1>5, <1>6, NodesFinite
    <2>. QED  BY <1>c, <2>1, <2>2 DEF Counted
  <1>8. \A w \in Workers : worker'[w].at = "close" => finished' = nodes'
    BY <1>1, <1>6 DEF Counted
  <1>9. ready' \cap finished' = {}
    BY <1>1, <1>2, <1>3, <1>4, <1>5 DEF Counted
  <1>10. ASSUME NEW w \in Workers, worker'[w].at \in {"run", "count"}
         PROVE  /\ worker'[w].task \in dispatched' \ (ready' \cup finished')
                /\ \A v \in Workers \ {w} : worker'[v].at \in {"run", "count"} =>
                      worker'[v].task # worker'[w].task
    <2>1. worker'[w] = worker[w]
      BY <1>10
    <2>2. worker[w].task \in dispatched \ (ready \cup finished)
      BY <1>10, <2>1 DEF Counted
    <2>3. worker[w].task \in dispatched' \ (ready' \cup finished')
      BY <1>1, <1>2, <1>3, <1>4, <2>2
    <2>. QED  BY <1>10, <2>1, <2>3 DEF Counted
  <1>11. Ran' = Ran
    <2>1. \A w \in Workers : /\ worker'[w].at = "run" <=> worker[w].at = "run"
                             /\ worker'[w].at = "run" => worker'[w] = worker[w]
      OBVIOUS
    <2>2. {worker[w].task : w \in {v \in Workers : worker[v].at = "run"}}'
            = {worker[w].task : w \in {v \in Workers : worker[v].at = "run"}}
      BY <2>1
    <2>3. dispatched' \ ready' = dispatched \ ready
      BY <1>3, <1>4, <1>5
    <2>. QED  BY <2>2, <2>3 DEF Ran
  <1>. QED  BY <1>6, <1>7, <1>8, <1>9, <1>10, <1>11 DEF Counted

\* A worker's own steps.
LEMMA WorkerCounted ==
    ASSUME Sent, Counted, NEW w \in Workers, WorkerStep(w)
    PROVE  Counted'
  <1>. DEFINE W == [at : Places, task : Tasks]
              R == {worker[v].task : v \in {x \in Workers : worker[x].at = "run"}}
  <1>0. worker[w] \in W /\ worker \in [Workers -> W]
    BY DEF Sent
  <1>f. /\ nodes \subseteq Tasks /\ dispatched \subseteq nodes /\ ready \subseteq dispatched
        /\ finished \subseteq nodes
    BY DEF Sent, Counted
  <1>1. \A p \in Places : MoveTo(w, p) =>
           /\ worker'[w].at = p /\ worker'[w].task = worker[w].task
           /\ \A v \in Workers \ {w} : worker'[v] = worker[v]
    BY <1>0 DEF MoveTo
  <1>2. ASSUME NEW t \in Tasks, TakeTask(w, t) PROVE Counted'
    <2>1. /\ t \in ready /\ ready' = ready \ {t} /\ worker[w].at = "recv"
          /\ UNCHANGED <<nodes, dispatched, finished, count, closed, errors>>
      BY <1>2 DEF TakeTask, At
    <2>2. /\ worker'[w].at = "run" /\ worker'[w].task = t
          /\ \A v \in Workers \ {w} : worker'[v] = worker[v]
      BY <1>0, <1>2 DEF TakeTask
    <2>3. t \in dispatched \ finished
      BY <1>f, <2>1 DEF Counted
    <2>4. R' = R \cup {t}
      <3>1. \A v \in Workers : worker'[v].at = "run" <=> v = w \/ worker[v].at = "run"
        BY <2>1, <2>2
      <3>2. \A v \in Workers \ {w} : worker'[v].task = worker[v].task
        BY <2>2
      <3>. QED  BY <2>1, <2>2, <3>1, <3>2
    <2>5. Ran' = Ran
      BY <2>1, <2>4 DEF Ran
    <2>6. ASSUME NEW v \in Workers, worker'[v].at \in {"run", "count"}
          PROVE  /\ worker'[v].task \in dispatched' \ (ready' \cup finished')
                 /\ \A x \in Workers \ {v} : worker'[x].at \in {"run", "count"} =>
                       worker'[x].task # worker'[v].task
      <3>1. \A x \in Workers \ {w} : worker[x].at \in {"run", "count"} => worker[x].task # t
        BY <2>1 DEF Counted
      <3>2. CASE v = w
        BY <2>1, <2>2, <2>3, <3>1, <3>2
      <3>3. CASE v # w
        <4>1. worker'[v] = worker[v] /\ worker[v].at \in {"run", "count"}
          BY <2>2, <2>6, <3>3
        <4>. QED  BY <2>1, <2>2, <3>1, <3>3, <4>1 DEF Counted
      <3>. QED  BY <3>2, <3>3
    <2>7. \A v \in Workers : worker'[v].at = "close" => finished' = nodes'
      BY <2>1, <2>2 DEF Counted
    <2>. QED  BY <2>1, <2>5, <2>6, <2>7 DEF Counted
  \* The task of a worker is no longer run by it, and no other had it.
  <1>3. ASSUME At(w, "run"), MoveTo(w, "count"),
               UNCHANGED <<nodes, dispatched, finished, count, ready, closed>>,
               errors' \in {errors, errors + 1}
        PROVE  Counted'
    <2>. DEFINE t == worker[w].task
    <2>1. /\ worker[w].at = "run" /\ t \in dispatched \ (ready \cup finished)
          /\ \A v \in Workers \ {w} : worker[v].at \in {"run", "count"} => worker[v].task # t
      BY <1>3 DEF Counted, At
    <2>2. /\ worker'[w].at = "count" /\ worker'[w].task = t
          /\ \A v \in Workers \ {w} : worker'[v] = worker[v]
      BY <1>1, <1>3 DEF Places
    <2>. HIDE DEF t
    <2>3. R' = R \ {t}
      <3>1. \A v \in Workers : worker'[v].at = "run" <=> v # w /\ worker[v].at = "run"
        BY <2>2
      <3>2. \A v \in Workers \ {w} : worker'[v].task = worker[v].task
        BY <2>2
      <3>3. worker[w].task = t
        BY DEF t
      <3>. QED  BY <2>1, <3>1, <3>2, <3>3
    <2>4. t \in R
      BY <2>1 DEF t
    <2>5. Ran = dispatched \ (ready \cup R) /\ Ran' = dispatched' \ (ready' \cup R')
      BY DEF Ran
    <2>. HIDE DEF R
    <2>6. Ran' = Ran \cup {t} /\ t \notin Ran /\ Ran \subseteq nodes
      BY <1>3, <1>f, <2>1, <2>3, <2>4, <2>5
    <2>7. Cardinality(Ran') = Cardinality(Ran) + 1 /\ Cardinality(Ran) \in Nat
      BY <1>f, <2>6, NodesFinite, FS_AddElement
    <2>8. errors' \in Nat /\ errors' <= Cardinality(Ran')
      BY <1>3, <2>7 DEF Counted
    <2>9. ASSUME NEW v \in Workers, worker'[v].at \in {"run", "count"}
          PROVE  /\ worker'[v].task \in dispatched' \ (ready' \cup finished')
                 /\ \A x \in Workers \ {v} : worker'[x].at \in {"run", "count"} =>
                       worker'[x].task # worker'[v].task
      <3>1. CASE v = w
        BY <1>3, <2>1, <2>2, <3>1
      <3>2. CASE v # w
        <4>1. worker'[v] = worker[v] /\ worker[v].at \in {"run", "count"}
          BY <2>2, <2>9, <3>2
        <4>. QED  BY <1>3, <2>1, <2>2, <3>2, <4>1 DEF Counted
      <3>. QED  BY <3>1, <3>2
    <2>10. \A v \in Workers : worker'[v].at = "close" => finished' = nodes'
      BY <1>3, <2>2 DEF Counted
    <2>. QED  BY <1>3, <2>8, <2>9, <2>10 DEF Counted
  <1>4. CASE TaskFails(w) \/ \E refused \in BOOLEAN : Succeed(w, refused)
    BY <1>3, <1>4 DEF TaskFails, Succeed
  \* A worker that has no task.
  <1>5. ASSUME worker[w].at # "run", NEW p \in {"exit", "recv", "close", "check"},
               MoveTo(w, p), UNCHANGED <<dispatched, ready, errors>>
        PROVE  Ran' = Ran /\ p # "run"
    <2>1. /\ worker'[w].at # "run"
          /\ \A v \in Workers \ {w} : worker'[v] = worker[v]
      BY <1>1, <1>5 DEF Places
    <2>2. R' = R
      <3>1. \A v \in Workers : worker'[v].at = "run" <=> worker[v].at = "run"
        BY <1>5, <2>1
      <3>2. \A v \in Workers : worker[v].at = "run" => worker'[v].task = worker[v].task
        BY <1>5, <2>1
      <3>. QED  BY <3>1, <3>2
    <2>. QED  BY <1>5, <2>2 DEF Ran
  <1>6. CASE CountFinished(w)
    <2>. DEFINE t == worker[w].task
    <2>1. /\ worker[w].at = "count" /\ finished' = finished \cup {t} /\ count' = count + 1
          /\ UNCHANGED <<nodes, dispatched, ready, closed, errors>>
      BY <1>6 DEF CountFinished, At
    <2>2. PICK p \in {"close", "check"} :
             MoveTo(w, p) /\ (p = "close" => count' = Cardinality(nodes))
      BY <1>6 DEF CountFinished
    <2>3. /\ t \in dispatched \ (ready \cup finished)
          /\ \A v \in Workers \ {w} : worker[v].at \in {"run", "count"} => worker[v].task # t
      BY <2>1 DEF Counted
    <2>4. /\ worker'[w].at = p
          /\ \A v \in Workers \ {w} : worker'[v] = worker[v]
      BY <1>1, <2>2 DEF Places
    <2>. HIDE DEF t
    <2>5. finished' \subseteq nodes' /\ count' = Cardinality(finished')
      <3>1. IsFiniteSet(finished) /\ Cardinality(finished) \in Nat
        BY <1>f, NodesFinite
      <3>2. Cardinality(finished \cup {t}) = Cardinality(finished) + 1
        BY <2>3, <3>1, FS_AddElement
      <3>. QED  BY <1>f, <2>1, <2>3, <3>2 DEF Counted
    <2>6. finished = nodes => finished' = nodes'
      BY <2>1, <2>5
    <2>7. p = "close" => finished' = nodes'
      BY <1>f, <2>1, <2>2, <2>5, NodesFinite
    <2>8. \A v \in Workers : worker'[v].at = "close" => finished' = nodes'
      BY <2>4, <2>6, <2>7 DEF Counted
    <2>9. ASSUME NEW v \in Workers, worker'[v].at \in {"run", "count"}
          PROVE  /\ worker'[v].task \in dispatched' \ (ready' \cup finished')
                 /\ \A x \in Workers \ {v} : worker'[x].at \in {"run", "count"} =>
                       worker'[x].task # worker'[v].task
      <3>1. v # w /\ worker'[v] = worker[v] /\ worker[v].at \in {"run", "count"}
        BY <2>2, <2>4, <2>9
      <3>2. worker[v].task # t /\ worker[v].task \in dispatched \ (ready \cup finished)
        BY <2>3, <3>1 DEF Counted
      <3>3. \A x \in Workers \ {v} : worker'[x].at \in {"run", "count"} =>
                       x # w /\ worker'[x] = worker[x]
        BY <2>2, <2>4
      <3>. QED  BY <2>1, <3>1, <3>2, <3>3 DEF Counted
    <2>10. Ran' = Ran
      BY <1>5, <2>1, <2>2
    <2>11. ready' \cap finished' = {}
      BY <2>1, <2>3 DEF Counted
    <2>. QED  BY <2>1, <2>5, <2>6, <2>8, <2>9, <2>10, <2>11 DEF Counted
  <1>7. ASSUME NEW p \in {"exit", "recv"}, MoveTo(w, p), worker[w].at \in {"recv", "close"},
               UNCHANGED <<nodes, dispatched, finished, count, ready, errors>>,
               closed' => closed \/ finished = nodes
        PROVE  Counted'
    <2>1. /\ worker'[w].at = p
          /\ \A v \in Workers \ {w} : worker'[v] = worker[v]
      BY <1>1, <1>7 DEF Places
    <2>2. Ran' = Ran
      BY <1>5, <1>7
    <2>3. ASSUME NEW v \in Workers, worker'[v].at \in {"run", "count"}
          PROVE  /\ worker'[v].task \in dispatched' \ (ready' \cup finished')
                 /\ \A x \in Workers \ {v} : worker'[x].at \in {"run", "count"} =>
                       worker'[x].task # worker'[v].task
      BY <1>7, <2>1, <2>3 DEF Counted
    <2>4. closed' => finished' = nodes'
      BY <1>7 DEF Counted
    <2>5. \A v \in Workers : worker'[v].at = "close" => finished' = nodes'
      BY <1>7, <2>1 DEF Counted
    <2>. QED  BY <1>7, <2>2, <2>3, <2>4, <2>5 DEF Counted
  <1>8. CASE Leave(w)
    BY <1>7, <1>8 DEF Leave, At
  <1>9. CASE CloseLast(w)
    <2>1. worker[w].at = "close" /\ finished = nodes
      BY <1>9 DEF CloseLast, At, Counted
    <2>. QED  BY <1>7, <1>9, <2>1 DEF CloseLast
  <1>10. CASE Recheck(w)
    <2>1. CheckReady /\ MoveTo(w, "recv") /\ nodes' = nodes /\ errors' = errors
          /\ worker[w].at = "check"
      BY <1>10 DEF Recheck, At
    <2>2. worker'[w].at = "recv" /\ \A v \in Workers \ {w} : worker'[v] = worker[v]
      BY <1>1, <2>1 DEF Places
    <2>. QED  BY <2>1, <2>2, CheckReadyCounted
  <1>. QED  BY <1>2, <1>4, <1>6, <1>8, <1>9, <1>10 DEF WorkerStep

\* Every step of the pool.
LEMMA NextCounted == Sent /\ Counted /\ [BatchNext]_batchVars => Counted'
  <1>. SUFFICES ASSUME Sent, Counted, [BatchNext]_batchVars PROVE Counted'
    OBVIOUS
  <1>1. CASE FirstCheck
    BY <1>1, CheckReadyCounted DEF FirstCheck
  <1>2. CASE UNCHANGED batchVars
    <2>1. Ran' = Ran
      BY <1>2 DEF batchVars, Ran
    <2>. QED  BY <1>2, <2>1 DEF batchVars, Counted
  <1>. QED  BY <1>1, <1>2, WorkerCounted DEF BatchNext

\* The flags stay flags.
LEMMA NextFlags == Flags /\ [BatchNext]_batchVars => Flags'
  <1>. SUFFICES ASSUME Flags, [BatchNext]_batchVars PROVE Flags'
    OBVIOUS
  <1>1. Close => closed' \in BOOLEAN /\ panicked' \in BOOLEAN
    BY Zenon DEF Close, Flags
  <1>2. CheckReady => closed' \in BOOLEAN /\ panicked' \in BOOLEAN
    BY <1>1, Zenon DEF CheckReady, Flags
  <1>3. CASE FirstCheck
    BY <1>2, <1>3, Zenon DEF FirstCheck, Flags
  <1>4. CASE UNCHANGED batchVars
    BY <1>4, Zenon DEF batchVars, Flags
  <1>5. ASSUME NEW w \in Workers, WorkerStep(w) PROVE Flags'
    BY <1>1, <1>2, <1>5, Zenon
       DEF WorkerStep, TakeTask, Leave, Succeed, TaskFails, CountFinished, CloseLast, Recheck, Flags
  <1>. QED  BY <1>3, <1>4, <1>5 DEF BatchNext

\* What was counted is everything, once the channel of ready tasks is closed:
\* it is empty then, and nothing is sent to it.
ClosedLast == closed => finished = nodes /\ ready = {}
NothingSentAfterwards == [][closed => ready' \subseteq ready]_batchVars

\* For any ledger, dependencies and pool, every part of the batch has its type,
\* and the channel of errors never needs more than one place for each node: the
\* worker that reports a failure is never blocked.
THEOREM BatchTypeCorrect == BatchSpec => []BatchTypeOK
  <1>1. Sent /\ Counted /\ Flags => BatchTypeOK
    <2>. SUFFICES ASSUME Sent, Counted, Flags PROVE BatchTypeOK
      OBVIOUS
    <2>1. /\ nodes \subseteq Tasks /\ dispatched \subseteq nodes /\ finished \subseteq nodes
          /\ ready \subseteq dispatched /\ worker \in [Workers -> [at : Places, task : Tasks]]
      BY DEF Sent, Counted
    <2>2. status \in [Tasks -> {"pending", "done", "error"}]
      BY BatchAssumption DEF Sent
    <2>3. Ran \subseteq nodes
      BY <2>1 DEF Ran
    <2>4. count \in 0..Cardinality(nodes) /\ errors \in 0..Cardinality(nodes)
      BY <2>1, <2>3, NodesFinite DEF Counted
    <2>. QED  BY <2>1, <2>2, <2>4, Zenon DEF BatchTypeOK, Flags
  <1>. QED  BY <1>1, InitSent, NextSent, InitCounted, NextCounted, NextFlags, PTL DEF BatchSpec

\* Workers that count, fail, dispatch and close in any order: the channel of
\* ready tasks is closed only when every node is finished, with nothing left in
\* it, and checkReady sends nothing to it afterwards (which would panic); that
\* it may be closed a second time is what NeverPanics is about.
THEOREM ChannelClosedLast == BatchSpec => []ClosedLast /\ NothingSentAfterwards
  <1>1. Sent /\ Counted => ClosedLast
    BY DEF Sent, Counted, ClosedLast
  <1>2. Sent /\ Counted /\ [BatchNext]_batchVars
           => [closed => ready' \subseteq ready]_batchVars
    <2>. SUFFICES ASSUME Sent, Counted, BatchNext, closed PROVE ready' \subseteq ready
      BY DEF batchVars
    <2>1. finished = nodes
      BY DEF Counted
    <2>2. CheckReady => ready' \subseteq ready
      <3>. SUFFICES ASSUME CheckReady PROVE ready' \subseteq ready
        OBVIOUS
      <3>1. PICK c, st : ready' \subseteq ready \cup Ready(finished \cup c, st)
        BY DEF CheckReady
      <3>. QED  BY <2>1, <3>1 DEF Ready
    <2>3. CASE FirstCheck
      BY <2>2, <2>3 DEF FirstCheck
    <2>4. ASSUME NEW w \in Workers, WorkerStep(w) PROVE ready' \subseteq ready
      BY <2>2, <2>4
         DEF WorkerStep, TakeTask, Leave, Succeed, TaskFails, CountFinished, CloseLast, Recheck
    <2>. QED  BY <2>3, <2>4 DEF BatchNext
  <1>. QED  BY <1>1, <1>2, InitSent, NextSent, InitCounted, NextCounted, PTL
            DEF BatchSpec, NothingSentAfterwards
=============================================================================
