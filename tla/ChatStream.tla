----------------------------- MODULE ChatStream -----------------------------
(***************************************************************************)
(* A streamed completion: bytes as the network cuts them (sse.rs), events, *)
(* deltas and the assembled turn (chat_stream.rs), and the session that    *)
(* pipes content to a sink as it arrives (facade.rs).                      *)
(*                                                                         *)
(* A line is its field's byte ("d" data, "e" event, "i" id, "r" retry, ":" *)
(* a comment, anything else unknown) and its value's bytes.                *)
(***************************************************************************)
EXTENDS StreamSinks

CONSTANTS Streams,           \* what a server may send, as bytes
          Payloads,          \* external: the JSON a data text decodes to
          MaxLine, MaxEvent, \* MAX_SSE_LINE_BYTES, MAX_SSE_EVENT_BYTES
          MaxToolCalls,      \* MAX_STREAM_TOOL_CALLS
          SinkCapacity

VARIABLE session

chatVars == <<session>>

-----------------------------------------------------------------------------
(* SseParser. *)

NewSse == [buffer |-> <<>>, event |-> {}, data |-> <<>>, id |-> {}, retry |-> {}, lastId |-> {}, fields |-> FALSE]

\* Mutant: a carriage return at the end of what arrived ends its line.
FindLineBreakEager(b) ==
    LET i == Min({j \in DOMAIN b : b[j] \in {"CR", "LF"}} \cup {Len(b) + 1}) IN
    IF i > Len(b) THEN {}
    ELSE {<<i - 1, IF b[i] = "CR" /\ i < Len(b) /\ b[i + 1] = "LF" THEN i + 1 ELSE i>>}

(* find_line_break: where the line ends and how far to advance; a trailing
   carriage return waits for the byte after it. *)
FindLineBreak(b) ==
    LET i == Min({j \in DOMAIN b : b[j] \in {"CR", "LF"}} \cup {Len(b) + 1}) IN
    IF i > Len(b) \/ (i = Len(b) /\ b[i] = "CR") THEN {}
    ELSE {<<i - 1, IF b[i] = "CR" /\ b[i + 1] = "LF" THEN i + 1 ELSE i>>}

Parsed(p) == [parser |-> p, error |-> "ok"]
Refused(p, error) == [parser |-> p, error |-> error]

JoinData(data, value) == IF data = <<>> THEN value ELSE data \o <<"NL">> \o value

ProcessLine(p, line) ==
    LET value == Tail(line) IN
    CASE line[1] = "e" -> Parsed([p EXCEPT !.event = {value}, !.fields = TRUE])
      [] line[1] = "d" -> IF Len(JoinData(p.data, value)) > MaxEvent THEN Refused(p, "EventTooLong")
                          ELSE Parsed([p EXCEPT !.data = JoinData(@, value), !.fields = TRUE])
      [] line[1] = "i" -> Parsed(IF "NUL" \in {value[i] : i \in DOMAIN value} THEN p
                               ELSE [p EXCEPT !.id = {value}, !.fields = TRUE])
      [] line[1] = "r" -> IF value # <<"7">> THEN Refused(p, "InvalidRetry")
                          ELSE Parsed([p EXCEPT !.retry = {7}, !.fields = TRUE])
      [] OTHER         -> Parsed(p)

EventOf(p) == [event |-> p.event, data |-> p.data, id |-> p.id, retry |-> p.retry]

(* dispatch_current: what is left of the parser once its event is taken. *)
Dispatched(p) == [NewSse EXCEPT !.buffer = p.buffer, !.lastId = IF p.id # {} THEN p.id ELSE p.lastId]

(* The loop of feed: lines while there are any. *)
RECURSIVE FeedLines(_, _)
FeedLines(p, events) ==
    LET fail(q, e) == [parser |-> q, events |-> <<>>, error |-> e] IN
    IF FindLineBreak(p.buffer) = {}
    THEN IF Len(p.buffer) > MaxLine THEN fail(p, "LineTooLong") ELSE [parser |-> p, events |-> events, error |-> "ok"]
    ELSE LET cut  == CHOOSE c \in FindLineBreak(p.buffer) : TRUE
             line == SubSeq(p.buffer, 1, cut[1])
             q    == [p EXCEPT !.buffer = SubSeq(@, cut[2] + 1, Len(@))]
             r    == ProcessLine(q, line)
         IN  IF cut[1] > MaxLine THEN fail(p, "LineTooLong")
             ELSE IF ~Utf8(line) THEN fail(q, "InvalidUtf8")
             ELSE IF line = <<>>
             THEN IF q.fields THEN FeedLines(Dispatched(q), Append(events, EventOf(q))) ELSE FeedLines(q, events)
             ELSE IF line[1] = ":" THEN FeedLines(q, events)
             ELSE IF r.error # "ok" THEN fail(r.parser, r.error) ELSE FeedLines(r.parser, events)

SseFeed(p, bytes) == FeedLines([p EXCEPT !.buffer = @ \o bytes], <<>>)

(* finish: the unterminated line, then the unterminated event. *)
SseFinish(p) ==
    LET q == [p EXCEPT !.buffer = <<>>]
        r == IF p.buffer = <<>> \/ p.buffer[1] = ":" THEN Parsed(q) ELSE ProcessLine(q, p.buffer)
    IN  IF ~Utf8(p.buffer) THEN [parser |-> q, events |-> <<>>, error |-> "InvalidUtf8"]
        ELSE IF r.error # "ok" THEN [parser |-> r.parser, events |-> <<>>, error |-> r.error]
        ELSE IF r.parser.fields THEN [parser |-> Dispatched(r.parser), events |-> <<EventOf(r.parser)>>, error |-> "ok"]
        ELSE [parser |-> r.parser, events |-> <<>>, error |-> "ok"]

-----------------------------------------------------------------------------
(* ChatCompletionStreamParser. *)

Trim(d) ==
    LET ink == {i \in DOMAIN d : d[i] \notin {"NL", "CR"}} IN
    IF ink = {} THEN <<>> ELSE SubSeq(d, Min(ink), Max(ink))

NewTools == <<>>

(* The accumulators, grown to hold an index. *)
GrowTools(tools, index) ==
    tools \o [i \in 1..Max({0, index + 1 - Len(tools)}) |-> [name |-> <<>>, args |-> <<>>]]

RECURSIVE AddTools(_, _)
AddTools(chat, calls) ==
    IF calls = <<>> THEN [chat |-> chat, error |-> "ok"]
    ELSE LET c == Head(calls) IN
         IF c.index >= MaxToolCalls THEN [chat |-> chat, error |-> "JsonParse"]
         ELSE AddTools([chat EXCEPT !.tools = [GrowTools(@, c.index) EXCEPT ![c.index + 1].name = @ \o c.name,
                                                                           ![c.index + 1].args = @ \o c.args]], Tail(calls))

(* process_event: one event's deltas; only the content ones reach a sink. *)
ProcessEvent(chat, event) ==
    LET data == Trim(event.data)
        json == Payloads[data]
        said == [chat EXCEPT !.text = @ \o json.content, !.deltas = IF json.content # <<>> THEN Append(@, json.content) ELSE @]
        told == AddTools(said, json.tools)
    IN  IF data = <<"DONE">> THEN [chat |-> [chat EXCEPT !.finished = TRUE], error |-> "ok"]
        ELSE IF data = <<>> THEN [chat |-> chat, error |-> "ok"]
        ELSE IF data \notin DOMAIN Payloads THEN [chat |-> chat, error |-> "JsonParse"]
        ELSE IF told.error # "ok" THEN told
        ELSE [chat |-> [told.chat EXCEPT !.finished = @ \/ json.finish, !.usage = IF json.usage # {} THEN json.usage ELSE @],
              error |-> "ok"]

RECURSIVE ProcessEvents(_, _)
ProcessEvents(chat, events) ==
    IF events = <<>> THEN [chat |-> chat, error |-> "ok"]
    ELSE LET r == ProcessEvent(chat, Head(events)) IN
         IF r.error # "ok" THEN r ELSE ProcessEvents(r.chat, Tail(events))

NewChat == [text |-> <<>>, tools |-> NewTools, usage |-> {}, finished |-> FALSE, deltas |-> <<>>]

(* finish: the calls that were named. *)
TurnOf(chat) == [text |-> chat.text, calls |-> SelectSeq(chat.tools, LAMBDA t : t.name # <<>>), usage |-> chat.usage]

-----------------------------------------------------------------------------
(* AiStreamSession: `seen` and `failed` record what the caller was given.   *)

NewSession(s) ==
    [stream |-> s, at |-> 0, stage |-> "open", sse |-> NewSse, chat |-> NewChat, seq |-> 0,
     sink |-> NewSink(SinkCapacity), seen |-> <<>>, turn |-> {}, error |-> "ok"]

ChatInit == \E s \in Streams : session = NewSession(s)

(* pipe_to_sink, of every content delta: the sequence moves before the sink
   is asked. *)
RECURSIVE PipeToSink(_, _, _)
PipeToSink(sink, seq, deltas) ==
    IF deltas = <<>> THEN [sink |-> sink, seq |-> seq, error |-> "ok"]
    ELSE LET c == Chunk(seq, seq + 1, TRUE, Head(deltas)) IN
         IF ValidateChunk(c) # "ok" THEN [sink |-> sink, seq |-> seq + 1, error |-> ValidateChunk(c)]
         ELSE PipeToSink(Emit(sink, c), seq + 1, Tail(deltas))

(* What the bytes of one call do to the session. *)
Handled(parsed) ==
    LET done  == ProcessEvents([session.chat EXCEPT !.deltas = <<>>], parsed.events)
        piped == PipeToSink(session.sink, session.seq, done.chat.deltas)
    IN  IF parsed.error # "ok" THEN [session EXCEPT !.sse = parsed.parser, !.stage = "failed", !.error = parsed.error]
        ELSE IF done.error # "ok"
        THEN [session EXCEPT !.sse = parsed.parser, !.chat = done.chat, !.seen = @ \o parsed.events,
                             !.stage = "failed", !.error = done.error]
        ELSE [session EXCEPT !.sse = parsed.parser, !.chat = done.chat, !.seen = @ \o parsed.events, !.sink = piped.sink,
                             !.seq = piped.seq, !.stage = IF piped.error = "ok" THEN @ ELSE "failed", !.error = piped.error]

FeedChunk(n) ==
    /\ session.stage = "open" /\ session.at + n <= Len(session.stream)
    /\ session' = [Handled(SseFeed(session.sse, SubSeq(session.stream, session.at + 1, session.at + n)))
                     EXCEPT !.at = @ + n]

(* finish and finish_with_sink, at the end of the stream or where it broke. *)
FinishStream ==
    /\ session.stage = "open"
    /\ session' = LET s == Handled(SseFinish(session.sse)) IN
                  IF s.stage = "failed" THEN s ELSE [s EXCEPT !.stage = "finished", !.turn = {TurnOf(s.chat)}]

ChatNext == (\E n \in 1..Len(session.stream) : FeedChunk(n)) \/ FinishStream

-----------------------------------------------------------------------------
(* What a stream says, read whole: its lines, the events blank lines close. *)

LineEnds(s) == {i \in DOMAIN s : s[i] = "LF" \/ (s[i] = "CR" /\ i < Len(s) /\ s[i + 1] # "LF")}

LineAt(s, e) ==
    LET from == Max({x \in LineEnds(s) : x < e} \cup {0}) + 1
        to   == IF e \in LineEnds(s) THEN IF s[e] = "LF" /\ e > from /\ s[e - 1] = "CR" THEN e - 2 ELSE e - 1 ELSE Len(s)
    IN  SubSeq(s, from, to)

Stops(s) == LineEnds(s) \cup {Len(s) + 1}

(* The stops whose line is empty, and the end, close an event: the lines since
   the last such stop. *)
Blank(s, e) == LineAt(s, e) = <<>> /\ e <= Len(s)
GroupOf(s, e) ==
    LET from == Max({x \in LineEnds(s) : x < e /\ Blank(s, x)} \cup {0})
        in   == {x \in Stops(s) : from < x /\ x <= e /\ LineAt(s, x) # <<>>}
    IN  [i \in 1..Cardinality(in) |-> LineAt(s, CHOOSE x \in in : Cardinality({y \in in : y <= x}) = i)]

Values(group, field) == LET ls == SelectSeq(group, LAMBDA l : l[1] = field) IN [i \in DOMAIN ls |-> Tail(ls[i])]
LastOf(vs) == IF vs = <<>> THEN {} ELSE {vs[Len(vs)]}

RECURSIVE JoinedData(_, _)
JoinedData(vs, acc) == IF vs = <<>> THEN acc ELSE JoinedData(Tail(vs), JoinData(acc, Head(vs)))

EventIn(group) ==
    [event |-> LastOf(Values(group, "e")), data |-> JoinedData(Values(group, "d"), <<>>),
     id |-> LastOf(SelectSeq(Values(group, "i"), LAMBDA v : "NUL" \notin {v[i] : i \in DOMAIN v})),
     retry |-> IF Values(group, "r") = <<>> THEN {} ELSE {7}]

HasFields(group) == EventIn(group) # EventIn(<<>>) \/ Values(group, "d") # <<>>

(* The events of a stream, in order. *)
EventsOf(s) ==
    LET ends == {e \in Stops(s) : (e > Len(s) \/ Blank(s, e)) /\ HasFields(GroupOf(s, e))} IN
    [i \in 1..Cardinality(ends) |-> EventIn(GroupOf(s, CHOOSE e \in ends : Cardinality({x \in ends : x <= e}) = i))]

(* A stream the parser has no reason to refuse. *)
Acceptable(s) ==
    /\ \A e \in Stops(s) : Len(LineAt(s, e)) <= MaxLine /\ Utf8(LineAt(s, e))
    /\ \A e \in Stops(s) : LineAt(s, e) # <<>> /\ LineAt(s, e)[1] = "r" => Tail(LineAt(s, e)) = <<"7">>
    /\ \A e \in Stops(s) : Len(JoinedData(Values(GroupOf(s, e), "d"), <<>>)) <= MaxEvent

(* A line of exactly the bound whose end begins with a carriage return. *)
FullThenCr(s) ==
    \E e \in LineEnds(s) : Len(LineAt(s, e)) = MaxLine /\ "CR" \in {s[e], s[Max({1, e - 1})]}

BytesRead == SubSeq(session.stream, 1, session.at)

(* Whatever the network made of the stream, a session that ends has seen
   exactly the events that are in the bytes it was given, and one that fails
   in the framing was sent bytes that are refused whole as well; a line of
   exactly the bound ended by a carriage return is the one exception. *)
ChunkingInvisible ==
    /\ session.stage = "finished" => Acceptable(BytesRead) /\ session.seen = EventsOf(BytesRead)
    /\ session.error = "LineTooLong" => ~Acceptable(session.stream) \/ FullThenCr(session.stream)
    /\ session.error \in {"EventTooLong", "InvalidUtf8", "InvalidRetry"} => ~Acceptable(BytesRead)

(* What was shown is what was said: the sink took every content the caller was
   given, in order and nothing else, holding the newest of it; the turn's text
   is all of it, and a content never fails to fit a chunk. *)
Contents(events) ==
    LET json == SelectSeq(events, LAMBDA e : Trim(e.data) \in DOMAIN Payloads /\ Payloads[Trim(e.data)].content # <<>>)
    IN  [i \in DOMAIN json |-> Payloads[Trim(json[i].data)].content]

ShownAsSaid ==
    LET said == Contents(session.seen)
        sink == session.sink
    IN  /\ session.error \notin {"InvalidFraming", "OversizedFragment"}
        /\ session.error = "ok" =>
             /\ sink.accepted = Len(said) /\ session.seq = Len(said)
             /\ sink.accepted = sink.shed + Len(sink.chunks) /\ Len(sink.chunks) <= sink.capacity
             /\ \A i \in DOMAIN sink.chunks : sink.chunks[i].bytes = said[sink.shed + i] /\ sink.chunks[i].seq = sink.shed + i - 1
        /\ \A t \in session.turn : t.text = Joined(said)

=============================================================================
