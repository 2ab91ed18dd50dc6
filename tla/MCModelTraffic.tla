--------------------------- MODULE MCModelTraffic ---------------------------
(***************************************************************************)
(* From the choice of a model to the text a user sees: the registry a      *)
(* model is selected from (HostRegistry), the three-zone prompt it is sent *)
(* (ZoneCompiler), the call and the walk of its answer (ModelProviders),   *)
(* the streamed answer (ChatStream) and the fragments it is carried in     *)
(* (FragmentTransport).  Each hands the next a finished value and they     *)
(* share no state, so a behaviour exercises one of them, and the state     *)
(* space is their sum.                                                     *)
(***************************************************************************)
EXTENDS HostRegistry, ZoneCompiler, ModelProviders, ChatStream, FragmentTransport

CONSTANT Legs                \* the legs to exercise

VARIABLE leg

selectionVars == <<registry, grants>>

trafficVars == <<selectionVars, zoneVars, providerVars, walkVars, chatVars, transportVars, leg>>

(* The legs that a behaviour does not exercise start in one state. *)
TrafficInit ==
    /\ leg \in Legs
    /\ HostInit /\ ZoneInit /\ ProvidersInit /\ TransportInit
    /\ leg # "compile" => situation = CHOOSE s \in Situations : TRUE
    /\ IF leg = "stream" THEN ChatInit ELSE session = NewSession(<<>>)
    /\ IF leg = "walk" THEN WalkInit
       ELSE subject = [root |-> <<"lit">>, json |-> TRUE] /\ walk = {}

TrafficNext ==
    \/ leg = "selection" /\ HostNext /\ UNCHANGED <<zoneVars, providerVars, walkVars, chatVars, transportVars, leg>>
    \/ leg = "compile" /\ ZoneNext /\ UNCHANGED <<selectionVars, providerVars, walkVars, chatVars, transportVars, leg>>
    \/ leg = "call" /\ ProvidersNext /\ UNCHANGED <<selectionVars, zoneVars, walkVars, chatVars, transportVars, leg>>
    \/ leg = "walk" /\ WalkNext /\ UNCHANGED <<selectionVars, zoneVars, providerVars, chatVars, transportVars, leg>>
    \/ leg = "stream" /\ ChatNext /\ UNCHANGED <<selectionVars, zoneVars, providerVars, walkVars, transportVars, leg>>
    \/ leg = "fragments" /\ TransportNext /\ UNCHANGED <<selectionVars, zoneVars, providerVars, walkVars, chatVars, leg>>

TrafficSpec == TrafficInit /\ [][TrafficNext]_trafficVars

-----------------------------------------------------------------------------
(* What a caller is offered: the host's copy of the selection rules decides as
   the runtime's on every registry the calls can build (HostMirrorsRuntime),
   a caller's scopes never show it more (FilterHides), and the listings by
   scope cover exactly what can be named (ScopedListingsCover). *)
SelectionTrue == leg = "selection" => HostMirrorsRuntime /\ FilterHides /\ ScopedListingsCover

(* What a call may carry, do and say: the three-zone prompt fits the budget it
   was compiled for as the model gets it, and gives up only what it must
   (CompiledTrue); no contact without a loopback endpoint or a
   grant and a valid request (ContactGated), a turn only from an answer that
   says so (TurnTrue), Unknown only when the request may have been acted on
   (UnknownJustified), no operation granted time past the deadline it was
   armed before (GrantedInTime); and the text of an answer is found exactly
   where it belongs, without being refused for its size (WalkExact). *)
CallTrue ==
    /\ leg = "compile" => CompiledTrue
    /\ leg = "call" => ContactGated /\ TurnTrue /\ UnknownJustified /\ GrantedInTime
    /\ leg = "walk" => WalkExact

(* What is shown is what was sent: where the network cuts the bytes of a
   stream changes neither its events nor its refusals (ChunkingInvisible), and
   the sink holds the content of the turn in order, from the last that fit
   (ShownAsSaid); what is rejoined from fragments is one chunk as it was
   emitted, whatever was lost, repeated or sent by an older generation
   (RejoinedExact), and the chunks shown of a turn are its text in order, cut
   at characters (ShownInOrder). *)
StreamTrue ==
    /\ leg = "stream" => ChunkingInvisible /\ ShownAsSaid
    /\ leg = "fragments" => RejoinedExact /\ ShownInOrder

-----------------------------------------------------------------------------
(* The instance for TLC. *)
(* Selection. *)

\* Providers 1 and 2 are short, 3 has the longest id the bound admits, 4 one
\* byte more, 5 an empty one; 9 breaks the grammar.
OneMisspelt == {9}
MCIdLen(p) == CASE p = 3 -> 64 [] p = 4 -> 65 [] p = 5 -> 0 [] OTHER -> 8

Many == {Registration(1, 1, <<"text", "tools">>, 8, 0, 1),
         Registration(1, 1, <<"tools", "text">>, 8, 0, 1),
         Registration(1, 2, <<"text">>, 4, 2, 0),
         Registration(2, 1, <<"text", "text">>, 8, 0, 0),
         Registration(3, 1, <<"tools">>, 0, 1, 1),
         Registration(4, 1, <<"text">>, 8, 0, 1),
         Registration(5, 1, <<"text">>, 8, 0, 1),
         Registration(9, 9, <<"text">>, 8, 0, 1),
         Registration(2, 9, <<>>, 8, 0, 1),
         Registration(2, 2, <<>>, 8, 0, 1)}

Alias(a, cs) == [alias |-> a, candidates |-> cs]

ManyAliases ==
    {Alias(1, <<ModelRef(2, 1), ModelRef(1, 1)>>), Alias(1, <<ModelRef(1, 2)>>),
     Alias(2, <<ModelRef(1, 2), ModelRef(1, 2)>>), Alias(2, <<>>),
     Alias(2, <<ModelRef(1, 1), ModelRef(1, 9), ModelRef(9, 1)>>),
     Alias(2, <<ModelRef(9, 1), ModelRef(1, 9)>>),
     Alias(9, <<ModelRef(1, 1)>>), Alias(3, <<ModelRef(1, 1)>>),
     Alias(3, <<ModelRef(1, 1), ModelRef(1, 2), ModelRef(2, 1), ModelRef(3, 1)>>)}

Want(required, alias, window, cost) ==
    [required |-> required, alias |-> alias, window |-> window, cost |-> cost]

Wants == {Want(<<>>, {}, {}, {}), Want(<<"text">>, {}, {}, {}), Want(<<"text">>, {1}, {}, {}),
          Want(<<"tools", "text">>, {1}, {4}, {}), Want(<<"text">>, {}, {8}, {1})}

TwoScopes == {1, 2}
MCGrants == {[provider |-> 1, model |-> 1, scopes |-> <<1, 2>>],
              [provider |-> 1, model |-> 2, scopes |-> <<1>>],
              [provider |-> 1, model |-> 2, scopes |-> <<>>],
              [provider |-> 9, model |-> 2, scopes |-> <<1>>]}

-----------------------------------------------------------------------------
(* The three-zone prompt. *)
Checkpoint(full, short) == [full |-> full, short |-> short]
Slot(name, scratch, len) == [name |-> name, scratch |-> scratch, len |-> len]
MCSituations ==
    {[task |-> 0, log |-> <<>>, slots |-> {}],
     [task |-> 40, log |-> <<Checkpoint(50, 20), Checkpoint(30, 25), Checkpoint(60, 20)>>,
      slots |-> {Slot(1, TRUE, 30), Slot(2, FALSE, 30)}],
     [task |-> 0, log |-> <<Checkpoint(90, 20)>>, slots |-> {Slot(1, TRUE, 40)}]}
Field(len) == [len |-> len, marked |-> FALSE]
MCHostPrefixes ==
    {[system |-> Field(a), rules |-> Field(b), tools |-> Field(0)] : a \in {0, 30}, b \in {0, 5}}
    \cup {[system |-> Field(3), rules |-> [len |-> 9, marked |-> TRUE], tools |-> Field(7)]}
Piece(len, width) == [len |-> len, width |-> width]
MCPrompts == {{}, {Piece(20, 1)}, {Piece(60, 3)}}
MCActionTexts == {Piece(10, 1), Piece(60, 4)}
MCZoneBudgets ==
    {[zone1 |-> z1, zone2 |-> z2, zone3 |-> z3, total |-> total] :
       z1 \in {40, 90}, z2 \in {120, 200}, z3 \in {0, 38, 90, 131}, total \in {150, 260, 390, 700}}

-----------------------------------------------------------------------------
(* Calls. *)

Plain == [temperature |-> {}, topP |-> {}, topK |-> {}, penalty |-> {}, maxTokens |-> {}, stop |-> <<>>, schema |-> {},
          reasoning |-> {}]
Samplings ==
    {{}, {[Plain EXCEPT !.temperature = {2}, !.maxTokens = {2}]}, {[Plain EXCEPT !.temperature = {3}]},
     {[Plain EXCEPT !.topP = {2}]}, {[Plain EXCEPT !.topK = {-1}]}, {[Plain EXCEPT !.topK = {1}]},
     {[Plain EXCEPT !.penalty = {-3}]}, {[Plain EXCEPT !.maxTokens = {0}]}, {[Plain EXCEPT !.stop = <<1, 1>>]},
     {[Plain EXCEPT !.stop = <<2>>]}, {[Plain EXCEPT !.schema = {3}]}, {[Plain EXCEPT !.reasoning = {2}, !.maxTokens = {2}]},
     {[Plain EXCEPT !.reasoning = {1}, !.maxTokens = {2}]}}
Ask == [timeout |-> 3, sampling |-> {}, model |-> "m", bytes |-> 1, tools |-> 0, budget |-> 2]
MCTurnRequests ==
    {Ask} \cup {[Ask EXCEPT !.sampling = s] : s \in Samplings}
    \cup {[Ask EXCEPT !.timeout = t] : t \in {0, 1, 2, 5}}
    \cup {[Ask EXCEPT !.model = "n"], [Ask EXCEPT !.bytes = 3], [Ask EXCEPT !.bytes = 2, !.tools = 2], [Ask EXCEPT !.bytes = 0]}

Loopback == [text |-> "localhost", loopback |-> TRUE, bracketed |-> FALSE, v6 |-> FALSE, odd |-> FALSE, len |-> 1]
LocalEnd == [provider |-> TRUE, host |-> Loopback, port |-> 1, model |-> "m",
             path |-> [len |-> 1, prefixed |-> TRUE, plain |-> TRUE], connect |-> 2, read |-> 3, key |-> {}, keepAlive |-> {}]
MCEndpoints ==
    {LocalEnd, [LocalEnd EXCEPT !.host = [Loopback EXCEPT !.text = "ip", !.v6 = TRUE]],
     [LocalEnd EXCEPT !.host = [Loopback EXCEPT !.text = "ip", !.loopback = FALSE]],
     [LocalEnd EXCEPT !.host = [Loopback EXCEPT !.text = "dns", !.loopback = FALSE]],
     [LocalEnd EXCEPT !.host.bracketed = TRUE], [LocalEnd EXCEPT !.host.odd = TRUE],
     [LocalEnd EXCEPT !.connect = 0], [LocalEnd EXCEPT !.read = 1, !.key = {[len |-> 1, odd |-> FALSE]}],
     [LocalEnd EXCEPT !.keepAlive = {[len |-> 1, special |-> FALSE, duration |-> FALSE]}]}
Granted == [model |-> "m", key |-> "text", allowed |-> TRUE]
MCAdapters == {Granted, [Granted EXCEPT !.allowed = FALSE], [Granted EXCEPT !.key = "not text"]}

Text == <<"str", "t">>
Content(v) == <<"obj", << <<"choices", <<"arr", << <<"obj", << <<"message", <<"obj", << <<"content", v>> >> >> >> >> >> >> >> >> >> >>
Message(content, reasoning, elsewhere, tools) ==
    [content |-> content, reasoning |-> reasoning, elsewhere |-> elsewhere, tools |-> tools]
Whole == [head |-> 1, body |-> 2, declared |-> {2}, utf8 |-> TRUE, midChar |-> 2, line |-> TRUE, chunked |-> FALSE, status |-> 200,
         retry |-> {}, type |-> "json", model |-> TRUE, json |-> Content(Text), message |-> Message({"text"}, {}, {}, 0)]
MCAnswers ==
    {Whole, [Whole EXCEPT !.status = 203], [Whole EXCEPT !.status = 500], [Whole EXCEPT !.status = 500, !.model = FALSE], [Whole EXCEPT !.status = 503],
     [Whole EXCEPT !.status = 401, !.model = FALSE], [Whole EXCEPT !.status = 429, !.model = FALSE, !.retry = {1}],
     [Whole EXCEPT !.status = 404, !.model = FALSE], [Whole EXCEPT !.declared = {}], [Whole EXCEPT !.declared = {1}],
     [Whole EXCEPT !.declared = {4}], [Whole EXCEPT !.body = 5, !.declared = {}], [Whole EXCEPT !.head = 3],
     [Whole EXCEPT !.chunked = TRUE], [Whole EXCEPT !.line = FALSE], [Whole EXCEPT !.utf8 = FALSE],
     [Whole EXCEPT !.json = Content(<<"num">>), !.message = Message({}, {}, {}, 0)],
     [Whole EXCEPT !.type = "none", !.json = <<"obj", << <<"response", Text>> >> >>],
     [Whole EXCEPT !.type = "json like", !.json = <<"obj", << <<"response", Text>> >> >>, !.message = Message({}, {}, {"text"}, 0)],
     [Whole EXCEPT !.message = Message({"empty"}, {"text"}, {}, 1)], [Whole EXCEPT !.message = Message({}, {"text"}, {}, 0)],
     [Whole EXCEPT !.message = Message({}, {}, {}, 1)]}

-----------------------------------------------------------------------------
(* Bodies: every nesting of up to two fields on the way to the text. *)

Leaves == {Text, <<"str", "">>, <<"num">>, <<"bad">>}
Objects(keys, values) ==
    {<<"obj", <<>> >>} \cup {<<"obj", << <<k, v>> >> >> : k \in keys, v \in values}
    \cup {<<"obj", << <<k, v>>, <<l, w>> >> >> : k, l \in keys, v, w \in values}
Messages == {<<"obj", << <<"content", v>> >> >> : v \in Leaves} \cup {<<"obj", << <<"content", Text>>, <<"content", <<"num">> >> >> >>, <<"lit">>}
FirstChoices == Objects({"message", "x"}, Messages) \cup {Text}
ChoiceLists == {<<"arr", <<>> >>, <<"lit">>} \cup {<<"arr", <<f>> >> : f \in FirstChoices} \cup {<<"arr", <<f, Text>> >> : f \in FirstChoices}
RECURSIVE Nested(_)
Nested(n) == IF n = 0 THEN <<"num">> ELSE <<"arr", <<Nested(n - 1)>> >>
MCBodies ==
    {<<"obj", << <<"choices", c>> >> >> : c \in ChoiceLists}
    \cup {<<"obj", << <<k, c>>, <<l, v>> >> >> : k \in {"choices", "x"}, c \in ChoiceLists, l \in {"choices", "response"}, v \in {Text, <<"num">>}}
    \cup {<<"obj", << <<l, v>>, <<"choices", c>> >> >> : l \in {"x", "response"}, v \in {Text, <<"bad">>}, c \in ChoiceLists}
    \cup {<<"obj", << <<"response", Text>>, <<"x", Nested(n)>> >> >> : n \in 6..8} \cup Objects({"response"}, Leaves) \cup Leaves

-----------------------------------------------------------------------------
(* Streams and fragments. *)

Delta(content, tools, finish, usage) == [content |-> content, tools |-> tools, finish |-> finish, usage |-> usage]
Call(index, name, args) == [index |-> index, name |-> name, args |-> args]
MCPayloads ==
    LET table == {<< <<"c">>, Delta(<<"c">>, <<>>, FALSE, {})>>, << <<"h", "t">>, Delta(<<"h", "t">>, <<>>, FALSE, {})>>,
                  << <<"0">>, Delta(<<>>, <<Call(0, <<"n">>, <<"a">>)>>, FALSE, {})>>,
                  << <<"1">>, Delta(<<>>, <<Call(1, <<>>, <<"a">>)>>, TRUE, {})>>,
                  << <<"2">>, Delta(<<"c">>, <<Call(2, <<"n">>, <<>>)>>, FALSE, {1})>>}
    IN  [d \in {t[1] : t \in table} |-> (CHOOSE t \in table : t[1] = d)[2]]
Lines == {<<>>, <<"d", "c">>, <<"d">>, <<"d", "h", "t">>, <<":">>, <<"e", "x">>}
Rare == {<<"d", "0">>, <<"d", "1">>, <<"d", "2">>, <<"d", "DONE">>, <<"d", "x">>, <<"i", "NUL">>, <<"i", "x">>, <<"r", "7">>, <<"r", "x">>,
         <<"d", "h">>, <<"d", "c", "c", "c">>, <<"x", "y">>}
Ended(ls) == {l \o t : l \in ls, t \in {<<"LF">>, <<"CR">>, <<"CR", "LF">>}}
MCStreams ==
    {a \o b \o c \o d : a \in Ended(Lines), b \in Ended({<<>>, <<"d", "c">>, <<"d">>}), c \in Ended({<<>>, <<"d", "c">>}), d \in {<<>>, <<"d", "c">>, <<"d", "c", "CR">>}}
    \cup {a \o b \o c \o d : a \in Ended(Rare), b \in Ended({<<>>, <<"d", "c">>}), c \in {<<"LF">>}, d \in Rare}

MCTexts == {<<"a", "h", "t", "h", "t">>, <<"b", "c", "d">>}
=============================================================================
