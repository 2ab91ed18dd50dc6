--------------------------- MODULE ModelProviders ---------------------------
(***************************************************************************)
(* The two model providers that leave the process: the loopback HTTP       *)
(* client (local_provider.rs) and the adapter over a network service       *)
(* (network_adapter.rs), with the request contract they share              *)
(* (provider.rs).  A call to the local provider is a sequence of blocking  *)
(* socket operations, each given what is left of one deadline; the server  *)
(* at the other end is external: once it holds the whole request it may    *)
(* apply it, answer, answer in part, or go away.                           *)
(*                                                                         *)
(* Sizes and times are small integers; an optional value is {} or {v}.     *)
(*                                                                         *)
(* The body of a local answer is read by a bounded walk (JsonParser): it   *)
(* skips over values, counting its steps and its depth, looks fields up by *)
(* scanning an object again from its start, and takes the text at          *)
(* choices[0].message.content, or at response.  A text is a tree:          *)
(* <<"str", s>>, <<"num">>, <<"lit">>, <<"arr", vs>>, <<"obj", pairs>>, or *)
(* <<"bad">> where the bytes are no value.                                 *)
(***************************************************************************)
EXTENDS Verdicts

CONSTANTS MaxBody,           \* MAX_LOCAL_RESPONSE_BYTES
          MaxDepth,          \* MAX_LOCAL_JSON_DEPTH
          Bodies             \* response bodies to walk, as trees

VARIABLES subject,           \* [root, json]: the body and whether it says it is JSON
          walk               \* {} or {the walk}

walkVars == <<subject, walk>>

MaxSteps == 8 * MaxBody

Kind(v) == v[1]

(* The walk: steps taken, depth, ok; a field found or a text taken is value. *)
Start == [steps |-> 0, depth |-> 0, ok |-> TRUE, over |-> FALSE, value |-> {}]

Fails(st) == [st EXCEPT !.ok = FALSE]

Spend(st) ==
    IF ~st.ok THEN st
    ELSE IF st.steps >= MaxSteps THEN [st EXCEPT !.ok = FALSE, !.over = TRUE] ELSE [st EXCEPT !.steps = @ + 1]

Enter(st) ==
    IF ~st.ok THEN st ELSE IF st.depth >= MaxDepth THEN Fails(st) ELSE [st EXCEPT !.depth = @ + 1]

Leave(st) == [st EXCEPT !.depth = @ - 1]

RECURSIVE SkipValue(_, _), SkipItems(_, _, _), SkipPairs(_, _, _)

SkipItems(vs, i, st) ==
    IF ~st.ok \/ i > Len(vs) THEN st ELSE SkipItems(vs, i + 1, SkipValue(vs[i], st))

(* One pair: the turn of the loop, the key, the value. *)
SkipPairs(pairs, i, st) ==
    IF ~st.ok \/ i > Len(pairs) THEN st
    ELSE SkipPairs(pairs, i + 1, SkipValue(pairs[i][2], Spend(Spend(st))))

SkipObject(v, st) ==
    LET in == Enter(Spend(st)) IN
    IF Kind(v) # "obj" THEN Fails(in) ELSE Leave(SkipPairs(v[2], 1, in))

SkipArray(v, st) == Leave(SkipItems(v[2], 1, Enter(Spend(st))))

SkipValue(v, st) ==
    LET s == Spend(st) IN
    IF ~s.ok THEN s ELSE
    CASE Kind(v) \in {"str", "num"} -> Spend(s)
      [] Kind(v) = "lit" -> s
      [] Kind(v) = "obj" -> SkipObject(v, s)
      [] Kind(v) = "arr" -> SkipArray(v, s)
      [] OTHER -> Fails(s)

(* find_field: the first pair with the key, its value skipped over. *)
FindField(v, want, st) ==
    LET pairs == v[2]
        hits  == {i \in DOMAIN pairs : pairs[i][1] = want}
        upTo  == IF hits = {} THEN Len(pairs) ELSE Min(hits)
        s     == SkipPairs(SubSeq(pairs, 1, upTo), 1, st)
    IN  [s EXCEPT !.value = IF s.ok /\ hits # {} THEN {pairs[upTo][2]} ELSE {}]

(* The value found, if it is of the kind looked for. *)
Found(st, kind) == {v \in st.value : Kind(v) = kind}

None(st) == [st EXCEPT !.value = {}]

(* parse_string of the value found: the text. *)
TakeText(st) ==
    LET s == Spend(st) IN
    IF Found(st, "str") = {} THEN None(st)
    ELSE [s EXCEPT !.value = IF s.ok THEN {v[2] : v \in Found(st, "str")} ELSE {}]

ExtractChoices(choices, st) ==
    IF Kind(choices) # "arr" \/ choices[2] = <<>> \/ Kind(choices[2][1]) # "obj" THEN None(st)
    ELSE LET first == choices[2][1]
             msg   == FindField(first, "message", SkipObject(first, st))
             body  == [m \in Found(msg, "obj") |-> FindField(m, "content", msg)]
         IN  IF Found(msg, "obj") = {} THEN None(msg)
             ELSE TakeText(body[CHOOSE m \in Found(msg, "obj") : TRUE])

(* extract_root: the whole text is walked first; the response field counts only
   for a body without choices that says it is JSON. *)
ExtractRoot(root, jsonType) ==
    LET walked  == SkipObject(root, Start)
        choices == FindField(root, "choices", walked)
    IN  IF Kind(root) # "obj" THEN Fails(Start) ELSE IF ~walked.ok THEN walked
        ELSE IF choices.value # {} THEN ExtractChoices(CHOOSE v \in choices.value : TRUE, choices)
        ELSE IF ~jsonType THEN None(choices)
        ELSE TakeText(FindField(root, "response", choices))

Extract(root, jsonType) == ExtractRoot(root, jsonType).value

WalkInit == (\E root \in Bodies, json \in BOOLEAN : subject = [root |-> root, json |-> json]) /\ walk = {}

WalkNext == walk = {} /\ walk' = {ExtractRoot(subject.root, subject.json)} /\ UNCHANGED subject

-----------------------------------------------------------------------------
(* What the walk is for: the place in the tree, first key first, of a text
   that is well formed and nested no deeper than the bound. *)
RECURSIVE WellFormed(_, _), BytesOf(_), BytesOfAll(_, _)

WellFormed(v, depth) ==
    CASE Kind(v) = "obj" -> depth < MaxDepth /\ \A i \in DOMAIN v[2] : WellFormed(v[2][i][2], depth + 1)
      [] Kind(v) = "arr" -> depth < MaxDepth /\ \A i \in DOMAIN v[2] : WellFormed(v[2][i], depth + 1)
      [] OTHER           -> Kind(v) # "bad"

(* The shortest text of a tree: quotes, brackets, colons and commas counted,
   a key or a string one byte inside its quotes. *)
BytesOfAll(vs, i) ==
    IF i > Len(vs) THEN 0 ELSE BytesOf(vs[i]) + (IF i > 1 THEN 1 ELSE 0) + BytesOfAll(vs, i + 1)

BytesOf(v) ==
    CASE Kind(v) = "str" -> 2 + (IF v[2] = "" THEN 0 ELSE 1)
      [] Kind(v) = "lit" -> 4
      [] Kind(v) = "arr" -> 2 + BytesOfAll(v[2], 1)
      [] Kind(v) = "obj" -> 2 + 4 * Len(v[2]) + BytesOfAll([i \in DOMAIN v[2] |-> v[2][i][2]], 1)
      [] OTHER           -> 1

FieldAt(v, key) ==
    IF Kind(v) # "obj" \/ \A i \in DOMAIN v[2] : v[2][i][1] # key THEN {}
    ELSE {v[2][Min({i \in DOMAIN v[2] : v[2][i][1] = key})][2]}

TextAt(vs) == {v[2] : v \in {w \in vs : Kind(w) = "str"}}

PlaceOf(root, jsonType) ==
    LET choices == FieldAt(root, "choices")
        firsts  == {c[2][1] : c \in {w \in choices : Kind(w) = "arr" /\ w[2] # <<>>}}
        msgs    == UNION {FieldAt(f, "message") : f \in firsts}
    IN  IF ~WellFormed(root, 0) \/ Kind(root) # "obj" THEN {}
        ELSE IF choices # {} THEN TextAt(UNION {FieldAt(m, "content") : m \in msgs})
        ELSE IF jsonType THEN TextAt(FieldAt(root, "response")) ELSE {}

(* The walk finds exactly the text at its place, whatever repeats of a key,
   nesting or garbage surround it, and no body within the byte ceiling is
   refused for its work. *)
WalkExact ==
    \A w \in walk :
        BytesOf(subject.root) <= MaxBody => w.value = PlaceOf(subject.root, subject.json) /\ ~w.over

-----------------------------------------------------------------------------
(* The providers. *)

CONSTANTS TurnRequests,          \* what a caller may ask
          Endpoints,         \* how the local provider may be configured
          Adapters,          \* how the adapter may be configured
          Answers,           \* what a server may answer
          MaxRequestTimeout, \* MAX_REQUEST_TIMEOUT_MS
          MaxStops, MaxStopBytes, MaxSchema,   \* bounds of the sampling contract
          MaxRequestBytes,   \* MAX_LOCAL_REQUEST_BYTES, the canonical ceiling
          MaxHeaderBytes, MaxResponseBytes, ReadSlack,   \* bounds of a response
          MaxHostLen, MaxPathLen, MaxKeyLen, MaxKeepAliveLen

VARIABLES call,              \* the call in progress, or [stage |-> "idle"]
          clock,             \* the monotonic clock of the adapter
          server             \* the other end

providerVars == <<call, clock, server>>

-----------------------------------------------------------------------------
(* The request contract. *)

Within(opt, lo, hi) == \A v \in opt : v \in lo..hi

(* validate_sampling: every declared field in its closed interval, the thinking
   budget below the completion budget. *)
ValidateSampling(p) ==
    Verdict(<< <<~Within(p.temperature, 0, 2), "InvalidSampling">>, <<~Within(p.topP, 0, 1), "InvalidSampling">>,
               <<\E v \in p.topK : v < 0, "InvalidSampling">>, <<~Within(p.penalty, -2, 2), "InvalidSampling">>,
               <<\E v \in p.maxTokens : v < 1, "InvalidSampling">>,
               <<Len(p.stop) > MaxStops \/ \E i \in DOMAIN p.stop : p.stop[i] > MaxStopBytes, "InvalidSampling">>,
               <<\E v \in p.schema : v > MaxSchema, "InvalidSampling">>,
               <<\E v \in p.reasoning : v < 1 \/ \E t \in p.maxTokens : v >= t, "InvalidSampling">> >>)

(* check_supported_sampling: the same table in both providers. *)
CheckSupported(p) ==
    IF p.topK # {} \/ p.schema # {} \/ p.reasoning # {} THEN "UnsupportedSampling" ELSE "ok"

CheckTimeout(r) ==
    Verdict(<< <<r.timeout = 0, "Transport">>, <<r.timeout > MaxRequestTimeout, "TimeoutTooLarge">> >>)

CheckSampling(r) ==
    LET bad == {v \in UNION {{ValidateSampling(p), CheckSupported(p)} : p \in r.sampling} : v # "ok"} IN
    IF bad = {} THEN "ok" ELSE IF "InvalidSampling" \in bad THEN "InvalidSampling" ELSE "UnsupportedSampling"

(* build_chat_body and build_request_body: a tool observation is folded into
   the user's role and grows by its label. *)
BodyBytes(r) == r.bytes + r.tools

(* What both providers check before anything leaves the process. *)
PreCheck(r, model) ==
    Verdict(<< <<CheckTimeout(r) # "ok", CheckTimeout(r)>>, <<CheckSampling(r) # "ok", CheckSampling(r)>>,
               <<r.model # model, "UnknownModel">>, <<r.bytes > r.budget, "BudgetExceeded">>,
               <<BodyBytes(r) > MaxRequestBytes, "Transport">> >>)

-----------------------------------------------------------------------------
(* LocalEndpoint. *)

LoopbackHost(h) == h.text = "localhost" \/ (h.text = "ip" /\ h.loopback)

ValidLocalPath(p) == p.len \in 1..MaxPathLen /\ p.prefixed /\ p.plain

ValidKeepAlive(k) == k.len \in 1..MaxKeepAliveLen /\ (k.special \/ k.duration)

(* validate: run again by every builder, so an endpoint that exists passes. *)
EndpointVerdict(e) ==
    Verdict(<< <<~e.provider, "InvalidProviderId">>,
               <<e.host.len \notin 1..MaxHostLen \/ e.host.odd, "Transport">>,
               <<e.host.text = "localhost" /\ e.host.bracketed, "Transport">>,
               <<~LoopbackHost(e.host), "Transport">>, <<e.port = 0, "Transport">>,
               <<~ValidLocalPath(e.path), "Transport">>,
               <<e.connect = 0 \/ e.read = 0, "Transport">>,
               <<e.connect > MaxRequestTimeout \/ e.read > MaxRequestTimeout, "TimeoutTooLarge">>,
               <<\E k \in e.key : k.len \notin 1..MaxKeyLen \/ k.odd, "Transport">>,
               <<\E k \in e.keepAlive : ~ValidKeepAlive(k), "Transport">> >>)

(* The request head: the host bracketed when it is a version 6 address, the
   authorization only with a key. *)
RequestHead(e) ==
    [host |-> IF e.host.v6 THEN "bracketed" ELSE "bare", authorization |-> e.key # {}]

-----------------------------------------------------------------------------
Idle == [stage |-> "idle"]

IdleServer == [contacted |-> FALSE, whole |-> FALSE, applied |-> FALSE, answer |-> {}, head |-> {}]

ProvidersInit == call = Idle /\ clock = 0 /\ server = IdleServer

Return(result) == call' = [call EXCEPT !.stage = "returned", !.result = result]

Failed(class) == [class |-> class, text |-> "", retry |-> {}]

(* LocalProvider::complete up to the first socket call. *)
LocalComplete(r, e) ==
    LET pre == PreCheck(r, e.model) IN
    /\ call.stage = "idle" /\ EndpointVerdict(e) = "ok"
    /\ call' = [stage |-> IF pre = "ok" THEN "connect" ELSE "returned", via |-> "local", request |-> r, config |-> e,
                deadline |-> clock + r.timeout, budget |-> 0, raw |-> 0,
                result |-> Failed(pre)]
    /\ UNCHANGED <<clock, server>>

(* operation_allowance_ms: what the policy gives, within what is left. *)
Allowance(own) == Max({1, Min({own, call.deadline - clock})})

Expired == call.deadline - clock <= 0

At(stage) == call.stage = stage /\ call.via = "local"

(* An operation that starts: nothing is started without time left. *)
GrantTime(stage, own, next) ==
    /\ At(stage)
    /\ IF Expired THEN Return(Failed("Timeout"))
       ELSE call' = [call EXCEPT !.stage = next, !.budget = Allowance(own)]
    /\ UNCHANGED <<clock, server>>

(* An operation that ends: after t of its budget, or at its end. *)
Takes(t) == t <= call.budget /\ clock' = clock + t

GrantConnect == GrantTime("connect", call.config.connect, "connecting")

Connect ==
    /\ At("connecting")
    /\ \/ \E t \in 0..call.budget : Takes(t) /\ call' = [call EXCEPT !.stage = "write"]
       \/ Takes(call.budget) /\ Return(Failed("Timeout"))
       \/ Takes(0) /\ Return(Failed("Transport"))
    /\ UNCHANGED server

GrantWrite == GrantTime("write", call.config.connect, "arm write")

\* Mutant: a failed arm is uncertain, sent or not.
ArmErrorUnknown(sent) == Failed("Unknown")

(* map_arm_error: before the request is sent, and after. *)
ArmError(sent) == Failed(IF sent THEN "Unknown" ELSE "Transport")

ArmWrite ==
    /\ At("arm write")
    /\ call' = [call EXCEPT !.stage = "head"] \/ Return(ArmError(FALSE))
    /\ UNCHANGED <<clock, server>>

(* map_write_error: io is "timeout", "uncertain" (the peer went away) or
   "other". *)
WriteError(io, bodyStarted) ==
    Failed(IF io = "timeout" THEN "Timeout"
           ELSE IF bodyStarted /\ io = "uncertain" /\ BodyBytes(call.request) > 0 THEN "Unknown" ELSE "Transport")

WriteHead ==
    /\ At("head")
    /\ server' = [server EXCEPT !.contacted = TRUE, !.head = {RequestHead(call.config)}]
    /\ \/ \E t \in 0..call.budget : Takes(t) /\ call' = [call EXCEPT !.stage = "body"]
       \/ \E io \in {"timeout", "uncertain", "other"} :
            Takes(IF io = "timeout" THEN call.budget ELSE 0) /\ Return(WriteError(io, FALSE))

(* A body write that fails may still have delivered every byte. *)
WriteBody ==
    /\ At("body")
    /\ \/ \E t \in 0..call.budget : Takes(t) /\ call' = [call EXCEPT !.stage = "sent"]
                                    /\ server' = [server EXCEPT !.whole = TRUE]
       \/ \E io \in {"timeout", "uncertain", "other"}, whole \in BOOLEAN :
            /\ Takes(IF io = "timeout" THEN call.budget ELSE 0) /\ Return(WriteError(io, TRUE))
            /\ server' = [server EXCEPT !.whole = whole]

GrantRead == GrantTime("sent", call.config.read, "arm read")

ArmRead ==
    /\ At("arm read")
    /\ call' = [call EXCEPT !.stage = "reading"] \/ Return(ArmError(TRUE))
    /\ UNCHANGED <<clock, server>>

-----------------------------------------------------------------------------
(* The server, external. *)

Serve ==
    /\ server.whole /\ server.answer = {}
    /\ \E a \in Answers : server' = [server EXCEPT !.applied = a.model, !.answer = {a}]
    /\ UNCHANGED <<call, clock>>

SizeOf(a) == a.head + a.body

CapExceeded(n) == n > MaxHeaderBytes + MaxResponseBytes + ReadSlack

(* read_bounded: one read; an end of the stream, a timeout or an error, at any
   point of the answer. *)
Read ==
    /\ At("reading")
    /\ \/ \E a \in server.answer :
            /\ call.raw < SizeOf(a)
            /\ \E t \in {0, call.budget - 1} : Takes(t)
            /\ IF CapExceeded(call.raw + 1) THEN Return(Failed("Transport"))
               ELSE call' = [call EXCEPT !.raw = @ + 1]
       \/ Takes(call.budget) /\ Return(Failed("Timeout"))
       \/ Takes(0) /\ Return(Failed(IF call.raw = 0 THEN "Transport" ELSE "Unknown"))
       \/ /\ Takes(0)
          /\ IF call.raw = 0 THEN Return(Failed("Transport")) ELSE call' = [call EXCEPT !.stage = "parse"]
    /\ UNCHANGED server

(* split_response with validate_headers, over the part of the answer that was
   read: the text must decode, the head be whole and bounded, the body what
   was declared. *)
SplitResponse(a, raw) ==
    LET body == raw - a.head
        cut  == raw < SizeOf(a)
    IN  Verdict(<< <<~a.utf8 \/ (cut /\ a.midChar = raw), "Transport">>,
                   <<raw < a.head /\ raw >= MaxHeaderBytes, "Transport">>, <<raw < a.head, "Unknown">>,
                   <<a.head > MaxHeaderBytes, "Transport">>, <<~a.line, "Transport">>,
                   <<a.chunked, "Transport">>,
                   <<\E n \in a.declared : n > MaxResponseBytes, "Transport">>,
                   <<\E n \in a.declared : body < n, "Unknown">>,
                   <<\E n \in a.declared : body > n, "Transport">> >>)

CheckStatus(status) ==
    CASE status \in 200..299 -> "ok" [] status \in {401, 403} -> "Auth" [] status = 429 -> "RateLimited"
      [] status = 404 -> "ModelUnavailable" [] OTHER -> "Transport"

(* A cut body is no whole JSON text. *)
ExtractText(a, raw) ==
    IF raw < SizeOf(a) THEN {} ELSE Extract(a.json, a.type # "none")

Parse ==
    /\ At("parse")
    /\ \E a \in server.answer :
         LET split == SplitResponse(a, call.raw)
             status == CheckStatus(a.status)
             text == ExtractText(a, call.raw)
         IN  Return(IF split # "ok" THEN Failed(split)
                    ELSE IF status # "ok" THEN [Failed(status) EXCEPT !.retry = IF a.status = 429 THEN a.retry ELSE {}]
                    ELSE IF call.raw - a.head > MaxResponseBytes \/ text = {} THEN Failed("Transport")
                    ELSE [class |-> "ok", text |-> CHOOSE t \in text : TRUE, retry |-> {}])
    /\ UNCHANGED <<clock, server>>

-----------------------------------------------------------------------------
(* NetworkConsumerAdapter::complete: one call of the service. *)

(* map_network_error: a transfer budget fires after the request went out. *)
MapNetworkError(e) ==
    IF e \in {"Budget", "CountBudget"} THEN "Unknown" ELSE IF e = "Timeout" THEN "Timeout" ELSE "Transport"

AdapterStatus(status) ==
    IF status = 503 THEN "ModelUnavailable" ELSE CheckStatus(status)

AdapterCheck(r, c) ==
    Verdict(<< <<PreCheck(r, c.model) # "ok", PreCheck(r, c.model)>>, <<c.key = "not text", "Auth">>,
               <<~c.allowed, "Transport">> >>)

AdapterComplete(r, c) ==
    LET pre == AdapterCheck(r, c) IN
    /\ call.stage = "idle"
    /\ call' = [stage |-> IF pre = "ok" THEN "service" ELSE "returned", via |-> "network", request |-> r, config |-> c,
                deadline |-> clock + r.timeout, budget |-> r.timeout, raw |-> 0,
                result |-> Failed(pre)]
    /\ server' = IF pre = "ok" THEN [server EXCEPT !.contacted = TRUE, !.whole = TRUE] ELSE server
    /\ UNCHANGED clock

(* The text of an answer: the content; empty or absent, the reasoning of an
   answer without tool calls; then the other places. *)
AdapterText(m) ==
    LET present(s) == s \cap {"text"} IN
    IF present(m.content) # {} THEN m.content
    ELSE IF present(m.reasoning) # {} /\ m.tools = 0 THEN m.reasoning
    ELSE IF m.content # {} THEN m.content ELSE IF m.elsewhere # {} THEN m.elsewhere
    ELSE IF m.tools > 0 THEN {"empty"} ELSE {}

Service ==
    /\ call.stage = "service"
    /\ \/ \E e \in {"Offline", "Denied", "Tls", "Timeout", "Budget", "CountBudget"} :
            Return(Failed(MapNetworkError(e)))
       \/ \E a \in server.answer :
            LET status == AdapterStatus(a.status) IN
            Return(IF status # "ok" THEN [Failed(status) EXCEPT !.retry = IF a.status = 429 THEN a.retry ELSE {}]
                   ELSE IF a.type # "json" \/ a.body > MaxResponseBytes \/ AdapterText(a.message) = {} THEN Failed("Transport")
                   ELSE [class |-> "ok", text |-> CHOOSE t \in AdapterText(a.message) : TRUE, retry |-> {}])
    /\ UNCHANGED <<clock, server>>

-----------------------------------------------------------------------------
ProvidersNext ==
    \/ \E r \in TurnRequests, e \in Endpoints : LocalComplete(r, e)
    \/ \E r \in TurnRequests, c \in Adapters : AdapterComplete(r, c)
    \/ GrantConnect \/ Connect \/ GrantWrite \/ ArmWrite \/ WriteHead \/ WriteBody \/ GrantRead \/ ArmRead
    \/ Serve \/ Read \/ Parse \/ Service

Returned == call.stage = "returned"

(* Nothing leaves the process for a request outside its contract, for a host
   that is not this machine, or for a network that was not granted; and a
   refusal that blames the request is made before anything left. *)
ContactGated ==
    /\ server.contacted =>
         /\ call.request.timeout \in 1..MaxRequestTimeout /\ call.request.bytes <= call.request.budget
         /\ \A p \in call.request.sampling : ValidateSampling(p) = "ok" /\ p.topK = {} /\ p.reasoning = {}
         /\ IF call.via = "local" THEN call.config.host.loopback /\ ~call.config.host.odd ELSE call.config.allowed
    /\ Returned /\ call.result.class \in {"UnknownModel", "BudgetExceeded", "TimeoutTooLarge", "InvalidSampling",
                                          "UnsupportedSampling"} => ~server.contacted

(* A turn is the text a model put at its place in a whole, successful answer:
   never a cut one, an error page, or another field. *)
TurnTrue ==
    (Returned /\ call.result.class = "ok") =>
      \E a \in server.answer :
        /\ a.status \in 200..299
        /\ call.via = "local" => /\ call.raw = SizeOf(a) /\ \A n \in a.declared : a.body = n
                                 /\ {call.result.text} = PlaceOf(a.json, a.type # "none")

(* An outcome that stops the caller until it has reconciled is given only when
   the request had begun to go out: it is never the price of a failure the
   next provider could have made good. *)
UnknownJustified ==
    (Returned /\ call.result.class = "Unknown") => server.contacted /\ (call.via = "local" => server.head # {})

(* Every socket operation is started with no more time than the request has
   left. *)
GrantedInTime ==
    call.stage \in {"connecting", "arm write", "head", "arm read"} => clock + call.budget <= call.deadline

=============================================================================
