------------------------------ MODULE Endpoint ------------------------------
(***************************************************************************)
(* The agent endpoint (endpoint/lib.rs): six gates, then at most one       *)
(* handler over views the host supplies.  A call is one synchronous        *)
(* function, so it is one step; what interleaves with it is everything     *)
(* that can change between the client's composing a request and the host's *)
(* dispatching it: the clock, consent given and revoked, the registries,   *)
(* the context records and their artifacts, the MCP listing.               *)
(*                                                                         *)
(* issued and killed are history: what the artifact store ever held under  *)
(* a reference, and the references invalidated since.                      *)
(***************************************************************************)
EXTENDS ContextStore, HostTools, ProviderRegistry

CONSTANTS Clients,
          Templates,        \* the requests clients compose
          GrantedTo(_),     \* scopes of a client's connection
          Views,            \* the provider and caller scope a host injects
          ProviderReplies,  \* what an injected provider may answer
          ToolReplies,      \* what an injected executor may answer
          RecordKinds,      \* the context records a host adds
          ToolSpecs, Raws,  \* tools a host registers, lists an MCP server gives
          Pins,             \* MCP pins a host holds
          ToolConsents,     \* per-tool grants an operator gives
          Ttl,              \* lifetime of a grant
          MaxTimeout,       \* MAX_REQUEST_TIMEOUT_MS
          MaxArgs,          \* MAX_TOOL_ARGUMENTS_BYTES
          MaxResult,        \* MAX_TOOL_RESULT_BYTES
          MaxNow,           \* bound: clock
          MaxText,          \* the schema's byte bounds on names, fields and reasons
          MaxList,          \* the schema's count bounds on lists
          MaxPrefix         \* MAX_SCHEMA_CANONICAL_PREFIX_BYTES

ArgsDigest(args) == args.content

(* Clocks are numbers, and a digest names one value. *)
ASSUME EndpointAssumption ==
    /\ MaxTime \in Nat /\ MaxTimeout \in Nat /\ MaxDeleted \in Nat
    /\ \A t \in Templates : t.skew \in Int
    /\ \A t, u \in Templates : ArgsDigest(t.args) = ArgsDigest(u.args) => t.args = u.args

VARIABLES now, consent, toolGrants, records, artifacts, generation, pin,
          calls, last, issued, killed

hostVars == <<now, consent, toolGrants, records, artifacts, generation, pin, issued, killed>>
endpointVars == <<hostVars, registry, tools, listing, calls, last>>

-----------------------------------------------------------------------------
(* The reading of a request: the JSON parser, function by function by what it
   refuses, the snapshot_version correlator and one decoder per method.
   Request bytes are a form, which says what the parser meets in them, and a
   body, the values of the method's fields.  Texts are their lengths where
   only a bound looks at them; an optional field is a set. *)

ValueFaults == {"too deep", "unknown literal", "no value"}

NumberFaults == {"leading zero", "bare point", "bare exponent"}

StringFaults == {"open string", "control byte", "bad escape", "lone surrogate", "not UTF-8"}

ContainerFaults == {"open array", "open object", "unquoted key", "missing colon"}

TopFaults == {"trailing bytes", "not an object"}

ParserFaults == ValueFaults \cup NumberFaults \cup StringFaults \cup ContainerFaults \cup TopFaults

Parsed(form) == form \notin ParserFaults

(* A number field: digits only, inside its width. *)
AsU64(n) == n \in 0..MaxCost

AsU32(n) == n \in 0..MaxCost

BoundLen(n) == n <= MaxText

-----------------------------------------------------------------------------
(* The correlator. *)

CorrelatorVerdict(form) ==
    IF form \in {"two correlators", "correlator no integer"} THEN "InvalidRequest" ELSE "ok"

ParseCorrelator(form) ==
    IF form = "no bytes" THEN "ok"
    ELSE IF ~Parsed(form) THEN "InvalidRequest" ELSE CorrelatorVerdict(form)

CorrelatorCurrent(method) == IF method = "ai.mcp_snapshot" THEN {listing.version} ELSE {}

(* Tolerant: what the sighting is, never a refusal. *)
CheckCorrelator(seen, current) ==
    IF current = {} THEN "Unchecked"
    ELSE CASE SnapshotVerdict(seen, CHOOSE v \in current : TRUE) = "ok" -> "Current"
           [] SnapshotVerdict(seen, CHOOSE v \in current : TRUE) = "StaleVersion" -> "StaleTolerated"
           [] OTHER -> "MissingTolerated"

-----------------------------------------------------------------------------
(* The closed vocabularies. *)

Capabilities ==
    {"text", "streaming", "tools", "image_input", "audio_input", "audio_output",
     "video_input", "reasoning"}

CacheScopes == {"session", "turn", "round"}

Details == {"summary", "standard", "full"}

Roles == {"user", "assistant", "tool"}

Levels == {"inspect", "own", "workspace", "all"}

-----------------------------------------------------------------------------
(* One decoder per method: what each refuses of its body. *)

DecodeSelect(b) ==
    Verdict(<< <<b.required = <<>> \/ ~(Range(b.required) \subseteq Capabilities), "InvalidRequest">>,
               <<\E a \in b.alias : ~BoundLen(IdLen(a)), "InvalidRequest">>,
               <<\E n \in b.window \cup b.cost : ~AsU32(n), "InvalidRequest">> >>)

DecodeFallback(b) ==
    Verdict(<< <<b.error \notin ProviderErrors, "InvalidRequest">>,
               <<\E n \in b.detail : ~BoundLen(n), "InvalidRequest">> >>)

DecodeCost(b) ==
    Verdict(<< <<~AsU64(b.in) \/ ~AsU64(b.out), "InvalidRequest">>,
               <<~AsU32(b.inw) \/ ~AsU32(b.outw), "InvalidRequest">> >>)

DecodeCacheHint(b) ==
    Verdict(<< <<~GoodProvider(b.provider) \/ ~GoodName(b.model), "InvalidRequest">>,
               <<b.scope \notin CacheScopes, "InvalidRequest">>,
               <<b.prefix > MaxPrefix, "InvalidRequest">>,
               <<b.ask \notin CacheScopes, "InvalidRequest">> >>)

DecodeManifest(b) ==
    Verdict(<< <<~BoundLen(b.size), "InvalidRequest">>,
               <<~(Range(b.points) \subseteq ExtensionPoints), "InvalidRequest">> >>)

DecodeContribute(b) ==
    Verdict(<< <<b.point \notin ExtensionPoints, "InvalidRequest">>,
               <<~BoundLen(b.size), "InvalidRequest">> >>)

DecodeActivate(b) ==
    Verdict(<< <<b.size \notin 1..MaxText, "InvalidRequest">>,
               <<Len(b.enabled) > MaxList, "InvalidRequest">>,
               <<\E i \in DOMAIN b.enabled : b.enabled[i] \notin 1..MaxText, "InvalidRequest">> >>)

DecodeContextRead(b) ==
    Verdict(<< <<b.scopes = <<>>, "InvalidRequest">>,
               <<Len(b.scopes) > MaxRecords, "LimitExceeded">>,
               <<Range(b.scopes) \cap Misspelt # {}, "InvalidRequest">>,
               <<b.detail \notin Details, "InvalidRequest">> >>)

(* The model reference of a completion, its messages, and its lists of names. *)
DecodeModel(b) == IF GoodProvider(b.provider) /\ GoodName(b.model) THEN "ok" ELSE "InvalidRequest"

DecodeMessages(ms) ==
    Verdict(<< <<Len(ms) > MaxList, "LimitExceeded">>,
               <<\E i \in DOMAIN ms : ms[i].role \notin Roles, "InvalidRequest">>,
               <<\E i \in DOMAIN ms : ~BoundLen(ms[i].size), "LimitExceeded">> >>)

DecodeNames(names) ==
    IF Len(names) > MaxList \/ ~(Range(names) \subseteq 1..MaxText) THEN "LimitExceeded" ELSE "ok"

DecodeComplete(b) ==
    Verdict(<< <<DecodeModel(b) # "ok", DecodeModel(b)>>,
               <<DecodeMessages(b.messages) # "ok", DecodeMessages(b.messages)>>,
               <<DecodeNames(b.refs) # "ok", DecodeNames(b.refs)>>,
               <<DecodeNames(b.tools) # "ok", DecodeNames(b.tools)>>,
               <<b.sampling \notin {"undeclared", "declared"}, "InvalidRequest">> >>)

DecodeToolDispatch(b) ==
    Verdict(<< <<b.tool = 0, "LimitExceeded">>,
               <<b.level \notin Levels, "InvalidRequest">>,
               <<\E list \in b.allowed : Cardinality(list) > MaxList \/ 0 \in list, "LimitExceeded">> >>)

Fieldless == {"ai.provider_list", "ai.mcp_pin", "ai.mcp_snapshot"}

DecodeBody(method, b) ==
    CASE method = "ai.model_select"         -> DecodeSelect(b)
      [] method = "ai.model_fallback"       -> DecodeFallback(b)
      [] method = "ai.model_cost"           -> DecodeCost(b)
      [] method = "ai.cache_hint"           -> DecodeCacheHint(b)
      [] method = "ai.extension_manifest"   -> DecodeManifest(b)
      [] method = "ai.extension_contribute" -> DecodeContribute(b)
      [] method = "ai.extension_activate"   -> DecodeActivate(b)
      [] method = "ai.context_read"         -> DecodeContextRead(b)
      [] method = "ai.provider_complete"    -> DecodeComplete(b)
      [] method = "ai.tool_dispatch"        -> DecodeToolDispatch(b)
      [] OTHER                              -> "Internal"

(* No bytes are a request of a fieldless method only, which takes at most the
   correlator; the correlator is read before the method's own fields. *)
DecodeRequest(call) ==
    IF call.form = "no bytes"
    THEN IF call.method \in Fieldless THEN "ok" ELSE "InvalidRequest"
    ELSE IF ~Parsed(call.form) THEN "InvalidRequest"
    ELSE IF CorrelatorVerdict(call.form) # "ok" THEN CorrelatorVerdict(call.form)
    ELSE IF call.method \in Fieldless
    THEN IF call.form = "extra field" THEN "InvalidRequest" ELSE "ok"
    ELSE DecodeBody(call.method, call.body)

-----------------------------------------------------------------------------
(* External: the scope registry, the schema gate, deadlines. *)

InvokeMethods == {"ai.provider_complete", "ai.tool_dispatch"}

ReadMethods ==
    {"ai.model_select", "ai.model_fallback", "ai.model_cost", "ai.provider_list",
     "ai.cache_hint", "ai.mcp_pin", "ai.mcp_snapshot", "ai.extension_manifest",
     "ai.extension_contribute", "ai.extension_activate"}

Methods == ReadMethods \cup InvokeMethods \cup {"ai.context_read"}

RequiredScope(method) == IF method \in InvokeMethods THEN "ai.invoke" ELSE "ai.read"

DomainDeadline(created, timeout) == Later(created, timeout)

SchemaAccepts(call) == Parsed(call.form) /\ call.form # "extra field"

-----------------------------------------------------------------------------
(* The gates. *)

ConsentLive(c, scope) ==
    \E g \in consent : g.client = c /\ g.scope = scope /\ now < g.expires

\* Mutant: the grant's expiry is not looked at.
GatesWithoutExpiry(call) ==
    Verdict(<< <<call.method \notin Methods, "NotFound">>,
               <<RequiredScope(call.method) \notin GrantedTo(call.client), "ScopeDenied">>,
               <<~\E g \in consent : g.client = call.client /\ g.scope = RequiredScope(call.method),
                 "ScopeDenied">>,
               <<call.timeout \notin 1..MaxTimeout, "InvalidRequest">>,
               <<now >= DomainDeadline(call.created, call.timeout), "Timeout">>,
               <<~SchemaAccepts(call), "InvalidRequest">> >>)

RunGates(call) ==
    Verdict(<< <<call.method \notin Methods, "NotFound">>,
               <<RequiredScope(call.method) \notin GrantedTo(call.client), "ScopeDenied">>,
               <<~ConsentLive(call.client, RequiredScope(call.method)), "ScopeDenied">>,
               <<call.timeout \notin 1..MaxTimeout, "InvalidRequest">>,
               <<now >= DomainDeadline(call.created, call.timeout), "Timeout">>,
               <<~SchemaAccepts(call), "InvalidRequest">> >>)

(* What the host injects beside a call: a provider, an executor, or nothing. *)
Nothing == [part |-> "none"]

(* How a call ends, or has not. *)
Outcome(kind, error, answer) ==
    [kind |-> kind, error |-> error, answer |-> answer, contacts |-> 0, call |-> <<>>, with |-> Nothing]

NoReport == Outcome("none", "ok", <<>>)

Ready(answer) == Outcome("Ready", "ok", answer)

Refused(error) == Outcome("Refused", error, <<>>)

NotWired == Outcome("NotWired", "ok", <<>>)

Contacted(outcome) == [outcome EXCEPT !.contacts = 1]

-----------------------------------------------------------------------------
(* The read-only handlers. *)

HandleSelect(b) ==
    LET chosen == Select(models, aliases, b)
    IN  CASE chosen.error = "ok"           -> Ready(chosen.chain)
          [] chosen.error = "UnknownAlias" -> Refused("NotFound")
          [] chosen.error = "NoCandidate"  -> Ready(<<"failed">>)
          [] OTHER                         -> Refused("InvalidRequest")

HandleFallback(b) == Ready(<<FallbackDirective(b.error)>>)

HandleCost(b) == Ready(<<b, EstimateCost(b.in, b.out, b.inw, b.outw)>>)

HandleList == IF Len(models) > MaxModels THEN Refused("Internal") ELSE Ready(Entries(models))

(* A hint never hits: only the scope of the key is checked. *)
HandleCacheHint(b) ==
    IF b.scope # b.ask THEN Refused("CacheScopeMismatch") ELSE Ready(<<b, "miss">>)

HandlePin ==
    IF PinVerdict(pin) = "ok" THEN Ready(<<pin>>) ELSE Refused("Denied")

HandleSnapshot == Ready(<<listing>>)

HandleManifest(b) == Ready(<<b>>)

HandleContribute(b) == Ready(<<b>>)

HandleActivate(b) ==
    Refused(IF ActivationVerdict(b.point) = "Denied" THEN "Denied" ELSE "NotFound")

HandleRead(call) ==
    LET b == call.body
    IN  IF DecodeRequest(call) # "ok" THEN Refused(DecodeRequest(call))
        ELSE CASE call.method = "ai.model_select"         -> HandleSelect(b)
               [] call.method = "ai.model_fallback"       -> HandleFallback(b)
               [] call.method = "ai.model_cost"           -> HandleCost(b)
               [] call.method = "ai.provider_list"        -> HandleList
               [] call.method = "ai.cache_hint"           -> HandleCacheHint(b)
               [] call.method = "ai.mcp_pin"              -> HandlePin
               [] call.method = "ai.mcp_snapshot"         -> HandleSnapshot
               [] call.method = "ai.extension_manifest"   -> HandleManifest(b)
               [] call.method = "ai.extension_contribute" -> HandleContribute(b)
               [] call.method = "ai.extension_activate"   -> HandleActivate(b)

-----------------------------------------------------------------------------
(* ai.context_read: every record of the generation and scopes asked for, in
   the host's order and uncut, or no answer. *)

Wanted(call) ==
    Picked(records, {i \in DOMAIN records : /\ records[i].generation = call.generation
                                            /\ records[i].owner \in Range(call.body.scopes)})

Absent(rs, gen) ==
    {i \in DOMAIN rs : /\ rs[i].body.kind = "artifact"
                       /\ Absence(artifacts, rs[i].body.ref, gen) # "Available"}

RecordRefusal(rs, i, gen) ==
    Verdict(<< <<i > MaxRecords, "LimitExceeded">>,
               <<RecordVerdict(rs[i]) = "UnknownProvider", "InvalidRequest">>,
               <<RecordVerdict(rs[i]) # "ok", "LimitExceeded">>,
               <<rs[i].id = 0, "InvalidRequest">>,
               <<rs[i].body.kind = "binary", "InvalidRequest">>,
               <<i \in Absent(rs, gen) /\ Cardinality(Absent(rs, gen) \cap 1..i) > MaxArtifacts,
                 "LimitExceeded">> >>)

ReadVerdict(rs, gen) ==
    LET failing == {i \in DOMAIN rs : RecordRefusal(rs, i, gen) # "ok"}
    IN  IF failing = {} THEN "ok" ELSE RecordRefusal(rs, Min(failing), gen)

(* The records in full and, beside them, why each missing artifact is missing. *)
ReadAnswer(rs, gen) == <<rs, [i \in Absent(rs, gen) |-> Absence(artifacts, rs[i].body.ref, gen)]>>

HandleContextRead(call) ==
    LET rs  == Wanted(call)
        gen == call.generation
    IN  IF DecodeRequest(call) # "ok" THEN Refused(DecodeRequest(call))
        ELSE IF ReadVerdict(rs, gen) # "ok" THEN Refused(ReadVerdict(rs, gen))
        ELSE Ready(ReadAnswer(rs, gen))

-----------------------------------------------------------------------------
(* ai.provider_complete: one call of the injected provider. *)

TotalMessageBytes(b) == FoldSeq(LAMBDA msg, total : msg.size + total, 0, b.messages)

(* CompleteRequest::check, after the handler's own checks. *)
EnvelopeVerdict(b) ==
    Verdict(<< <<Len(b.messages) > MaxList, "LimitExceeded">>,
               <<\E i \in DOMAIN b.messages : ~BoundLen(b.messages[i].size), "LimitExceeded">>,
               <<Len(b.refs) > MaxList \/ Len(b.tools) > MaxList, "LimitExceeded">>,
               <<b.timeout > MaxTimeout, "TimeoutTooLarge">>,
               <<TotalMessageBytes(b) > b.budget, "BudgetExceeded">> >>)

CompleteVerdict(call, view) ==
    LET b == call.body
    IN  Verdict(<< <<b.sampling = "declared", "InvalidRequest">>,
                   <<view.echo # b.provider, "ScopeDenied">>,
                   <<view.provider # b.provider, "NotFound">>,
                   <<TotalMessageBytes(b) > b.budget, "BudgetExceeded">>,
                   <<b.timeout \notin 1..MaxTimeout, "TimeoutTooLarge">>,
                   <<EnvelopeVerdict(b) # "ok", EnvelopeVerdict(b)>>,
                   <<now >= DomainDeadline(call.at, b.timeout), "Timeout">> >>)

ProviderErrorRefusal(error) ==
    CASE error = "UnknownModel"     -> "NotFound"
      [] error = "Transport"        -> "Transport"
      [] error = "Auth"             -> "ProviderAuthDenied"
      [] error = "RateLimited"      -> "RateLimited"
      [] error = "ModelUnavailable" -> "Unavailable"
      [] error = "Unknown"          -> "UnknownAckLoss"
      [] error \in {"BudgetExceeded", "Timeout", "TimeoutTooLarge"} -> error
      [] OTHER                      -> "InvalidRequest"

ResponseVerdict(reply) ==
    Verdict(<< <<reply.text > MaxText, "LimitExceeded">>,
               <<Len(reply.calls) > MaxList, "LimitExceeded">>,
               <<\E i \in DOMAIN reply.calls : reply.calls[i].size > MaxArgs, "LimitExceeded">> >>)

EncodeCompleteVerdict(reply) ==
    IF \E i \in DOMAIN reply.calls : ~reply.calls[i].utf8 THEN "InvalidRequest" ELSE "ok"

(* What crosses back of the provider's one answer. *)
Completed(call, reply) ==
    IF reply.error # "ok" THEN Refused(ProviderErrorRefusal(reply.error))
    ELSE IF reply.latency > call.body.timeout THEN Refused(ProviderErrorRefusal("Timeout"))
    ELSE IF ResponseVerdict(reply) # "ok" THEN Refused(ResponseVerdict(reply))
    ELSE IF EncodeCompleteVerdict(reply) # "ok" THEN Refused(EncodeCompleteVerdict(reply))
    ELSE Ready(<<reply>>)

HandleComplete(call, view, reply) ==
    IF DecodeRequest(call) # "ok" THEN Refused(DecodeRequest(call))
    ELSE IF CompleteVerdict(call, view) # "ok" THEN Refused(CompleteVerdict(call, view))
    ELSE Contacted(Completed(call, reply))

-----------------------------------------------------------------------------
(* ai.tool_dispatch: one call of the injected executor, the arguments beside
   the request and bound to it by their digest. *)

ToolConsented(tool, scope, at) == \E g \in toolGrants : Covers(g, "native", tool, scope, at)

ScopeOfTool(name) == tools[Min(Lookup(tools, name))].scope

ToolVerdict(call, args) ==
    LET b == call.body
    IN  IF args.size > MaxArgs THEN "LimitExceeded"
        ELSE IF ArgsDigest(args) # b.digest THEN "InvalidRequest"
        ELSE IF ~GoodToolName(b.tool) THEN "InvalidRequest"
        ELSE IF Lookup(tools, b.tool) = {} THEN "NotFound"
        ELSE IF ~ToolConsented(b.tool, ScopeOfTool(b.tool), call.at) THEN "ToolConsent"
        ELSE IF NarrowingOmits(b.allowed, b.tool) THEN "ToolNarrowed" ELSE "ok"

\* Mutant: an effect of unknown fate is reported as failed.
ToolStatusCertain(error) ==
    CASE error = "Denied" -> {"denied"}
      [] error \in {"Failed", "ProtocolRejected", "EffectUnknown"} -> {"failed"}
      [] OTHER -> {}

ToolStatus(error) ==
    CASE error = "Denied" -> {"denied"}
      [] error \in {"Failed", "ProtocolRejected"} -> {"failed"}
      [] error = "EffectUnknown" -> {"unknown"}
      [] OTHER -> {}

EncodeToolResult(status, disposition) == <<[status |-> status, disposition |-> disposition]>>

Executed(reply) ==
    IF reply.error # "ok"
    THEN IF ToolStatus(reply.error) = {} THEN Refused("Internal")
         ELSE Ready(EncodeToolResult(CHOOSE s \in ToolStatus(reply.error) : TRUE, "accepted"))
    ELSE IF reply.summary > MaxSummary \/ reply.data > MaxResult
    THEN Ready(EncodeToolResult("success", "rejected"))
    ELSE IF ~reply.utf8 THEN Refused("InvalidRequest")
    ELSE Ready(EncodeToolResult("success", "accepted"))

HandleToolDispatch(call, args, reply) ==
    IF DecodeRequest(call) # "ok" THEN Refused(DecodeRequest(call))
    ELSE IF ToolVerdict(call, args) # "ok" THEN Refused(ToolVerdict(call, args))
    ELSE Contacted(Executed(reply))

-----------------------------------------------------------------------------
(* The entries.  Each wires what the one before it wires and one method more;
   a method an entry does not wire is admitted and left. *)

Wired(entry) ==
    CASE entry = "dispatch" -> {}
      [] entry = "dispatch_with" -> ReadMethods
      [] entry = "dispatch_with_context" -> ReadMethods \cup {"ai.context_read"}
      [] entry = "dispatch_with_complete" -> ReadMethods \cup {"ai.context_read", "ai.provider_complete"}
      [] entry = "dispatch_with_tools" -> Methods

Admitted(call, entry, outcome) ==
    IF RunGates(call) # "ok" THEN Refused(RunGates(call))
    ELSE IF call.method \notin Wired(entry) THEN NotWired ELSE outcome

(* One dispatch of the request client c composed: the outcome, and beside it
   what the host injected when that was contacted. *)
Report(c, outcome, injected) ==
    /\ last' = [outcome EXCEPT !.call = calls[c][1], !.with = IF outcome.contacts > 0 THEN injected ELSE Nothing]
    /\ calls' = [calls EXCEPT ![c] = <<>>]
    /\ UNCHANGED <<hostVars, registry, tools, listing>>

Composed(c) == calls[c] # <<>> /\ last.kind = "none"

DispatchRead(c, entry) ==
    /\ Composed(c)
    /\ LET call == calls[c][1]
       IN  /\ call.method \notin InvokeMethods \cap Wired(entry)
           /\ Report(c, Admitted(call, entry,
                                 IF call.method = "ai.context_read" THEN HandleContextRead(call)
                                 ELSE HandleRead(call)),
                     Nothing)

DispatchComplete(c, view, reply) ==
    /\ Composed(c)
    /\ calls[c][1].method = "ai.provider_complete"
    /\ Report(c, Admitted(calls[c][1], "dispatch_with_complete",
                          HandleComplete(calls[c][1], view, reply)),
              [part |-> "provider", view |-> view, reply |-> reply])

DispatchTool(c, args, reply) ==
    /\ Composed(c)
    /\ calls[c][1].method = "ai.tool_dispatch"
    /\ Report(c, Admitted(calls[c][1], "dispatch_with_tools",
                          HandleToolDispatch(calls[c][1], args, reply)),
              [part |-> "executor", args |-> args, reply |-> reply])

(* The strict entry has no same-domain binding: it refuses before any handler. *)
StrictOutcome(call) ==
    IF RunGates(call) # "ok" THEN Refused(RunGates(call))
    ELSE IF ParseCorrelator(call.form) # "ok" THEN Refused(ParseCorrelator(call.form))
    ELSE Refused("Unbound")

DispatchStrict(c) == Composed(c) /\ Report(c, StrictOutcome(calls[c][1]), Nothing)

-----------------------------------------------------------------------------
(* Clients and hosts. *)

(* A client composes a request from what it sees now: its clock, the host's
   generation, the listing and its version. *)
Issue(c, t) ==
    /\ calls[c] = <<>> /\ last.kind = "none"
    /\ calls' = [calls EXCEPT ![c] =
         << [method |-> t.method, form |-> t.form, body |-> t.body, timeout |-> t.timeout, args |-> t.args,
             client |-> c, created |-> now, at |-> now + t.skew, generation |-> generation,
             seen |-> IF t.sights THEN {listing.version} ELSE {}, saw |-> listing.digests] >>]
    /\ UNCHANGED <<hostVars, registry, tools, listing, last>>

HostStep(others) == last.kind = "none" /\ UNCHANGED <<calls, last, others>>

(* The report of a dispatch stands until its client has taken it. *)
Take ==
    /\ last.kind # "none"
    /\ last' = NoReport
    /\ UNCHANGED <<hostVars, registry, tools, listing, calls>>

Tick ==
    /\ now < MaxNow
    /\ now' = now + 1
    /\ HostStep(<<registry, tools, listing, consent, toolGrants, records, artifacts, generation,
                  pin, issued, killed>>)

SetConsent(c, scope, live) ==
    /\ consent' = {g \in consent : g.client # c \/ g.scope # scope}
                  \cup (IF live THEN {[client |-> c, scope |-> scope, expires |-> Later(now, Ttl)]}
                                ELSE {})
    /\ consent' # consent
    /\ HostStep(<<registry, tools, listing, now, toolGrants, records, artifacts, generation,
                  pin, issued, killed>>)

SetToolConsent(g, live) ==
    /\ toolGrants' = {k \in toolGrants : [k EXCEPT !.expires = 0] # g @@ [expires |-> 0]}
                     \cup (IF live THEN {g @@ [expires |-> ConsentGrantExpiry(now, Ttl)]} ELSE {})
    /\ toolGrants' # toolGrants
    /\ HostStep(<<registry, tools, listing, now, consent, records, artifacts, generation, pin,
                  issued, killed>>)

Registers ==
    /\ \/ (\E r \in Registrations : Register(r)) /\ UNCHANGED <<tools, listing>>
       \/ (\E a \in AliasDefs : RegisterAlias(a)) /\ UNCHANGED <<tools, listing>>
       \/ (\E spec \in ToolSpecs : RegisterTool(spec)) /\ UNCHANGED registry
       \/ (\E raws \in Raws : Relist(raws)) /\ UNCHANGED registry
       \/ MarkStale /\ UNCHANGED registry
    /\ HostStep(hostVars)

(* The host records context, a large body through the artifact store. *)
AddRecord(k) ==
    LET stored == k.body.kind = "stored"
        body   == IF stored THEN Reference(artifacts.next + 1) ELSE k.body
    IN  /\ stored => StoreVerdict(artifacts, k.body.size) = "ok"
        /\ records' = Append(records, [k EXCEPT !.body = body] @@ [generation |-> generation])
        /\ artifacts' = IF stored THEN Stored(artifacts, k.body, generation) ELSE artifacts
        /\ issued' = IF stored THEN Append(issued, [content |-> k.body.content,
                                                    generation |-> generation])
                     ELSE issued
        /\ HostStep(<<registry, tools, listing, now, consent, toolGrants, generation, pin, killed>>)

Invalidate(ref) ==
    /\ EntryOf(artifacts, ref) # {}
    /\ artifacts' = Invalidated(artifacts, ref)
    /\ killed' = killed \cup {ref}
    /\ HostStep(<<registry, tools, listing, now, consent, toolGrants, records, generation, pin,
                  issued>>)

NewGeneration ==
    /\ generation' = generation + 1
    /\ HostStep(<<registry, tools, listing, now, consent, toolGrants, records, artifacts, pin,
                  issued, killed>>)

-----------------------------------------------------------------------------
EndpointInit ==
    /\ RegistryInit /\ HostToolsInit
    /\ now = 0 /\ consent = {} /\ toolGrants = {} /\ records = <<>> /\ artifacts = EmptyStore
    /\ generation = 1 /\ pin \in Pins /\ issued = <<>> /\ killed = {}
    /\ calls = [c \in Clients |-> <<>>] /\ last = NoReport

EndpointNext ==
    \/ \E c \in Clients, t \in Templates : Issue(c, t)
    \/ \E c \in Clients, entry \in {"dispatch", "dispatch_with", "dispatch_with_context",
                                    "dispatch_with_complete", "dispatch_with_tools"} :
         DispatchRead(c, entry)
    \/ \E c \in Clients, view \in Views, reply \in ProviderReplies : DispatchComplete(c, view, reply)
    \/ \E c \in Clients, args \in {t.args : t \in Templates}, reply \in ToolReplies :
         DispatchTool(c, args, reply)
    \/ \E c \in Clients : DispatchStrict(c)
    \/ Tick
    \/ \E c \in Clients, scope \in {"ai.read", "ai.invoke"}, live \in BOOLEAN :
         SetConsent(c, scope, live)
    \/ \E g \in ToolConsents, live \in BOOLEAN : SetToolConsent(g, live)
    \/ Registers
    \/ \E k \in RecordKinds : AddRecord(k)
    \/ \E ref \in 1..artifacts.next : Invalidate(ref)
    \/ NewGeneration
    \/ Take

EndpointSpec == EndpointInit /\ [][EndpointNext]_endpointVars

-----------------------------------------------------------------------------
(* A provider or an executor is contacted at most once a call and only when
   everything that admits the call still holds as it is dispatched, whatever
   changed since the client composed it: live consent for the method from this
   client, no deadline passed, and for a tool a registration, a live grant for
   the very scope it was registered with, a narrowing that names it, and the
   very arguments the client composed when it sent their digest. *)
ContactGated ==
    last.contacts > 0 =>
      /\ last.contacts = 1 /\ last.call.method \in InvokeMethods
      /\ "ai.invoke" \in GrantedTo(last.call.client)
      /\ \E g \in consent : g.client = last.call.client /\ g.scope = "ai.invoke" /\ now < g.expires
      /\ now < last.call.created + last.call.timeout
      /\ last.with.part = "provider" =>
           /\ last.with.view.provider = last.call.body.provider
           /\ last.with.view.echo = last.call.body.provider
           /\ now < last.call.at + last.call.body.timeout
      /\ last.with.part = "executor" =>
           /\ last.call.body.digest = ArgsDigest(last.call.args) => last.with.args = last.call.args
           /\ \E i \in DOMAIN tools, g \in toolGrants :
                /\ tools[i].name = last.call.body.tool /\ g.tool = tools[i].name
                /\ g.scope = tools[i].scope /\ last.call.at < g.expires
           /\ \A list \in last.call.body.allowed : last.call.body.tool \in list

(* A context answer is whole and true: the records of the generation asked for
   and of the scopes asked for, none missing, none added; and of each artifact
   one refers to, either its bytes are to be had and are those recorded, or the
   answer says why not, as the store's history has it. *)
AbsenceTrue(ref, gen, reason) ==
    CASE reason = "Expired"       -> ref \in DOMAIN issued /\ issued[ref].generation # gen /\ ref \notin killed
      [] reason = "Deleted"       -> ref \in killed
      [] reason = "Missing"       -> ref \in killed /\ Cardinality(killed) > MaxDeleted
      [] reason = "NeverRecorded" -> ref \notin DOMAIN issued

ReadTrue(call, answer) ==
    LET rs     == answer[1]
        absent == answer[2]
        gen    == call.generation
        asked  == {i \in DOMAIN records :
                     records[i].generation = gen /\ records[i].owner \in Range(call.body.scopes)}
    IN  /\ Len(rs) = Cardinality(asked)
        /\ \E place \in [DOMAIN rs -> asked] :
             /\ \A i, j \in DOMAIN rs : i < j => place[i] < place[j]
             /\ \A a \in asked : \E i \in DOMAIN rs : place[i] = a
             /\ \A i \in DOMAIN rs : rs[i] = records[place[i]]
        /\ \A i \in DOMAIN rs :
             IF i \in DOMAIN absent THEN AbsenceTrue(rs[i].body.ref, gen, absent[i])
             ELSE rs[i].body.kind = "artifact" =>
                    /\ rs[i].body.ref \notin killed
                    /\ Resolve(artifacts, rs[i].body.ref, gen) =
                         [error |-> "ok", content |-> issued[rs[i].body.ref].content]

ReadExact ==
    last.kind = "Ready" /\ last.call.method = "ai.context_read" => ReadTrue(last.call, last.answer)

(* After a contact nothing is told of that is not so: a tool's effect keeps
   its axis (what may have happened stays unknown, what succeeded is never
   failed or denied), and a provider's failure refuses with a class from which
   the client draws the directive ai.model_fallback would give it. *)
AdvanceClasses == {"Transport", "RateLimited", "Unavailable", "Timeout"}

AxisKept ==
    last.contacts > 0 =>
      /\ last.with.part = "executor" /\ last.kind = "Ready" =>
           last.answer[1].status = CASE last.with.reply.error = "ok" -> "success"
                                     [] last.with.reply.error = "EffectUnknown" -> "unknown"
                                     [] last.with.reply.error = "Denied" -> "denied"
                                     [] OTHER -> "failed"
      /\ last.with.part = "provider" =>
           IF last.kind = "Ready" THEN last.with.reply.error = "ok"
           ELSE last.with.reply.error # "ok" =>
                  ((last.error \in AdvanceClasses) <=> (FallbackDirective(last.with.reply.error) = "Advance"))

(* What a call is told is so: what it reads is whole and of the moment of the
   dispatch (ReadExact), and what it did is reported on its own axis
   (AxisKept). *)
AnswersTrue == ReadExact /\ AxisKept

(* A sighting the endpoint calls current is of the listing as it is: nothing
   was listed anew between the client's look at it and the dispatch.  The list
   version saturates, so this is said of the versions short of its last. *)
CurrentTrue(call, answer) ==
    CASE CheckCorrelator(call.seen, CorrelatorCurrent("ai.mcp_snapshot")) = "Current" ->
           answer[1].version < MaxTime =>
             DiffToolSnapshots(call.saw, answer[1].digests) = [added |-> {}, removed |-> {}, changed |-> {}]
      [] OTHER -> call.seen = {} \/ call.seen # {answer[1].version}

CurrentMeansUnchanged ==
    last.kind = "Ready" /\ last.call.method = "ai.mcp_snapshot" => CurrentTrue(last.call, last.answer)

=============================================================================
