----------------------------- MODULE HostMirrors ----------------------------
(***************************************************************************)
(* The host's own copies of runtime rules.  The host does not depend on    *)
(* the runtime, so it keeps the rules a second time:                       *)
(*                                                                         *)
(*   context_providers.rs   the artifact store, what a read of it answers, *)
(*                          the gates on layer texts                       *)
(*   tool_dispatch.rs       the ring of usage rows of the tool bus and its *)
(*                          registry (runtime/tool.rs), the dispatch       *)
(*                          envelope                                       *)
(*   cache_disclosure.rs    cache keys over canonical bytes and the hints  *)
(*                          that carry them; envelopes, secrets,           *)
(*                          fingerprints and writer leases                 *)
(*                                                                         *)
(* A copy and what it is a copy of are given the same calls.               *)
(***************************************************************************)
EXTENDS Disclosure

CONSTANTS KnownProviders, MaxSummary, MaxBody, Threshold, MaxRecords, MaxArtifacts, MaxArtifactBytes,
          MaxStoreBytes, MaxDeleted, DefaultBudget, BytesPerToken, RefBase, Decades,   \* of ContextStore
          ShelfSizes, Ages,   \* sizes of artifacts, generations of a session
          MaxStored,          \* bound: artifacts ever stored
          UsageRows,          \* usage rows a host threads
          BusSpecs,           \* declarations a host registers before the bus is built
          Lowercase, NameChars, MaxToolName,     \* the grammar of tool names
          MaxDescription, MaxSchema, MaxNative, MaxTools,
          BusCalls,           \* what is dispatched: tool and status
          MaxUsage,           \* MAX_USAGE_EVENTS
          MaxReason,          \* MAX_REASON_BYTES
          Visible,            \* printable characters
          MaxPushed,          \* bound: rows ever pushed
          UsageFilters,
          KeyPairs,           \* two inputs of a key: texts, route, and what was lost of the bytes
          BadRoutes,          \* provider and model ids outside their grammar
          MaxCanonical,       \* MAX_CANONICAL_BYTES
          Questions,          \* texts, records, calls and heaps put to the gates
          Digests, PrefixOf   \* full digests, and their first twelve digits

VARIABLES shelf,              \* the host's ArtifactStore
          twin,               \* the runtime's, after the same calls
          given,              \* history: what was stored under each reference
          busTools,           \* ToolRegistry of the bus
          busRing, hostRing,  \* the bus's ring and the host's
          pushed,             \* history: the rows pushed
          keyed,              \* {} or two inputs of a cache key
          judged              \* {} or what was put to a gate

mirrorVars == <<shelf, twin, given, busTools, busRing, hostRing, pushed, keyed, judged>>

Rt == INSTANCE ContextStore

-----------------------------------------------------------------------------
(* The artifact store.  A reference is the number of its artifact:// tail, 0
   for a tail that is no number, and whether the tail is the number as the
   store writes it. *)

EmptyShelf == [entries |-> <<>>, total |-> 0, next |-> 0, deleted |-> <<>>]

Minted(n) == [n |-> n, exact |-> TRUE]

Shelved(s, ref) == {i \in DOMAIN s.entries : s.entries[i].ref = ref}

IsDeleted(s, ref) == \E i \in DOMAIN s.deleted : s.deleted[i] = ref

(* absence_reason. *)
AbsenceReason(s, ref, age) ==
    IF Shelved(s, ref) # {}
    THEN IF s.entries[Min(Shelved(s, ref))].generation = age THEN "Available" ELSE "Expired"
    ELSE IF IsDeleted(s, ref) THEN "Deleted"
    ELSE IF ref.n # 0 /\ ref.n <= s.next THEN "Missing" ELSE "NeverRecorded"

ShelveVerdict(s, size) ==
    Verdict(<< <<size > MaxArtifactBytes, "ArtifactTooLarge">>,
               <<Len(s.entries) >= MaxArtifacts, "ArtifactStoreFull">>,
               <<s.total + size > MaxStoreBytes, "ArtifactStoreFull">> >>)

(* store: the running total grows with the entry. *)
Shelve(s, size, age) ==
    [s EXCEPT !.next = @ + 1, !.total = @ + size,
              !.entries = Append(@, [ref |-> Minted(s.next + 1), size |-> size, generation |-> age])]

(* resolve, written out beside absence_reason. *)
ShelfResolve(s, ref, age) ==
    LET found == {s.entries[i] : i \in Shelved(s, ref)} IN
    IF \E e \in found : e.generation # age THEN "ArtifactExpired"
    ELSE IF found # {} THEN "ok"
    ELSE IF IsDeleted(s, ref) THEN "ArtifactDeleted" ELSE "ArtifactUnavailable"

(* invalidate: once; a tombstone while there is room for one. *)
Unshelve(s, ref) ==
    LET at == Min(Shelved(s, ref)) IN
    [s EXCEPT !.entries = RemoveAt(@, at), !.total = @ - s.entries[at].size,
              !.deleted = IF ~IsDeleted(s, ref) /\ Len(@) < MaxDeleted THEN Append(@, ref) ELSE @]

(* ContextReadAbsence::to_error. *)
ToError(absence) ==
    CASE absence = "Available" -> "ok"
      [] absence \in {"NeverRecorded", "Missing"} -> "ArtifactUnavailable"
      [] absence = "Deleted" -> "ArtifactDeleted"
      [] absence = "Expired" -> "ArtifactExpired"

(* effective_budget_bytes: the bytes, lowered by the tokens. *)
HostBudget(request) ==
    LET bytesOr == IF request.bytes = {} THEN DefaultBudget ELSE CHOOSE b \in request.bytes : TRUE IN
    IF request.tokens = {} THEN bytesOr
    ELSE LET tokens == CHOOSE t \in request.tokens : TRUE IN
         IF tokens * BytesPerToken < bytesOr THEN tokens * BytesPerToken ELSE bytesOr

HostStore(size, age) ==
    /\ Len(given) < MaxStored
    /\ ShelveVerdict(shelf, size) = "ok"
    /\ shelf' = Shelve(shelf, size, age)
    /\ twin' = Rt!Stored(twin, [content |-> Len(given) + 1, size |-> size], age)
    /\ given' = Append(given, [size |-> size, generation |-> age, live |-> TRUE])
    /\ UNCHANGED <<busTools, busRing, hostRing, pushed, keyed, judged>>

HostInvalidate(n) ==
    /\ Shelved(shelf, Minted(n)) # {}
    /\ shelf' = Unshelve(shelf, Minted(n))
    /\ twin' = Rt!Invalidated(twin, n)
    /\ given' = [given EXCEPT ![n].live = FALSE]
    /\ UNCHANGED <<busTools, busRing, hostRing, pushed, keyed, judged>>

-----------------------------------------------------------------------------
(* The registry of the bus, filled before the bus is built over it.  A name is
   a sequence of characters, a description and a schema are their sizes. *)

(* validate_tool_name. *)
ValidateToolName(name) ==
    Len(name) \in 1..MaxToolName /\ name[1] \in Lowercase /\ \A i \in DOMAIN name : name[i] \in NameChars

(* validate_placement: native with its detail, mcp without one. *)
ValidatePlacement(spec) ==
    \/ spec.placement = {"mcp"} /\ spec.native = {}
    \/ spec.placement = {"native"} /\ \E d \in spec.native : d.reason \in 1..MaxNative /\ d.backend \in 1..MaxNative

(* ToolSpec::new, and again in register of a spec built without it. *)
SpecChecks(spec) ==
    << <<~ValidateToolName(spec.name), "InvalidName">>, <<spec.description > MaxDescription, "DescriptionTooLarge">>,
       <<spec.schema > MaxSchema, "SchemaTooLarge">>, <<~ValidatePlacement(spec), "UndeclaredPlacement">> >>

LookupTool(specs, name) == SelectSeq(specs, LAMBDA kept : kept.name = name)

(* ToolRegistry::register: the name taken first, the room last. *)
RegisterVerdict(specs, spec) ==
    Verdict(<< <<LookupTool(specs, spec.name) # <<>>, "DuplicateTool">> >> \o SpecChecks(spec)
            \o << <<Len(specs) >= MaxTools, "RegistryFull">> >>)

RegisterBusTool(spec) ==
    /\ pushed = <<>>
    /\ RegisterVerdict(busTools, spec) = "ok"
    /\ busTools' = Append(busTools, spec)
    /\ UNCHANGED <<shelf, twin, given, busRing, hostRing, pushed, keyed, judged>>

-----------------------------------------------------------------------------
(* The ring of usage rows.  A text is a sequence of characters; the name in a
   status is that of a refusal's cause. *)

(* bound_reason: cut, and a mark for what is not printable. *)
BoundText(text) ==
    [i \in 1..Min({Len(text), MaxReason}) |-> IF text[i] \in Visible THEN text[i] ELSE "?"]

(* A site label that is empty once bounded is no label. *)
BoundLabel(label) == {BoundText(text) : text \in label} \ {<<>>}

(* ToolError::normalized: the name and the reason of a refusal's cause. *)
NormalizedError(status) == [status EXCEPT !.name = BoundText(@), !.text = BoundText(@)]

(* ToolStatus::normalized: every text but success's, which has none. *)
NormalizedStatus(status) ==
    IF status.kind = "Refused" THEN NormalizedError(status) ELSE [status EXCEPT !.text = BoundText(@)]

(* push_usage of the bus. *)
BusRow(row) ==
    [row EXCEPT !.tool = BoundText(@), !.scope = BoundText(@), !.protocol = BoundText(@),
                !.status = NormalizedStatus(@), !.reason = BoundText(@),
                !.server = BoundLabel(@), !.task = BoundLabel(@)]

PushUsage(ring, row) == Append(IF Len(ring) >= MaxUsage THEN Tail(ring) ELSE ring, BusRow(row))

(* UsageRing::push of the host. *)
HostText(text) ==
    LET shown == [i \in DOMAIN text |-> IF text[i] \in Visible THEN text[i] ELSE "?"]
    IN  SubSeq(shown, 1, IF Len(shown) < MaxReason THEN Len(shown) ELSE MaxReason)

HostLabel(label) == {HostText(text) : text \in {t \in label : HostText(t) # <<>>}}

HostPush(ring, row) ==
    LET stored == [row EXCEPT !.tool = HostText(@), !.scope = HostText(@), !.protocol = HostText(@),
                              !.status = [@ EXCEPT !.name = HostText(@), !.text = HostText(@)], !.reason = HostText(@),
                              !.server = HostLabel(@), !.task = HostLabel(@)]
        all == ring \o <<stored>>
    IN  IF Len(ring) >= MaxUsage THEN Tail(all) ELSE all

(* UsageFilter::matches, of the bus and of the host: every field that is set. *)
Matches(filter, row) ==
    /\ \A field \in {"tool", "scope", "protocol", "instance", "session"} : filter[field] \in {{}, {row[field]}}
    /\ filter.placement \in {{}, row.placement}

HostMatches(filter, row) ==
    ~\/ \E field \in {"tool", "scope", "protocol", "instance", "session"} : \E v \in filter[field] : row[field] # v
     \/ \E p \in filter.placement : row.placement # {p}

FirstOf(s, limit) == SubSeq(s, 1, Min({limit, Len(s)}))

ListUsage(ring, filter, limit) == FirstOf(SelectSeq(ring, LAMBDA row : Matches(filter, row)), limit)

HostList(ring, filter, limit) == FirstOf(SelectSeq(ring, LAMBDA row : HostMatches(filter, row)), limit)

(* status_reason: of the status, bounded once before the push bounds it; a
   cause is written with its name. *)
StatusReason(status) ==
    CASE status.kind = "Success" -> <<>>
      [] status.kind = "Refused" -> BoundText(status.name \o status.text)
      [] OTHER -> BoundText(status.text)

(* observe_dispatch: scope and placement of the declaration, none of an
   unregistered tool; no site labels. *)
DispatchRow(call) ==
    LET spec == Head(LookupTool(busTools, call.tool) \o << [scope |-> <<>>, placement |-> {}] >>) IN
    [tool |-> call.tool, scope |-> spec.scope, protocol |-> call.protocol, instance |-> call.instance,
     session |-> call.session, placement |-> spec.placement, server |-> {}, task |-> {},
     status |-> NormalizedStatus(call.status), reason |-> StatusReason(NormalizedStatus(call.status))]

(* DispatchOutcome::new: the row is echoed as it is. *)
HostOutcome(status, row) ==
    [status |-> [status EXCEPT !.name = HostText(@), !.text = HostText(@)], reason |-> HostText(StatusReason(status)), usage |-> row]

UsageStep(row) ==
    /\ Len(pushed) < MaxPushed
    /\ busRing' = PushUsage(busRing, row)
    /\ hostRing' = HostPush(hostRing, row)
    /\ pushed' = Append(pushed, row)
    /\ UNCHANGED <<shelf, twin, given, busTools, keyed, judged>>

(* A dispatch records itself; a host threads rows of its own. *)
ObserveDispatch(call) == UsageStep(DispatchRow(call))

ThreadUsage(row) == UsageStep(row)

-----------------------------------------------------------------------------
(* Cache keys.  Canonical bytes are lines and header parts: "P" the magic line,
   "V" core-version:, "[" a layer's name "len=" digits "]" a section header,
   "E" the effective block.  A digest is the bytes it is of.  An option is a
   set of at most one. *)

StableLayers == <<"core-contract", "user", "project", "skills-profile">>

DigitValue == [d \in {"0", "1", "2", "3", "4", "5", "6", "7", "8", "9"} |->
                 CHOOSE n \in 0..9 : <<"0", "1", "2", "3", "4", "5", "6", "7", "8", "9">>[n + 1] = d]

After(s, n) == SubSeq(s, n + 1, Len(s))

StripPrefix(s, prefix) == IF FirstOf(s, Len(prefix)) = prefix THEN {After(s, Len(prefix))} ELSE {}

(* section_header_len: the declared length and what follows the header. *)
SectionHeaderLen(b, layer) ==
    UNION {LET ends == {i \in DOMAIN rest : rest[i] \notin DOMAIN DigitValue}
               digits == FirstOf(rest, Min(ends) - 1)
           IN  IF ends = {} \/ Min(ends) = 1 THEN {}
               ELSE {[len |-> FoldLeft(LAMBDA n, d : 10 * n + DigitValue[d], 0, digits), rest |-> r] :
                       r \in StripPrefix(After(rest, Len(digits)), <<"]">>)} :
           rest \in StripPrefix(b, <<"[", layer, "len=">>)}

(* strip_section: the declared length drives the skip. *)
StripSection(b, layer) ==
    UNION {IF h.len > Len(h.rest) THEN {} ELSE StripPrefix(After(h.rest, h.len), <<"LF">>) :
           h \in SectionHeaderLen(b, layer)}

(* stable_prefix_len: the four sections, then a runtime section and an
   effective block that must be there. *)
StablePrefixLen(canonical) ==
    LET versions == {After(c, Min({i \in DOMAIN c : c[i] = "LF"})) :
                       c \in {v \in StripPrefix(canonical, <<"P", "V">>) : \E i \in DOMAIN v : v[i] = "LF"}}
        cursors == FoldLeft(LAMBDA at, layer : UNION {StripSection(c, layer) : c \in at}, versions, StableLayers)
    IN  {Len(canonical) - Len(c) : c \in {d \in cursors : \E r \in StripSection(d, "runtime-turn") : StripPrefix(r, <<"E">>) # {}}}

(* CacheKey::new. *)
HostCacheKey(route, canonical) ==
    LET verdict == Verdict(<< <<route.provider \in BadRoutes, "InvalidProviderId">>,
                              <<route.model \in BadRoutes, "InvalidModelId">>,
                              <<canonical = <<>>, "EmptyCanonical">>,
                              <<Len(canonical) > MaxCanonical, "CanonicalTooLarge">>,
                              <<StablePrefixLen(canonical) = {}, "MissingStableMarker">> >>)
    IN  IF verdict # "ok" THEN [result |-> verdict]
        ELSE LET n == CHOOSE len \in StablePrefixLen(canonical) : TRUE IN
             [result |-> "ok", route |-> route, digest |-> FirstOf(canonical, n), len |-> n]

(* CacheHintRequest::validate and CacheHintResponse::check_echo. *)
HintVerdict(key, scope) == IF scope # key.route.scope THEN "ScopeMismatch" ELSE "ok"

CheckEcho(asked, answered) == IF asked # answered THEN "KeyMismatch" ELSE "ok"

(* AdmissionStub::decide: whatever was hit. *)
AdmissionDecide(key, hit) == [decision |-> "Deny", key |-> key]

(* External: prompt::render_canonical, as the host is handed it. *)
Numeral(n) == CHOOSE d \in DOMAIN DigitValue : DigitValue[d] = n
Section(layer, text) == <<"[", layer, "len=", Numeral(Len(text)), "]">> \o text \o <<"LF">>
StablePart(texts) == Joined(<< <<"P", "V", "v", "LF">> >> \o [i \in 1..4 |-> Section(StableLayers[i], texts[i])])
Rendered(texts) == StablePart(texts) \o Section("runtime-turn", texts[5]) \o <<"E">>

(* External: bytes that reach the host with one part lost, or replaced. *)
Damaged(x) ==
    LET whole == Rendered(x.texts) IN
    IF x.lost = 0 THEN whole
    ELSE IF x.by = {} THEN RemoveAt(whole, x.lost)
    ELSE [whole EXCEPT ![x.lost] = CHOOSE b \in x.by : TRUE]

KeyOf(x) == HostCacheKey(x.route, Damaged(x))

AskTwice(x, y) ==
    /\ keyed' = {[x |-> x, y |-> y]}
    /\ UNCHANGED <<shelf, twin, given, busTools, busRing, hostRing, pushed, judged>>

-----------------------------------------------------------------------------
(* The gates.  A layer's text is a sequence of words: "marker" is
   project-snapshot/1, "open", "close" and "fence" are the other untrusted
   markers, "cut p" carries the first digits of a digest, "full d" all of them. *)

UntrustedMarkers == {"marker", "open", "close", "fence"}

ContainsUntrusted(text) == \E i \in DOMAIN text : text[i].word \in UntrustedMarkers

ValidateZone1Text(text) == IF ContainsUntrusted(text) THEN "UntrustedInZone1" ELSE "ok"

IsVerifiedProjectText(text) == text # <<>> /\ text[1].word = "marker"

(* validate_pinned_layer_trust: the project layer may begin with the marker of
   a snapshot, the runtime layer takes anything. *)
ValidatePinnedLayerTrust(layer, text) ==
    LET pinned == IF layer = "project" /\ IsVerifiedProjectText(text) THEN Tail(text) ELSE text IN
    IF layer # "runtime-turn" /\ ContainsUntrusted(pinned) THEN "InvalidLayerText" ELSE "ok"

Word(word, digest) == [word |-> word, digest |-> digest]

ProjectLayerText(summary, d) == <<Word("marker", 0)>> \o summary \o <<Word("full", d)>>

(* contains("digest " and the first digits): a full digest shows them too. *)
ShowsPrefix(word, p) == word.word \in {"cut", "full"} /\ PrefixOf[word.digest] = p

(* project_layer_binds_digest. *)
BindsDigest(text, d) ==
    /\ IsVerifiedProjectText(text) /\ Cardinality({i \in DOMAIN text : text[i].word = "marker"}) = 1
    /\ Last(text) = Word("full", d)
    /\ \E i \in 1..Len(text) - 1 : ShowsPrefix(text[i], PrefixOf[d])

(* to_prompt_string: an untrusted tail behind a fence that declares its length. *)
ToPromptString(z) ==
    LET line(zone) == IF zone = <<>> THEN <<>> ELSE zone \o <<Word("LF", 0)>> IN
    line(z.one) \o line(z.two)
      \o (IF z.three = <<>> THEN <<>> ELSE <<Word("open", Len(z.three))>> \o z.three \o <<Word("close", 0)>>)

(* ContextRecord::validate and footprint_bytes. *)
HostRecordVerdict(r) ==
    IF r.provider \notin KnownProviders THEN "UnknownProvider"
    ELSE IF r.sumLen > MaxSummary THEN "SummaryTooLarge"
    ELSE IF r.body.kind = "inline" /\ r.body.size > MaxBody THEN "BodyTooLarge" ELSE "ok"

HostFootprint(r) == r.sumLen + (IF r.body.kind = "inline" THEN r.body.size ELSE Rt!RefLen(r.body.ref))

(* ContextReadRequest::validate and ContextReadResponse::validate. *)
ReadRequestVerdict(scopes) ==
    Verdict(<< <<scopes = 0, "EmptyScopes">>, <<scopes > MaxRecords, "TooManyScopes">> >>)

ReadResponseVerdict(records, absences) ==
    Verdict(<< <<records > MaxRecords, "TooManyRecords">>, <<absences > MaxArtifacts, "TooManyAbsences">> >>)

(* check_dispatch, of the view of an assembled prompt and of the bare sets. *)
ViewDispatch(view, tool, grants) ==
    IF ~grants THEN "DispatcherDenied"
    ELSE IF tool \in view.denied THEN "PromptDenied"
    ELSE IF \E list \in view.allowed : tool \notin list THEN "PromptNotAllowed" ELSE "ok"

HostCheckDispatch(allowed, denied, tool, grants) ==
    Verdict(<< <<~grants, "DispatcherDenied">>, <<tool \in denied, "PromptDenied">>,
               <<allowed # {} /\ tool \notin UNION allowed, "PromptNotAllowed">> >>)

(* InputCaptureOptIn: closed, then what with_clipboard and with_raw_env set. *)
OptIn(settings) ==
    FoldLeft(LAMBDA in, set : IF set.allow THEN in \cup {set.of} ELSE in \ {set.of}, {}, settings)

AdmitCapture(optedIn, of) == IF of \in optedIn THEN "ok" ELSE "ConsentRequired"

(* The retention and placement stubs refuse whatever they are offered. *)
RetainVerdict(r) == "ConsentRequired"
WriteDurableVerdict(r) == "DurableGated"
RoutePlacement(tool, placement) == "Denied"

(* bound_gc_preview: checkpoints first. *)
GcPreview(unreachable, unreferenced, max) ==
    LET total == unreachable + unreferenced
        budget == Min({max, total})
        checkpoints == Min({unreachable, budget})
    IN  [checkpoints |-> checkpoints, blobs |-> budget - checkpoints, truncated |-> total > budget]

Judge(q) ==
    /\ judged' = {q}
    /\ UNCHANGED <<shelf, twin, given, busTools, busRing, hostRing, pushed, keyed>>

-----------------------------------------------------------------------------
(* The copies of Disclosure's readers, as the host's cursors walk them, and of
   check_writer. *)

(* from_bytes: three fields, the first fault deciding, nothing behind them. *)
HostFromBytes(b) ==
    LET caps == <<[cap |-> MaxId, over |-> "IdTooLarge"], [cap |-> MaxKind, over |-> "KindTooLarge"],
                  [cap |-> MaxText, over |-> "TextTooLarge"]>>
        field(at) == SubSeq(b, at + 1, at + b[at])
        take(s, f) ==
          IF s.error # "ok" THEN s
          ELSE IF s.at > Len(b) THEN [s EXCEPT !.error = "Malformed"]
          ELSE IF b[s.at] > f.cap THEN [s EXCEPT !.error = f.over]
          ELSE IF s.at + b[s.at] > Len(b) \/ ~AsText(field(s.at)) THEN [s EXCEPT !.error = "Malformed"]
          ELSE [s EXCEPT !.at = s.at + b[s.at] + 1, !.got = Append(@, field(s.at))]
        start == [at |-> 2, got |-> <<>>, error |-> IF FirstOf(b, 1) = <<Magic>> THEN "ok" ELSE "Malformed"]
        end == FoldLeft(take, start, caps)
    IN  IF end.error # "ok" THEN [NotEnvelope EXCEPT !.result = end.error]
        ELSE IF end.at <= Len(b) THEN NotEnvelope
        ELSE [result |-> "ok", id |-> end.got[1], kind |-> end.got[2], text |-> end.got[3]]

(* scrub_text counts on behind the cap, and keeps nothing there. *)
HostFallbackFor(b) ==
    LET show(s, i) ==
          IF b[i] \in Illegible /\ i > 1 /\ b[i - 1] \in Illegible THEN s
          ELSE [count |-> s.count + 1,
                text |-> IF s.count >= MaxText THEN s.text ELSE Append(s.text, IF b[i] \in Printable THEN b[i] ELSE Mark)]
        end == FoldLeft(show, [count |-> 0, text |-> <<>>], [i \in DOMAIN b |-> i])
    IN  IF end.count > MaxText THEN [NotEnvelope EXCEPT !.result = "TextTooLarge"]
        ELSE [result |-> "ok", id |-> FallbackId, kind |-> FallbackKind, text |-> end.text]

HostIsAbsentFrom(needle, text) ==
    \A i \in 0..Len(text) - Len(needle) : SubSeq(text, i + 1, i + Len(needle)) # needle

(* scrub_from: by index; bytes that are no text any more are all redacted. *)
HostScrubFrom(needle, text) ==
    LET n == Len(needle)
        out[i \in 1..Len(text) + n] ==
          IF i > Len(text) THEN <<>>
          ELSE IF Len(text) - i + 1 >= n /\ SubSeq(text, i, i + n - 1) = needle THEN Redacted \o out[i + n]
          ELSE <<text[i]>> \o out[i + 1]
    IN  IF Utf8(out[1]) THEN out[1] ELSE Redacted

(* new and of_components: an unknown one refuses, then the absence of any byte. *)
HostFingerprint(x) ==
    LET known == \A i \in DOMAIN x.parts : x.parts[i] # {}
        part(i) == CHOOSE b \in x.parts[i] : TRUE
        total == FoldLeft(LAMBDA n, i : n + Len(part(i)), 0, [i \in DOMAIN x.parts |-> i])
        framed == FoldLeft(LAMBDA b, i : b \o (IF x.whole THEN <<>> ELSE <<Len(part(i))>>) \o part(i), <<>>, [i \in DOMAIN x.parts |-> i])
    IN  IF ~known \/ total = 0 THEN {} ELSE {[digest |-> framed, len |-> total]}

(* check_writer over a plain state, generation and epoch. *)
HostCheckWriter(lease, sessionState, current, supervisor) ==
    Verdict(<< <<sessionState # "active", "AlreadyTerminated">>, <<lease.generation # current, "StaleGeneration">>,
               <<lease.epoch # supervisor, "StaleEpoch">> >>)

-----------------------------------------------------------------------------
MirrorInit ==
    /\ shelf = EmptyShelf /\ twin = Rt!EmptyStore /\ given = <<>>
    /\ busTools = <<>> /\ busRing = <<>> /\ hostRing = <<>> /\ pushed = <<>> /\ keyed = {} /\ judged = {}

(* One of the four in a behaviour: they share no state. *)
MirrorNext ==
    \/ busTools = <<>> /\ pushed = <<>> /\ keyed = {} /\ judged = {} /\ \E size \in ShelfSizes, age \in Ages : HostStore(size, age)
    \/ \E n \in DOMAIN given : HostInvalidate(n)
    \/ given = <<>> /\ keyed = {} /\ judged = {} /\ \E spec \in BusSpecs : RegisterBusTool(spec)
    \/ given = <<>> /\ keyed = {} /\ judged = {} /\ \E call \in BusCalls : ObserveDispatch(call)
    \/ given = <<>> /\ keyed = {} /\ judged = {} /\ \E row \in UsageRows : ThreadUsage(row)
    \/ given = <<>> /\ busTools = <<>> /\ pushed = <<>> /\ keyed = {} /\ judged = {} /\ \E pair \in KeyPairs : AskTwice(pair[1], pair[2])
    \/ given = <<>> /\ busTools = <<>> /\ pushed = <<>> /\ keyed = {} /\ judged = {} /\ \E q \in Questions : Judge(q)

-----------------------------------------------------------------------------
(* The host's artifact store is the runtime's after any calls: the same
   verdict on the next artifact, the same absence of every reference.  Its
   running total is the bytes it holds.  A reference resolves exactly at the
   generation it was stored at and until it is invalidated, whatever numeral
   it is spelled with; resolve and the absence a read answers are one reason;
   an invalidated reference loses its reason only when the tombstones are
   full.  A read of all that is held fits its envelope. *)
ShelfExact ==
    /\ shelf.total = FoldLeft(LAMBDA n, e : n + e.size, 0, shelf.entries)
    /\ shelf.next = twin.next /\ {Minted(n) : n \in twin.deleted} = Range(shelf.deleted)
    /\ [i \in DOMAIN shelf.entries |-> [shelf.entries[i] EXCEPT !.ref = @.n]]
         = [i \in DOMAIN twin.entries |-> [ref |-> twin.entries[i].ref, size |-> twin.entries[i].size,
                                           generation |-> twin.entries[i].generation]]
    /\ \A size \in ShelfSizes : ShelveVerdict(shelf, size) = Rt!StoreVerdict(twin, size)
    /\ ReadResponseVerdict(0, Len(shelf.entries)) = "ok"
    /\ \A n \in 0..MaxStored + 1, exact \in BOOLEAN, age \in Ages :
         LET ref == [n |-> n, exact |-> exact]
             absence == AbsenceReason(shelf, ref, age)
         IN  /\ ToError(absence) = ShelfResolve(shelf, ref, age)
             /\ exact => absence = Rt!Absence(twin, n, age)
             /\ absence = "Available" <=> exact /\ n \in DOMAIN given /\ given[n].live /\ given[n].generation = age
             /\ absence = "Missing" /\ exact => ~given[n].live /\ Len(shelf.deleted) = MaxDeleted

(* Both rings hold the last rows pushed, oldest first, each bounded; a listing
   is the first of them that match, in both; what a ring holds would be held
   unchanged if it were pushed again; an outcome carries the status and the
   reason of its row.  A tool has one declaration, placed, for as long as the
   bus lives; a dispatch is recorded with the scope and the placement of that
   one, and with none of a tool that has none; the registry takes whatever
   the constructor of a declaration takes, until it is full or the name is
   taken. *)
RingsExact ==
    LET first == Max({1, Len(pushed) - MaxUsage + 1})
        kept == [i \in 1..Len(pushed) - first + 1 |-> BusRow(pushed[first + i - 1])]
    IN  /\ busRing = kept /\ hostRing = kept
        /\ \A row \in Range(hostRing) :
             /\ BusRow(row) = row
             /\ \A text \in {row.tool, row.scope, row.protocol, row.reason, row.status.text} \cup row.server \cup row.task :
                  Len(text) <= MaxReason /\ \A i \in DOMAIN text : text[i] \in Visible \cup {"?"}
             /\ <<>> \notin row.server \cup row.task
             /\ row.reason = StatusReason(row.status) => HostOutcome(row.status, row).reason = row.reason
        /\ \A filter \in UsageFilters, limit \in 0..MaxUsage :
             LET rows == ListUsage(busRing, filter, limit)
                 fits == {i \in DOMAIN kept : HostMatches(filter, kept[i])}
             IN  /\ rows = HostList(hostRing, filter, limit)
                 /\ Len(rows) = Min({limit, Cardinality(fits)})
                 /\ \A k \in DOMAIN rows : \E i \in fits : rows[k] = kept[i] /\ Cardinality({j \in fits : j <= i}) = k
        /\ Len(busTools) <= MaxTools
        /\ \A spec \in Range(busTools) : spec.placement # {} /\ (spec.placement = {"native"} <=> spec.native # {})
        /\ \A spec \in BusSpecs :
             RegisterVerdict(busTools, spec) = "ok" <=>
               Verdict(SpecChecks(spec)) = "ok" /\ Len(busTools) < MaxTools /\ \A i \in DOMAIN busTools : busTools[i].name # spec.name
        /\ \A call \in BusCalls :
             LET own == {i \in DOMAIN busTools : busTools[i].name = call.tool}
                 row == BusRow(DispatchRow(call))
             IN  /\ Cardinality(own) <= 1
                 /\ own = {} => row.scope = <<>> /\ row.placement = {}
                 /\ \A i \in own : row.placement # {} /\ row.placement = busTools[i].placement /\ row.scope = BoundText(busTools[i].scope)
                 /\ row.status.kind # "Success" => row.reason = BoundText((IF row.status.kind = "Refused" THEN row.status.name ELSE <<>>) \o row.status.text)

(* Two prompts have one key exactly when their route and all four stable
   layers are the same, whatever headers their texts spell out; a part of the
   stable bytes lost or replaced is refused or has another key; a hint asked
   with one and answered with the other passes for that one key only, and is
   never admitted. *)
KeysExact ==
    \A k \in keyed :
        LET a == KeyOf(k.x)
            b == KeyOf(k.y)
            stable(x) == [i \in 1..4 |-> x.texts[i]]
        IN  /\ \A x \in {k.x, k.y} : x.lost = 0 /\ {x.route.provider, x.route.model} \cap BadRoutes = {} /\ Len(Rendered(x.texts)) <= MaxCanonical =>
                 KeyOf(x).result = "ok" /\ KeyOf(x).digest = StablePart(x.texts) /\ HintVerdict(KeyOf(x), x.route.scope) = "ok"
            /\ a.result = "ok" /\ b.result = "ok" /\ k.x.lost = 0 /\ k.y.lost = 0 =>
                 (a = b <=> k.x.route = k.y.route /\ stable(k.x) = stable(k.y))
            /\ a.result = "ok" /\ b.result = "ok" /\ k.x.lost = 0 /\ k.y.texts = k.x.texts
                 /\ k.y.lost \in 1..Len(StablePart(k.y.texts)) /\ Damaged(k.y) # Damaged(k.x) => a # b
            /\ CheckEcho(a, b) = "ok" <=> a = b
            /\ \A hit \in BOOLEAN : AdmissionDecide(a, hit).decision = "Deny"

(* A project layer text binds one digest at most, and every text made from a
   summary that shows its digest binds it; a text that binds passes the
   project layer when nothing untrusted follows its marker, and no other
   pinned layer.  A fenced tail is cut out by its declared length, whatever
   fences it spells.  A record, a budget and a call have one verdict in both
   copies; the prompt never grants; a captured input is admitted by the last
   word on its own kind; a sound record is still neither retained nor made
   durable.  Batches of a collection delete
   checkpoints first, and leave garbage exactly when they say so. *)
GatesExact ==
    \A q \in judged :
        CASE q.kind = "text" ->
               /\ \A d, e \in Digests : BindsDigest(q.text, d) /\ BindsDigest(q.text, e) => d = e
               /\ \A d \in Digests :
                    BindsDigest(ProjectLayerText(q.text, d), d) <=>
                      (\E i \in DOMAIN q.text : ShowsPrefix(q.text[i], PrefixOf[d])) /\ \A i \in DOMAIN q.text : q.text[i].word # "marker"
               /\ \A layer \in Range(StableLayers) : ValidatePinnedLayerTrust(layer, q.text) = "ok" =>
                    \/ ValidateZone1Text(q.text) = "ok"
                    \/ layer = "project" /\ IsVerifiedProjectText(q.text) /\ ~ContainsUntrusted(Tail(q.text))
               /\ ValidatePinnedLayerTrust("runtime-turn", q.text) = "ok"
          [] q.kind = "zones" ->
               LET prompt == ToPromptString(q)
                   opens == {i \in DOMAIN prompt : prompt[i].word = "open"}
               IN  ValidateZone1Text(q.one \o q.two) = "ok" /\ q.three # <<>> =>
                     /\ SubSeq(prompt, Min(opens) + 1, Min(opens) + prompt[Min(opens)].digest) = q.three
                     /\ Min(opens) + prompt[Min(opens)].digest + 1 = Len(prompt)
          [] q.kind = "record" ->
               /\ HostRecordVerdict(q.record) = Rt!RecordVerdict(q.record)
               /\ HostFootprint(q.record) = Rt!Footprint(q.record)
               /\ HostBudget(q.request) = Rt!EffectiveBudget(q.request)
               /\ ReadRequestVerdict(q.scopes) = "ok" => ReadResponseVerdict(q.scopes, 0) = "ok"
               /\ HostRecordVerdict(q.record) = "ok" => RetainVerdict(q.record) # "ok" /\ WriteDurableVerdict(q.record) # "ok"
          [] q.kind = "call" ->
               /\ ViewDispatch(q, q.tool, q.grants) = HostCheckDispatch(q.allowed, q.denied, q.tool, q.grants)
               /\ ViewDispatch(q, q.tool, q.grants) = "ok" => q.grants /\ RoutePlacement(q.tool, "mcp") = "Denied"
          [] q.kind = "capture" ->
               \A of \in {"clipboard", "raw_env"} :
                 LET of_it == {i \in DOMAIN q.settings : q.settings[i].of = of} IN
                 AdmitCapture(OptIn(q.settings), of) = "ok" <=> of_it # {} /\ q.settings[Max(of_it)].allow
          [] q.kind = "heap" ->
               LET p == GcPreview(q.unreachable, q.unreferenced, q.max) IN
               /\ p.checkpoints <= q.unreachable /\ p.blobs <= q.unreferenced /\ p.checkpoints + p.blobs <= q.max
               /\ p.blobs > 0 => p.checkpoints = q.unreachable
               /\ p.truncated <=> p.checkpoints + p.blobs < q.unreachable + q.unreferenced
               /\ p.truncated => p.checkpoints + p.blobs = q.max

(* The host reads an envelope, falls back, scrubs a secret and compares two
   inputs as the runtime does. *)
CopiesAgree ==
    /\ \A o \in opened : HostFromBytes(bytes) = o.read /\ HostFallbackFor(bytes) = o.fallback
    /\ \A s \in scrubbed :
         /\ HostScrubFrom(s.needle, s.text) = s.out
         /\ HostIsAbsentFrom(s.needle, s.text) <=> IsAbsentFrom(s.needle, s.text)
    /\ \A c \in compared :
         c.reuse <=> HostFingerprint(c.x) # {} /\ HostFingerprint(c.x) = HostFingerprint(c.y)
=============================================================================
