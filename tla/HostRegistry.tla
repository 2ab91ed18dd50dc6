---------------------------- MODULE HostRegistry ----------------------------
(***************************************************************************)
(* The host's side of model selection (host/provider_registry.rs and       *)
(* host/model_selection.rs): its own copy of the registry rules, which     *)
(* must decide as the runtime's do, and the caller-scope filters over it,  *)
(* which may narrow what a caller sees and never widen it.                 *)
(*                                                                         *)
(* The host reads the runtime's entries; its only state of its own is the  *)
(* table of scope grants.                                                  *)
(***************************************************************************)
EXTENDS ProviderRegistry

CONSTANTS Requests,        \* the selection requests callers make
          GrantDefs,       \* the grants an operator writes
          Scopes,          \* caller scopes a policy grants and an echo names
          MaxGrants,       \* MAX_SCOPED_MODELS
          MaxScopesPer,    \* MAX_SCOPES_PER_MODEL
          MaxEcho,         \* MAX_CALLER_SCOPES
          MaxScopeLen,     \* MAX_CALLER_SCOPE_LEN
          MaxWireId,       \* MAX_PROVIDER_ID_LEN, MAX_MODEL_NAME_LEN
          MaxReason,       \* MAX_IPC_REASON_BYTES
          PrefixLen        \* length of "provider/"

VARIABLE grants            \* ScopePolicy::grants, in grant order

-----------------------------------------------------------------------------
(* The host's copy of the registry rules. *)

HostGoodName(n) == ~(n \in Misspelt)

HostGoodProvider(p) == ~(p \in Misspelt) /\ IdLen(p) > 0 /\ IdLen(p) <= MaxIdLen

HostSame(kept, r) ==
    /\ kept.caps = r.caps /\ kept.window = r.window
    /\ kept.inw = r.inw /\ kept.outw = r.outw

HostLookup(ms, p, n) == {e \in Range(ms) : e.provider = p /\ e.name = n}

HostRegisterVerdict(ms, r) ==
    LET kept == HostLookup(ms, r.provider, r.name)
    IN  IF kept # {} THEN IF \E e \in kept : HostSame(e, r)
                          THEN "DuplicateModel" ELSE "ConflictingModel"
        ELSE Verdict(<< <<~HostGoodProvider(r.provider), "InvalidProviderId">>,
                        <<~HostGoodName(r.name), "InvalidName">>,
                        <<r.caps = <<>>, "NoCapabilities">>,
                        <<Len(ms) >= MaxModels, "RegistryFull">> >>)

HostAliasVerdict(as, a) ==
    LET bad == {i \in DOMAIN a.candidates : \/ ~HostGoodProvider(a.candidates[i].provider)
                                            \/ ~HostGoodName(a.candidates[i].model)}
    IN  IF a.alias \in {as[i].alias : i \in DOMAIN as} THEN "DuplicateAlias"
        ELSE IF ~HostGoodName(a.alias) THEN "InvalidName"
        ELSE IF Len(a.candidates) = 0 THEN "EmptyAlias"
        ELSE IF Len(a.candidates) > MaxCandidates THEN "TooManyCandidates"
        ELSE IF bad # {} THEN IF HostGoodProvider(a.candidates[Min(bad)].provider)
                              THEN "InvalidName" ELSE "InvalidProviderId"
        ELSE IF Len(as) >= MaxAliases THEN "AliasesFull" ELSE "ok"

\* Mutant: an unset weight stays zero.
HostRawWeight(w) == w

HostEffectiveWeight(w) == IF w > 0 THEN w ELSE 1

HostMatches(req, e) ==
    /\ \A i \in DOMAIN req.required : \E j \in DOMAIN e.caps : e.caps[j] = req.required[i]
    /\ ~\E min \in req.window : e.window < min
    /\ ~\E max \in req.cost : \/ HostEffectiveWeight(e.inw) > max
                              \/ HostEffectiveWeight(e.outw) > max

HostEntries(ms) == SetToSortSeq(Range(ms), Before)

HostResolve(as, name) == {a \in Range(as) : a.alias = name}

HostPool(ms, as, req) ==
    IF req.alias = {} THEN HostEntries(ms)
    ELSE LET declared == (CHOOSE a \in HostResolve(as, CHOOSE n \in req.alias : TRUE) : TRUE).candidates
         IN  FlattenSeq([i \in DOMAIN declared |->
                SetToSeq(HostLookup(ms, declared[i].provider, declared[i].model))])

HostSelect(ms, as, req) ==
    IF req.required = <<>> THEN Refusal("EmptyRequirement")
    ELSE IF \E n \in req.alias : HostResolve(as, n) = {} THEN Refusal("UnknownAlias")
    ELSE Chosen(SelectSeq(HostPool(ms, as, req), LAMBDA e : HostMatches(req, e)))

HostEstimateCost(inTokens, outTokens, inw, outw) ==
    LET cap(n) == IF n < MaxCost THEN n ELSE MaxCost
    IN  cap(cap(inTokens * HostEffectiveWeight(inw)) + cap(outTokens * HostEffectiveWeight(outw)))

HostFallbackDirective(error) ==
    IF error \in ProviderErrors \ {"Transport", "RateLimited", "ModelUnavailable", "Timeout"}
    THEN "Stop" ELSE "Advance"

(* An error that crosses the wire (ProviderIpcError): its identifiers are cut
   at the last character boundary inside their bound, its reason loses every
   character outside printable ASCII and is cut at the byte bound. A text is a
   sequence of character widths. *)
Width(t) == FoldSeq(+, 0, t)

TruncateToBound(t, limit) ==
    SubSeq(t, 1, Max({n \in 0..Len(t) : Width(SubSeq(t, 1, n)) <= limit}))

ScrubReason(t) ==
    [i \in 1..(IF Len(t) < MaxReason THEN Len(t) ELSE MaxReason) |-> 1]

(* An error on the wire: its kind, the id it names, and what may be told. *)
ProviderIpcError(kind, id, reason) == [kind |-> kind, id |-> id, reason |-> reason]

FromError(e) == ProviderIpcError(e.kind, TruncateToBound(e.id, MaxWireId), ScrubReason(e.reason))

IntoError(w) == [kind |-> w.kind, id |-> w.id, reason |-> w.reason]

(* list_models: the reserved caller scope is always denied; the snapshot is
   the table in lexicographic order, refused past its count bound. *)
ListModels(ms, scoped) ==
    IF scoped THEN Refusal("ReservedScopeDenied")
    ELSE IF Len(ms) > MaxModels THEN Refusal("TooManyModels")
    ELSE [error |-> "ok", chain |-> HostEntries(ms)]

-----------------------------------------------------------------------------
(* Caller scopes. *)

(* A scope string: provider/<id>, or another well-formed prefix. *)
ScopeOf(p) == [prefix |-> "provider", of |-> p]

ValidCallerScope(s) ==
    /\ s.of \notin Misspelt
    /\ (IF s.prefix = "provider" THEN PrefixLen ELSE 1) + IdLen(s.of) <= MaxScopeLen

ListModelsFiltered(ms, s) ==
    IF ~ValidCallerScope(s) THEN Refusal("InvalidScope")
    ELSE IF s.prefix # "provider" \/ ~HostGoodProvider(s.of) THEN Refusal("UnknownScope")
    ELSE LET view == SelectSeq(HostEntries(ms), LAMBDA e : e.provider = s.of)
         IN  [error |-> IF view = <<>> THEN "UnknownScope" ELSE "ok", chain |-> view]

GrantVerdict(gs, g) ==
    LET kept == SelectSeq(gs, LAMBDA k : k.provider = g.provider /\ k.model = g.model)
    IN  Verdict(<< <<~HostGoodProvider(g.provider), "InvalidProviderId">>,
                   <<~HostGoodName(g.model), "InvalidName">>,
                   <<kept # <<>> /\ kept[1].scopes = g.scopes, "DuplicateModel">>,
                   <<kept # <<>>, "ConflictingModel">>,
                   <<Len(g.scopes) > MaxScopesPer, "TooManyCandidates">>,
                   <<Len(gs) >= MaxGrants, "RegistryFull">> >>)

Grant(g) ==
    /\ GrantVerdict(grants, g) = "ok"
    /\ grants' = Append(grants, g)

IsVisible(gs, e, echo) ==
    \/ echo = {}
    \/ \E i \in DOMAIN gs : /\ gs[i].provider = e.provider /\ gs[i].model = e.name
                            /\ echo \subseteq Range(gs[i].scopes)

SelectFiltered(ms, as, req, echo, gs) ==
    IF req.required = <<>> THEN Refusal("EmptyRequirement")
    ELSE IF Cardinality(echo) > MaxEcho THEN Refusal("TooManyCandidates")
    ELSE IF \E n \in req.alias : HostResolve(as, n) = {} THEN Refusal("UnknownAlias")
    ELSE Chosen(SelectSeq(HostPool(ms, as, req),
                          LAMBDA e : HostMatches(req, e) /\ IsVisible(gs, e, echo)))

HostInit == RegistryInit /\ grants = <<>>

HostNext ==
    \/ (\E r \in Registrations : Register(r)) /\ UNCHANGED grants
    \/ (\E a \in AliasDefs : RegisterAlias(a)) /\ UNCHANGED grants
    \/ NewRegistry /\ UNCHANGED grants
    \/ (\E g \in GrantDefs : Grant(g)) /\ UNCHANGED registry

-----------------------------------------------------------------------------
(* The two copies of the rules decide alike: every verdict, every chain, every
   cost (past the u64 ceiling too) and every fallback directive the host
   computes is the runtime's, on every registry the calls can build; and an
   error keeps its directive however often it crosses the wire, its texts cut
   at the first crossing and never again. *)
HostMirrorsRuntime ==
    /\ \A r \in Registrations :
         /\ HostRegisterVerdict(models, r) = RegisterVerdict(models, r)
         /\ RegisterVerdict(models, r) \in {"ok"} \cup SelectionErrors
    /\ \A a \in AliasDefs : HostAliasVerdict(aliases, a) = AliasVerdict(aliases, a)
    /\ \A req \in Requests : HostSelect(models, aliases, req) = Select(models, aliases, req)
    /\ ListModels(models, FALSE).chain = Entries(models)
    /\ \A i \in DOMAIN models : \A n, k \in {0, 1, MaxCost} :
         HostEstimateCost(n, k, models[i].inw, models[i].outw)
         = EstimateCost(n, k, models[i].inw, models[i].outw)
    /\ \A error \in ProviderErrors, id, reason \in {<<>>, <<1, 2, 1>>, <<2, 2>>} :
         LET sent == [kind |-> error, id |-> id, reason |-> reason]
             received == IntoError(FromError(sent))
         IN  /\ HostFallbackDirective(received.kind) = FallbackDirective(error)
             /\ Width(received.id) <= MaxWireId /\ Width(received.reason) <= MaxReason
             /\ IntoError(FromError(received)) = received

(* A scope filter only narrows, and hides: a filtered chain is what the plain
   selection gives over the visible entries alone, so a hidden model changes
   neither the answer nor the refusal, and with no scope named nothing is
   hidden; and naming one more scope never shows more. *)
FilterHides ==
    \A req \in Requests, echo \in {x \in SUBSET Scopes : Cardinality(x) <= MaxEcho} :
      LET seen == SelectFiltered(models, aliases, req, echo, grants)
      IN  /\ seen = Select(SelectSeq(models, LAMBDA e : IsVisible(grants, e, echo)), aliases, req)
          /\ echo # {} =>
               \A s \in echo :
                 Range(seen.chain) \subseteq
                   Range(SelectFiltered(models, aliases, req, echo \ {s}, grants).chain)

(* The listings a caller asks for scope by scope are together the whole one:
   each registered provider's models, in order, are answered under its own
   scope and under no other, save where the provider's id leaves its scope no
   room. *)
ScopedListingsCover ==
    LET scoped(p) == ListModelsFiltered(models, ScopeOf(p))
        registered == {models[i].provider : i \in DOMAIN models}
        named == {p \in registered : scoped(p).error = "ok"}
    IN  /\ FlattenSeq([i \in 1..Cardinality(named) |-> scoped(SetToSortSeq(named, <)[i]).chain])
            = SelectSeq(ListModels(models, FALSE).chain, LAMBDA e : e.provider \in named)
        /\ \A p \in registered \ named : PrefixLen + IdLen(p) > MaxScopeLen
=============================================================================
