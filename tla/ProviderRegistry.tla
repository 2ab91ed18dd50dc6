-------------------------- MODULE ProviderRegistry --------------------------
(***************************************************************************)
(* The runtime's model registry (runtime/selection.rs): an append-only     *)
(* table of registered models, an append-only table of aliases and a       *)
(* revision that moves with either, and the pure rules over it: selection, *)
(* cost and the fallback directive.                                        *)
(*                                                                         *)
(* Provider ids, model names and aliases are naturals, ordered as their    *)
(* strings are; IdLen gives a provider id's length in bytes and            *)
(* Misspelt the names that break the grammar.                              *)
(***************************************************************************)
EXTENDS Verdicts, FiniteSets, SequencesExt

CONSTANTS Registrations,    \* the registrations callers try
          AliasDefs,        \* the alias definitions callers try
          Misspelt,         \* provider ids and names outside the grammar
          IdLen(_),         \* length of a provider id
          MaxIdLen,         \* MAX_PROVIDER_ID_LEN
          MaxModels,        \* MAX_REGISTERED_MODELS
          MaxAliases,       \* MAX_ALIASES
          MaxCandidates,    \* MAX_ALIAS_CANDIDATES
          MaxCost           \* u64::MAX of the cost arithmetic

VARIABLES models, aliases, revision

registry == <<models, aliases, revision>>

(* The errors of a model provider (provider.rs), and what each means for the
   caller's chain of candidates. *)
ProviderErrors ==
    {"UnknownModel", "BudgetExceeded", "Timeout", "TimeoutTooLarge", "InvalidProviderId",
     "Transport", "Auth", "RateLimited", "CapabilityMismatch", "ModelUnavailable",
     "Unknown", "InvalidSampling", "UnsupportedSampling"}

FallbackDirective(error) ==
    IF error \in {"Transport", "RateLimited", "ModelUnavailable", "Timeout"}
    THEN "Advance" ELSE "Stop"

SelectionErrors ==
    {"InvalidProviderId", "InvalidName", "NoCapabilities", "DuplicateModel",
     "ConflictingModel", "DuplicateAlias", "UnknownAlias", "EmptyAlias",
     "TooManyCandidates", "AliasesFull", "RegistryFull", "EmptyRequirement",
     "NoCandidate"}

GoodName(n) == n \notin Misspelt

GoodProvider(p) == p \notin Misspelt /\ IdLen(p) \in 1..MaxIdLen

(* A registration, and the table's entry for it: capabilities keep the order
   they were declared in. *)
Registration(p, n, caps, window, inw, outw) ==
    [provider |-> p, name |-> n, caps |-> caps, window |-> window,
     inw |-> inw, outw |-> outw]

ModelRef(p, n) == [provider |-> p, model |-> n]

Kept(ms, p, n) == SelectSeq(ms, LAMBDA e : e.provider = p /\ e.name = n)

RegisterVerdict(ms, r) ==
    LET kept == Kept(ms, r.provider, r.name)
    IN  Verdict(<< <<kept # <<>> /\ kept[1] = r, "DuplicateModel">>,
                   <<kept # <<>>, "ConflictingModel">>,
                   <<~GoodProvider(r.provider), "InvalidProviderId">>,
                   <<~GoodName(r.name), "InvalidName">>,
                   <<r.caps = <<>>, "NoCapabilities">>,
                   <<Len(ms) >= MaxModels, "RegistryFull">> >>)

CandidateChecks(c) == << <<~GoodProvider(c.provider), "InvalidProviderId">>,
                         <<~GoodName(c.model), "InvalidName">> >>

AliasVerdict(as, a) ==
    Verdict(<< <<\E i \in DOMAIN as : as[i].alias = a.alias, "DuplicateAlias">>,
               <<~GoodName(a.alias), "InvalidName">>,
               <<a.candidates = <<>>, "EmptyAlias">>,
               <<Len(a.candidates) > MaxCandidates, "TooManyCandidates">> >>
            \o FlattenSeq([i \in DOMAIN a.candidates |-> CandidateChecks(a.candidates[i])])
            \o << <<Len(as) >= MaxAliases, "AliasesFull">> >>)

RegistryInit == models = <<>> /\ aliases = <<>> /\ revision = 0

(* A refused call leaves the registry as it is, so only accepted ones step. *)
Register(r) ==
    /\ RegisterVerdict(models, r) = "ok"
    /\ models' = Append(models, r)
    /\ revision' = revision + 1
    /\ UNCHANGED aliases

RegisterAlias(a) ==
    /\ AliasVerdict(aliases, a) = "ok"
    /\ aliases' = Append(aliases, a)
    /\ revision' = revision + 1
    /\ UNCHANGED models

(* A caller drops the registry and starts another: its revision starts over. *)
NewRegistry ==
    /\ registry # <<<<>>, <<>>, 0>>
    /\ models' = <<>> /\ aliases' = <<>> /\ revision' = 0

-----------------------------------------------------------------------------
(* Selection. *)

Before(a, b) ==
    a.provider < b.provider \/ (a.provider = b.provider /\ a.name < b.name)

Entries(ms) == SortSeq(ms, Before)

EffectiveWeight(w) == IF w = 0 THEN 1 ELSE w

(* A request: required capabilities and an alias, a window floor and a cost
   ceiling, each the empty set when the caller gives none. *)
Matches(req, e) ==
    /\ Range(req.required) \subseteq Range(e.caps)
    /\ \A min \in req.window : e.window >= min
    /\ \A max \in req.cost : EffectiveWeight(e.inw) <= max /\ EffectiveWeight(e.outw) <= max

ResolveAlias(as, name) == SelectSeq(as, LAMBDA a : a.alias = name)

(* The entries an alias names, in declared order; stale candidates drop out. *)
AliasEntries(ms, as, name) ==
    LET declared == ResolveAlias(as, name)[1].candidates
    IN  FlattenSeq([i \in DOMAIN declared |->
                       Kept(ms, declared[i].provider, declared[i].model)])

UnknownAlias(as, req) == \E name \in req.alias : ResolveAlias(as, name) = <<>>

(* The chain of a request over the pool its alias, or the whole table, gives. *)
Chain(ms, as, req, Accept(_)) ==
    SelectSeq(IF req.alias = {} THEN Entries(ms)
              ELSE AliasEntries(ms, as, CHOOSE name \in req.alias : TRUE), Accept)

Refusal(error) == [error |-> error, chain |-> <<>>]

Chosen(chain) == [error |-> IF chain = <<>> THEN "NoCandidate" ELSE "ok", chain |-> chain]

Select(ms, as, req) ==
    IF req.required = <<>> THEN Refusal("EmptyRequirement")
    ELSE IF UnknownAlias(as, req) THEN Refusal("UnknownAlias")
    ELSE Chosen(Chain(ms, as, req, LAMBDA e : Matches(req, e)))

Saturating(n) == IF n > MaxCost THEN MaxCost ELSE n

EstimateCost(inTokens, outTokens, inw, outw) ==
    Saturating(Saturating(inTokens * EffectiveWeight(inw))
               + Saturating(outTokens * EffectiveWeight(outw)))
=============================================================================
