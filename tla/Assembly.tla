------------------------------ MODULE Assembly ------------------------------
(***************************************************************************)
(* The way of an observation into a turn: the refresh ledger that numbers  *)
(* the project snapshots, the ingestion of a snapshot and of a compiled    *)
(* turn into context records (slice/snapshot_ingest.rs), and the assembly  *)
(* of the records under a budget (runtime/context.rs, ContextStore).       *)
(*                                                                         *)
(* A content stands for its own digest.                                    *)
(***************************************************************************)
EXTENDS ContextStore

CONSTANTS Observations,      \* records other context providers hand over
          Snapshots,         \* SnapshotIngestRequest values
          CompiledTurns,     \* CompiledTurnIngestRequest values
          Budgets,           \* the byte and token budgets of a request
          BadOwners,         \* owners that are no stable id
          MaxLabel,          \* MAX_SNAPSHOT_LABEL_BYTES
          MaxRevision,       \* MAX_SNAPSHOT_REVISION_BYTES
          MaxGeneration      \* bound on the generations issued

VARIABLES ledger,            \* RefreshLedger: highest ({} or {g}) and retired
          inbox,             \* the records collected for the next turn
          store,             \* ArtifactStore
          turn               \* the last assembly: input, request, result; {} before one

assemblyVars == <<ledger, inbox, store, turn>>

(* The fields of a record, and what of them is counted. *)
IsRecord(r) ==
    /\ r = [id |-> r.id, provider |-> r.provider, owner |-> r.owner, generation |-> r.generation,
            at |-> r.at, priority |-> r.priority, summary |-> r.summary, sumLen |-> r.sumLen,
            body |-> r.body, supersedes |-> r.supersedes, untrusted |-> r.untrusted]
    /\ r.at \in Nat /\ r.priority \in Nat /\ r.sumLen \in Nat /\ r.untrusted \in BOOLEAN
    /\ r.body.kind \in {"inline", "artifact"} /\ r.body.size \in Nat /\ r.body.ref \in Nat

ASSUME AssemblyAssumption ==
    /\ RefBase \in Nat /\ Decades \in SUBSET Nat /\ IsFiniteSet(Decades)
    /\ DefaultBudget \in Nat /\ BytesPerToken \in Nat /\ MaxLabel \in Nat /\ MaxRevision \in Nat
    /\ \A r \in Observations : IsRecord(r)
    /\ \A q \in Snapshots : /\ q.at \in Nat /\ q.priority \in Nat /\ q.size \in Nat
                            /\ q.json.label \in Nat /\ q.json.revision \in Nat
    /\ \A q \in CompiledTurns : /\ q.at \in Nat /\ q.priority \in Nat /\ q.deltaPriority \in Nat
                                /\ q.size \in Nat /\ q.deltas \in Seq(Range(q.deltas))
                                /\ \A i \in DOMAIN q.deltas : q.deltas[i].size \in Nat
    /\ \A b \in Budgets : b.bytes \subseteq Nat /\ b.tokens \subseteq Nat /\ IsFiniteSet(b.tokens)

-----------------------------------------------------------------------------
(* RefreshLedger::issue: strictly increasing, the prior highest is retired. *)

IssueVerdict(g) == IF \E h \in ledger.highest : g <= h THEN "NotAdvancing" ELSE "ok"

IssueRefresh(g) ==
    /\ IssueVerdict(g) = "ok"
    /\ ledger' = [highest |-> {g}, retired |-> ledger.retired \o SetToSeq(ledger.highest)]
    /\ UNCHANGED <<inbox, store, turn>>

-----------------------------------------------------------------------------
(* ingest_snapshot. *)

CheckVersions(json) ==
    IF json.schema # "ProjectSnapshot" \/ json.version = {} \/ json.canonical = {} THEN "MalformedSnapshot"
    ELSE IF json.version # {1} \/ json.canonical # {1} THEN "UnsupportedVersion" ELSE "ok"

(* build_summary: the label and the revision are cut, the rest is short. *)
SummaryLen(json) == Min({json.label, MaxLabel}) + Min({json.revision, MaxRevision}) + 1

IngestVerdict(q, s) ==
    IF q.size = 0 THEN "EmptyInput"
    ELSE IF q.id = 0 THEN "EmptyRecordId"
    ELSE IF q.content # q.digest THEN "DigestMismatch"
    ELSE IF q.size > MaxArtifactBytes THEN "ArtifactTooLarge"
    ELSE IF ~q.json.wellFormed THEN "MalformedSnapshot"
    ELSE IF CheckVersions(q.json) # "ok" THEN CheckVersions(q.json)
    ELSE IF SummaryLen(q.json) > MaxSummary THEN "SummaryTooLarge"
    ELSE IF q.owner \in BadOwners THEN "InvalidStableId"
    ELSE IF q.size > MaxBody THEN StoreVerdict(s, q.size) ELSE "ok"

RecordOf(id, provider, q, generation, priority, untrusted, summary, sumLen, body) ==
    [id |-> id, provider |-> provider, owner |-> q.owner, generation |-> generation, at |-> q.at,
     priority |-> priority, summary |-> summary, sumLen |-> sumLen, body |-> body,
     supersedes |-> {}, untrusted |-> untrusted]

InlineBody(content, size) == [kind |-> "inline", content |-> content, size |-> size, ref |-> 0]

(* A snapshot too large to stay inline goes to the store first; the project is
   an untrusted surface either way. *)
IngestSnapshot(q, generation) ==
    LET large == q.size > MaxBody IN
    /\ IngestVerdict(q, store) = "ok"
    /\ store' = IF large THEN Stored(store, [content |-> q.content, size |-> q.size], generation) ELSE store
    /\ inbox' = Append(inbox, RecordOf(q.id, "project", q, generation, q.priority, TRUE, q.content,
                                       SummaryLen(q.json),
                                       IF large THEN Reference(store.next + 1)
                                       ELSE InlineBody(q.content, q.size)))
    /\ UNCHANGED <<ledger, turn>>

-----------------------------------------------------------------------------
(* ingest_compiled_turn. *)

DeltaVerdict(delta, generation) ==
    IF ~delta.marked \/ delta.pin = {} THEN "BadDelta"
    ELSE IF delta.pin # {generation} THEN "StaleLayer" ELSE "ok"

CompiledVerdict(q) ==
    LET bad == {i \in DOMAIN q.deltas : DeltaVerdict(q.deltas[i], q.generation) # "ok"} IN
    IF q.size = 0 THEN "EmptyProjectText"
    ELSE IF q.id = 0 \/ q.stem = 0 THEN "EmptyRecordId"
    ELSE IF q.markers # 1 \/ ~q.leads THEN "BadProjectMarker"
    ELSE IF q.tail # q.digest \/ q.digest \notin q.prefixes THEN "ProjectDigestMismatch"
    ELSE IF bad # {} THEN DeltaVerdict(q.deltas[Min(bad)], q.generation)
    ELSE IF q.size > MaxSummary \/ \E i \in DOMAIN q.deltas : q.deltas[i].size > MaxSummary
    THEN "SummaryTooLarge"
    ELSE IF q.owner \in BadOwners THEN "InvalidStableId"
    ELSE "ok"

(* The project layer is untrusted, a delta is the host's own observation; all
   of them take the generation of the refresh token. *)
CompiledRecords(q, refresh) ==
    <<RecordOf(q.id, "project", q, refresh, q.priority, TRUE, q.digest, q.size,
               InlineBody(q.digest, q.size))>>
    \o [i \in DOMAIN q.deltas |->
          RecordOf(q.stem + i, "diagnostics", q, refresh, q.deltaPriority, FALSE,
                   q.deltas[i].text, q.deltas[i].size, InlineBody(q.deltas[i].text, q.deltas[i].size))]

IngestCompiledTurn(q, refresh) ==
    /\ CompiledVerdict(q) = "ok"
    /\ inbox' = inbox \o CompiledRecords(q, refresh)
    /\ UNCHANGED <<ledger, store, turn>>

-----------------------------------------------------------------------------
Collect(r) == inbox' = Append(inbox, r) /\ UNCHANGED <<ledger, store, turn>>

(* One assembly; the records of the turn are then spent. *)
AssembleTurn(generation, budget) ==
    LET req    == [bytes |-> budget.bytes, tokens |-> budget.tokens, generation |-> generation]
        result == Assemble(inbox, store, req)
    IN  /\ turn' = {[rs |-> inbox, req |-> req, error |-> result.error, stored |-> result.store # store,
                    out |-> result.out, omitted |-> result.omitted, pruned |-> result.pruned]}
        /\ store' = result.store
        /\ inbox' = <<>>
        /\ UNCHANGED ledger

(* ArtifactStore::invalidate, by the host. *)
InvalidateRef(ref) ==
    /\ EntryOf(store, ref) # {}
    /\ store' = Invalidated(store, ref)
    /\ UNCHANGED <<ledger, inbox, turn>>

AssemblyInit ==
    /\ ledger = [highest |-> {}, retired |-> <<>>]
    /\ inbox = <<>> /\ store = EmptyStore /\ turn = {}

Issued == ledger.highest \cup Range(ledger.retired)

AssemblyNext ==
    \/ \E g \in 1..MaxGeneration : IssueRefresh(g)
    \/ \E r \in Observations, g \in Issued : Collect([r EXCEPT !.generation = g])
    \/ \E q \in Snapshots, g \in Issued : IngestSnapshot(q, g)
    \/ \E q \in CompiledTurns, g \in Issued : IngestCompiledTurn(q, g)
    \/ \E g \in ledger.highest, b \in Budgets : AssembleTurn(g, b)
    \/ \E ref \in 1..store.next : InvalidateRef(ref)

AssemblySpec == AssemblyInit /\ [][AssemblyNext]_assemblyVars

-----------------------------------------------------------------------------
Spent(out) ==
    LET sum[n \in 0..Len(out)] == IF n = 0 THEN 0 ELSE sum[n - 1] + Footprint(out[n])
    IN  sum[Len(out)]

(* A turn's references, however the store moved since, resolve to the bytes
   their record was collected with or to a typed absence, never to the bytes
   of another record; a refused assembly stored nothing. *)
ReferencesTrue(t) ==
    /\ t.error # "ok" => ~t.stored
    /\ \A i \in DOMAIN t.out, j \in DOMAIN t.rs :
         LET got == Resolve(store, t.out[i].body.ref, t.out[i].generation) IN
         (/\ t.rs[j].id = t.out[i].id
          /\ t.out[i].body.kind = "artifact" /\ t.rs[j].body.kind = "inline" /\ got.error = "ok")
         => got.content = t.rs[j].body.content

(* A trusted record leaves a turn only for want of budget, at the word of a
   trusted record or for its trusted twin: untrusted text never removes it. *)
TrustedKept(t) ==
    \A i \in DOMAIN t.rs :
      (~t.rs[i].untrusted /\ t.rs[i].id \in t.pruned) =>
         \E j \in DOMAIN t.rs :
           /\ ~t.rs[j].untrusted
           /\ t.rs[i].id \in t.rs[j].supersedes \/ (j # i /\ Twins(t.rs[i], t.rs[j]))

(* Every record of an assembled turn is accounted for exactly once, the turn
   fits its budget, carries one generation, and a record left out had no
   lower-ranked record of its size or larger let in before it. *)
TurnFits(t) ==
    t.error \in {"ok"} \cup ContextErrors /\ (t.error = "ok" =>
      LET included == {t.out[i].id : i \in DOMAIN t.out} IN
      /\ Spent(t.out) <= EffectiveBudget(t.req)
      /\ \A i \in DOMAIN t.rs :
           /\ t.rs[i].generation = t.req.generation
           /\ Cardinality({s \in {<<1, included>>, <<2, t.omitted>>, <<3, t.pruned>>} :
                             t.rs[i].id \in s[2]}) = 1
      /\ \A i, j \in DOMAIN t.rs :
           (/\ t.rs[i].id \in t.omitted /\ t.rs[j].id \in included
            /\ EffectivePriority(t.rs[i]) > EffectivePriority(t.rs[j]))
           => Footprint(t.rs[i]) > Footprint(t.rs[j]) \/ Externalizes(t.rs[i]) \/ Externalizes(t.rs[j]))

(* What the last assembled turn says is what was observed: its references
   resolve to the bytes of their own record or to a typed absence, untrusted
   text removed no trusted record, and the turn fits its budget with every
   record accounted for. *)
AssemblyTrue == \A t \in turn : ReferencesTrue(t) /\ TrustedKept(t) /\ TurnFits(t)
=============================================================================
