---------------------------- MODULE ContextStore ----------------------------
(***************************************************************************)
(* Context records, the artifact store and the bounded assembly of a turn's *)
(* context (runtime/context.rs), as operators over values: the modules that *)
(* own a store step it through them.                                        *)
(*                                                                          *)
(* A reference is the number of its artifact:// tail; 0 stands for every    *)
(* malformed or zero tail.  A body is its content and its size in bytes.    *)
(***************************************************************************)
EXTENDS Verdicts, FiniteSets, SequencesExt

CONSTANTS KnownProviders,    \* KNOWN_PROVIDERS
          MaxSummary,        \* MAX_SUMMARY_BYTES
          MaxBody,           \* MAX_RECORD_BODY_BYTES
          Threshold,         \* EXTERNALIZE_THRESHOLD_BYTES
          MaxRecords,        \* MAX_CONTEXT_RECORDS
          MaxArtifacts,      \* MAX_ARTIFACTS
          MaxArtifactBytes,  \* MAX_ARTIFACT_BYTES
          MaxStoreBytes,     \* MAX_ARTIFACT_STORE_BYTES
          MaxDeleted,        \* MAX_DELETED_REFS
          DefaultBudget,     \* DEFAULT_CONTEXT_BUDGET_BYTES
          BytesPerToken,     \* BYTES_PER_TOKEN_ESTIMATE
          RefBase,           \* length of artifact:// and one digit
          Decades            \* the numbers from which on a reference has a digit more

ContextErrors ==
    {"InvalidStableId", "UnknownProvider", "SummaryTooLarge", "BodyTooLarge", "TooManyRecords",
     "ArtifactTooLarge", "ArtifactStoreFull", "ArtifactUnavailable", "ArtifactDeleted",
     "ArtifactExpired", "BudgetExceeded", "DuplicateRecordId", "StaleGeneration"}

-----------------------------------------------------------------------------
(* iter().filter() and retain(): the elements at the positions kept, in order. *)

RankIn(S, i) == Cardinality({j \in S : j <= i})

InOrder(S) == [k \in 1..Cardinality(S) |-> CHOOSE i \in S : RankIn(S, i) = k]

Picked(s, S) ==
    LET order == InOrder(S) IN [k \in DOMAIN order |-> s[order[k]]]

-----------------------------------------------------------------------------
(* The artifact store. *)

EmptyStore == [entries |-> <<>>, next |-> 0, deleted |-> {}]

EntryOf(s, ref) == {i \in DOMAIN s.entries : s.entries[i].ref = ref}

TotalBytes(s) == FoldSeq(LAMBDA e, total : e.size + total, 0, s.entries)

Absence(s, ref, generation) ==
    IF EntryOf(s, ref) # {}
    THEN IF \E i \in EntryOf(s, ref) : s.entries[i].generation = generation
         THEN "Available" ELSE "Expired"
    ELSE IF ref \in s.deleted THEN "Deleted"
    ELSE IF ref \in 1..s.next THEN "Missing" ELSE "NeverRecorded"

StoreVerdict(s, size) ==
    Verdict(<< <<size > MaxArtifactBytes, "ArtifactTooLarge">>,
               <<Len(s.entries) >= MaxArtifacts, "ArtifactStoreFull">>,
               <<TotalBytes(s) + size > MaxStoreBytes, "ArtifactStoreFull">> >>)

Stored(s, body, generation) ==
    [s EXCEPT !.next = @ + 1,
              !.entries = Append(@, [ref |-> s.next + 1, content |-> body.content,
                                     size |-> body.size, generation |-> generation])]

(* resolve: the bytes, or why there are none. *)
Resolve(s, ref, generation) ==
    CASE Absence(s, ref, generation) = "Available" ->
           [error |-> "ok", content |-> s.entries[Min(EntryOf(s, ref))].content]
      [] Absence(s, ref, generation) = "Expired" -> [error |-> "ArtifactExpired"]
      [] Absence(s, ref, generation) = "Deleted" -> [error |-> "ArtifactDeleted"]
      [] OTHER                                   -> [error |-> "ArtifactUnavailable"]

(* invalidate: the entry goes; its tombstone stays while there is room. *)
Invalidated(s, ref) ==
    [s EXCEPT !.entries = RemoveAt(@, Min(EntryOf(s, ref))),
              !.deleted = IF Cardinality(@) < MaxDeleted THEN @ \cup {ref} ELSE @]

-----------------------------------------------------------------------------
(* Records. *)

RecordVerdict(r) ==
    Verdict(<< <<r.provider \notin KnownProviders, "UnknownProvider">>,
               <<r.sumLen > MaxSummary, "SummaryTooLarge">>,
               <<r.body.kind = "inline" /\ r.body.size > MaxBody, "BodyTooLarge">> >>)

RefLen(n) == RefBase + Cardinality({d \in Decades : d <= n})

Footprint(r) ==
    r.sumLen + (IF r.body.kind = "inline" THEN r.body.size ELSE RefLen(r.body.ref))

EffectivePriority(r) == IF r.untrusted THEN Min({r.priority, 1}) ELSE r.priority

(* A request's budget: bytes and tokens each optional (the empty set). *)
EffectiveBudget(req) ==
    Min({IF req.bytes = {} THEN DefaultBudget ELSE CHOOSE b \in req.bytes : TRUE}
        \cup {t * BytesPerToken : t \in req.tokens})

-----------------------------------------------------------------------------
(* Assembly. *)

InvalidRecord(rs) == {i \in DOMAIN rs : RecordVerdict(rs[i]) # "ok"}

InputVerdict(rs, generation) ==
    IF Len(rs) > MaxRecords THEN "TooManyRecords"
    ELSE IF InvalidRecord(rs) # {} THEN RecordVerdict(rs[Min(InvalidRecord(rs))])
    ELSE IF \E i, j \in DOMAIN rs : i # j /\ rs[i].id = rs[j].id THEN "DuplicateRecordId"
    ELSE IF \E i \in DOMAIN rs : rs[i].generation # generation THEN "StaleGeneration"
    ELSE "ok"

Superseded(rs) == UNION {rs[i].supersedes : i \in {j \in DOMAIN rs : ~rs[j].untrusted}}

Twins(a, b) ==
    /\ a.provider = b.provider /\ a.owner = b.owner
    /\ a.summary = b.summary /\ a.body = b.body

Surviving(rs) == {i \in DOMAIN rs : rs[i].id \notin Superseded(rs)}

Copies(rs, i) == {j \in Surviving(rs) : Twins(rs[j], rs[i])}

(* Between twins trust wins, then the later collection, then the first. *)
Survivor(rs, copies) ==
    LET trusted == {i \in copies : ~rs[i].untrusted}
        best    == IF trusted = {} THEN copies ELSE trusted
    IN  Min({i \in best : \A j \in best : rs[j].at <= rs[i].at})

(* The positions of the records that stay, in the order of the first of each
   one's twins. *)
Deduped(rs) ==
    LET firsts == InOrder({i \in Surviving(rs) : i = Min(Copies(rs, i))})
    IN  [k \in DOMAIN firsts |-> Survivor(rs, Copies(rs, firsts[k]))]

Externalizes(r) == r.body.kind = "inline" /\ r.body.size > Threshold

Reference(n) == [kind |-> "artifact", content |-> 0, size |-> 0, ref |-> n]

(* The records with the references their large bodies would get, numbered as
   if every one of them were stored. *)
Staged(kept, s) ==
    [i \in DOMAIN kept |->
       IF Externalizes(kept[i])
       THEN [kept[i] EXCEPT !.body =
               Reference(s.next + Cardinality({j \in 1..i : Externalizes(kept[j])}))]
       ELSE kept[i]]

Sooner(rs, i, j) ==
    \/ EffectivePriority(rs[i]) > EffectivePriority(rs[j])
    \/ EffectivePriority(rs[i]) = EffectivePriority(rs[j]) /\ i < j

SelectionOrder(staged) ==
    [k \in DOMAIN staged |->
       CHOOSE i \in DOMAIN staged : Cardinality({j \in DOMAIN staged : Sooner(staged, j, i)}) = k - 1]

(* Greedy: a record that does not fit is left out and the next one tried. *)
SelectStep(staged, budget, acc, i) ==
    IF acc.used + Footprint(staged[i]) <= budget
    THEN [in |-> acc.in \cup {i}, used |-> acc.used + Footprint(staged[i])]
    ELSE acc

Filled(staged, budget) ==
    LET fill[n \in 0..Len(staged)] ==
          IF n = 0 THEN [in |-> {}, used |-> 0]
          ELSE SelectStep(staged, budget, fill[n - 1], SelectionOrder(staged)[n])
    IN  fill

Selected(staged, budget) == Filled(staged, budget)[Len(staged)].in

(* The commit: selected large bodies enter the store in staged order and take
   the reference the store gives them. *)
Pending(kept, in) == {i \in in : Externalizes(kept[i])}

CommittedStore(kept, in, s, generation) ==
    LET order == InOrder(Pending(kept, in)) IN
    [s EXCEPT !.next = @ + Len(order),
              !.entries = @ \o [m \in DOMAIN order |->
                                  [ref |-> s.next + m, content |-> kept[order[m]].body.content,
                                   size |-> kept[order[m]].body.size, generation |-> generation]]]

\* Mutant: the record keeps the reference it was staged with.
CommittedAsStaged(kept, in, s, i) == Staged(kept, s)[i]

Committed(kept, in, s, i) ==
    IF Externalizes(kept[i])
    THEN [kept[i] EXCEPT !.body = Reference(s.next + RankIn(Pending(kept, in), i))]
    ELSE kept[i]

PendingBytes(kept, in) ==
    FoldSet(LAMBDA i, total : kept[i].body.size + total, 0, Pending(kept, in))

AssembleError(error, s) == [error |-> error, store |-> s, out |-> <<>>, omitted |-> {}, pruned |-> {}]

(* assemble: an error leaves the store as it was; the output is in the order
   of the input. *)
Assemble(rs, s, req) ==
    LET at    == Deduped(rs)
        kept  == [k \in DOMAIN at |-> rs[at[k]]]
        in    == Selected(Staged(kept, s), EffectiveBudget(req))
        order == InOrder({at[i] : i \in in})
    IN  IF InputVerdict(rs, req.generation) # "ok"
        THEN AssembleError(InputVerdict(rs, req.generation), s)
        ELSE IF \E i \in DOMAIN kept : Externalizes(kept[i]) /\ kept[i].body.size > MaxArtifactBytes
        THEN AssembleError("ArtifactTooLarge", s)
        ELSE IF kept # <<>> /\ in = {} THEN AssembleError("BudgetExceeded", s)
        ELSE IF \/ Len(s.entries) + Cardinality(Pending(kept, in)) > MaxArtifacts
                \/ TotalBytes(s) + PendingBytes(kept, in) > MaxStoreBytes
        THEN AssembleError("ArtifactStoreFull", s)
        ELSE [error |-> "ok", store |-> CommittedStore(kept, in, s, req.generation),
              out |-> [k \in DOMAIN order |->
                         Committed(kept, in, s, CHOOSE i \in in : at[i] = order[k])],
              omitted |-> {kept[i].id : i \in DOMAIN kept \ in},
              pruned |-> {rs[i].id : i \in DOMAIN rs} \ {kept[i].id : i \in DOMAIN kept}]
=============================================================================
