----------------------------- MODULE Compaction -----------------------------
(***************************************************************************)
(* Selective compression of context records and its durable image          *)
(* (runtime/compression.rs, slice/compaction_store.rs): the choice of the  *)
(* head to summarize, the spans that replace it, deletion and retention on *)
(* the compressed view, and the store that records a view, its tombstones  *)
(* and its retention tags and gives the view back after a restart.         *)
(*                                                                         *)
(* A record's summary is the set of ids whose text it may carry: {id} for  *)
(* a collected record, the union of what the summarizer was shown for a    *)
(* span.  Ids are naturals; SpanId(k) is the id "cmp-<k>" of span k.        *)
(***************************************************************************)
EXTENDS ContextStore

CONSTANTS Pools,             \* the record lists the host may collect
          TagsGiven,         \* the RetentionTags the host passes
          Replies,           \* summarizer answers: length of the text, 0 blank, or {} fails
          Seeds,             \* config.previous_summary: {} or {length}
          Policies,          \* CompactionPolicy values
          Protections,       \* sets of ids a pass must keep
          SpanBase,          \* first span id
          MaxSpans,          \* MAX_SPANS
          SpanCap,           \* CompressionConfig::max_span_bytes
          MinKeep,           \* MIN_KEEP_RECORDS
          DefaultReserve,    \* DEFAULT_RESERVE_BYTES
          MaxStrikes,        \* MAX_INEFFECTIVE_STRIKES
          MaxTombstones,     \* MAX_STORED_TOMBSTONES
          Horizon            \* bound on the clock

VARIABLES pool,              \* the records the host holds
          view,              \* the CompressedView in memory, {} or {view}
          swept,             \* {} or {when apply_retention last ran on this view}
          pass,              \* the compaction just made: its preview and its outcome
          db,                \* compaction_spans, compaction_tombstones, compaction_meta
          clock              \* caller-supplied now_ms

compactionVars == <<pool, view, swept, pass, db, clock>>

SpanId(k) == SpanBase + k

Ids(rs) == {rs[i].id : i \in DOMAIN rs}

-----------------------------------------------------------------------------
(* Retention classes, loosest first, and their time to live. *)

Classes == <<"Pinned", "Recent", "Normal", "Ephemeral">>

Restrictiveness(class) == CHOOSE i \in DOMAIN Classes : Classes[i] = class

GetTag(tags, id) == IF id \in DOMAIN tags THEN tags[id] ELSE "Normal"

InheritRetention(sources, tags) ==
    IF sources = <<>> THEN "Normal"
    ELSE Classes[Max({Restrictiveness(GetTag(tags, sources[i])) : i \in DOMAIN sources})]

(* RetentionPolicy::default, scaled: pinned records live with the session. *)
TtlFor(class) ==
    CASE class = "Pinned"    -> {}
      [] class = "Recent"    -> {3}
      [] class = "Normal"    -> {2}
      [] class = "Ephemeral" -> {1}

(* Records have a time, a size and an id unique within the turn. *)
ASSUME CompactionAssumption ==
    /\ SpanBase \in Nat /\ MinKeep \in Nat /\ MaxSpans \in Nat
    /\ \A rs \in Pools :
         /\ rs \in Seq(Range(rs))
         /\ \A i \in DOMAIN rs : rs[i].id \in Nat /\ rs[i].at \in Nat /\ Footprint(rs[i]) \in Nat
         /\ \A i, j \in DOMAIN rs : rs[i].id = rs[j].id => i = j
    /\ \A id \in DOMAIN TagsGiven : TagsGiven[id] \in Range(Classes)
    /\ \A reply \in Replies : reply \subseteq Nat
    /\ \A p \in Policies : p.keep \in Nat

Over(class, since, t) == \E ttl \in TtlFor(class) : t - since > ttl

-----------------------------------------------------------------------------
(* The compression core. *)

EffectiveSpanBytes(tokens) == Min({SpanCap} \cup {t * BytesPerToken : t \in tokens})

HeadBytes(rs, head) == FoldSet(LAMBDA i, total : Footprint(rs[i]) + total, 0, head)

(* Greedy packing at record edges: open[i] is the first record of the span
   that record i falls into. *)
Opened(rs, cap) ==
    LET open[i \in 0..Len(rs)] ==
          IF i <= 1 THEN i
          ELSE LET used == HeadBytes(rs, open[i - 1]..(i - 1)) IN
               IF used > 0 /\ used + Footprint(rs[i]) > cap THEN i ELSE open[i - 1]
    IN  open

(* A range is <<first, last>>, both included. *)
SelectBreakpoints(rs, tokens) ==
    LET open   == Opened(rs, EffectiveSpanBytes(tokens))
        starts == InOrder({i \in DOMAIN rs : open[i] = i})
    IN  [k \in DOMAIN starts |->
           <<starts[k], IF k = Len(starts) THEN Len(rs) ELSE starts[k + 1] - 1>>]

Covered(rs, range) == SubSeq(rs, range[1], range[2])

RangesVerdict(count, ranges) ==
    IF Len(ranges) > MaxSpans THEN "TooManySpans"
    ELSE IF \E i \in DOMAIN ranges : \/ ranges[i][1] > ranges[i][2] \/ ranges[i][2] > count
                                     \/ i > 1 /\ ranges[i][1] <= ranges[i - 1][2]
    THEN "InvalidRange" ELSE "ok"

CompressVerdict(rs, ranges, generation) ==
    IF Len(rs) > MaxRecords THEN "TooManyRecords"
    ELSE IF InvalidRecord(rs) # {} THEN RecordVerdict(rs[Min(InvalidRecord(rs))])
    ELSE IF RangesVerdict(Len(rs), ranges) # "ok" THEN RangesVerdict(Len(rs), ranges)
    ELSE IF \E i \in DOMAIN ranges, g \in generation :
              \E j \in ranges[i][1]..ranges[i][2] : rs[j].generation # g
    THEN "StaleGeneration"
    ELSE IF \E k \in DOMAIN ranges : SpanId(k - 1) \in Ids(rs) THEN "DuplicateId"
    ELSE "ok"

SummaryVerdict(reply) ==
    IF reply \in {{}, {0}} THEN "SummarizerFailed"
    ELSE IF \E n \in reply : n > MaxSummary THEN "SummaryTooLarge" ELSE "ok"

\* Mutant: expiry is anchored at the compression.
SourceDeadlineNow(covered, t) == t

SourceDeadline(covered, t) == Min({covered[i].at : i \in DOMAIN covered})

(* One span and the synthetic record that stands for it; shown is what the
   chained previous summary adds to what the summarizer saw. *)
SpanOf(k, covered, shown, tags, reply, t) ==
    [id |-> SpanId(k), sources |-> [i \in DOMAIN covered |-> covered[i].id],
     summary |-> UNION {covered[i].summary : i \in DOMAIN covered} \cup shown,
     sumLen |-> CHOOSE n \in reply : TRUE,
     untrusted |-> \E i \in DOMAIN covered : covered[i].untrusted,
     retention |-> InheritRetention([i \in DOMAIN covered |-> covered[i].id], tags),
     deadline |-> SourceDeadline(covered, t), created |-> t]

Synthetic(span, covered) ==
    [id |-> span.id, provider |-> covered[1].provider, owner |-> covered[1].owner,
     generation |-> Max({covered[i].generation : i \in DOMAIN covered}), at |-> span.created,
     priority |-> Min({EffectivePriority(covered[i]) : i \in DOMAIN covered}),
     summary |-> span.summary, sumLen |-> span.sumLen,
     body |-> [kind |-> "inline", content |-> 0, size |-> 0, ref |-> 0],
     supersedes |-> {}, untrusted |-> span.untrusted]

(* Chained, a span sees the summary of the span before it, which saw the one
   before that; the first sees the host's seed, which carries no record. *)
Shown(rs, ranges, chained, k) ==
    UNION {rs[i].summary : i \in {j \in DOMAIN rs : /\ chained
                                                   /\ \E l \in 1..(k - 1) : j \in ranges[l][1]..ranges[l][2]}}

(* Spans stand where their first source stood; the rest passes through. *)
InRange(ranges, i) == {k \in DOMAIN ranges : i \in ranges[k][1]..ranges[k][2]}

ViewRecords(rs, ranges, spans) ==
    LET kept == InOrder({i \in DOMAIN rs : \A k \in InRange(ranges, i) : i = ranges[k][1]}) IN
    [n \in DOMAIN kept |->
       IF InRange(ranges, kept[n]) = {} THEN rs[kept[n]]
       ELSE LET k == CHOOSE k \in InRange(ranges, kept[n]) : TRUE
            IN  Synthetic(spans[k], Covered(rs, ranges[k]))]

Compressed(rs, ranges, chained, tags, reply, t) ==
    LET spans == [k \in DOMAIN ranges |->
                    SpanOf(k - 1, Covered(rs, ranges[k]), Shown(rs, ranges, chained, k), tags, reply, t)]
    IN  [records |-> ViewRecords(rs, ranges, spans), spans |-> spans, tombstones |-> {}, tags |-> tags]

-----------------------------------------------------------------------------
(* Which records to compact. *)

WindowVerdict(rs, generation) ==
    IF Len(rs) > MaxRecords THEN "TooManyRecords"
    ELSE IF InvalidRecord(rs) # {} THEN RecordVerdict(rs[Min(InvalidRecord(rs))])
    ELSE IF \E i, j \in DOMAIN rs : i # j /\ rs[i].id = rs[j].id THEN "DuplicateRecordId"
    ELSE IF \E i \in DOMAIN rs, g \in generation : rs[i].generation # g THEN "StaleGeneration"
    ELSE "ok"

(* The footprint of the n newest records. *)
NewestBytes(rs) ==
    LET newest[n \in 0..Len(rs)] ==
          IF n = 0 THEN 0 ELSE newest[n - 1] + Footprint(rs[Len(rs) + 1 - n])
    IN  newest

(* From the newest back until the tail budget is met, which it then stays; a
   protected record always stays. *)
RecentWindow(rs, keep, protected) ==
    {i \in DOMAIN rs : \/ rs[i].id \in protected
                      \/ Len(rs) - i < MinKeep \/ NewestBytes(rs)[Len(rs) - i] < keep}

HeadWindow(rs, keep, protected) == DOMAIN rs \ RecentWindow(rs, keep, protected)

(* Maximal runs of consecutive head records. *)
RunStarts(head) == {i \in head : i - 1 \notin head}

RunEnd(head, i) == Min({j \in head : j >= i /\ j + 1 \notin head})

HeadRanges(head) ==
    LET starts == InOrder(RunStarts(head)) IN
    [k \in DOMAIN starts |-> <<starts[k], RunEnd(head, starts[k])>>]

Doomed(rs, head, window) == HeadBytes(rs, head) + MaxSummary > window

PolicyVerdict(p) ==
    IF \/ p.window = 0 \/ p.keep >= p.window \/ p.den = 0 \/ p.num = 0 \/ p.num > p.den
       \/ p.strikes = 0 \/ p.strikes > MaxStrikes
    THEN "InvalidConfig" ELSE "ok"

EffectiveReserve(p) ==
    IF p.window = 0 THEN 0
    ELSE Min({Max({IF p.den = 0 THEN 0 ELSE (p.window * p.num) \div p.den, DefaultReserve}),
              p.window - 1})

ShouldCompact(used, window, reserve) ==
    used # 0 /\ window # 0 /\ reserve # 0 /\ used + reserve > window

PreviewCompaction(rs, p, protected, generation) ==
    LET head == HeadWindow(rs, p.keep, protected) IN
    IF PolicyVerdict(p) # "ok" \/ WindowVerdict(rs, generation) # "ok" THEN "Failed"
    ELSE IF head = {} THEN "NoOp"
    ELSE IF Doomed(rs, head, p.window) THEN "Failed" ELSE "WouldCompact"

(* compact_selective: total, every refusal is Failed and makes no view. *)
CompactOutcome(rs, p, protected, generation, seed, reply) ==
    LET head == HeadWindow(rs, p.keep, protected) IN
    IF WindowVerdict(rs, generation) # "ok" THEN "Failed"
    ELSE IF head = {} THEN "NoOp"
    ELSE IF \E n \in seed : n > MaxSummary THEN "Failed"
    ELSE IF Doomed(rs, head, p.window) THEN "Failed"
    ELSE IF CompressVerdict(rs, HeadRanges(head), generation) # "ok" THEN "Failed"
    ELSE IF SummaryVerdict(reply) # "ok" THEN "Failed" ELSE "Compacted"

-----------------------------------------------------------------------------
(* Deletion and retention on a view. *)

Without(rs, ids) == Picked(rs, {i \in DOMAIN rs : rs[i].id \notin ids})

Hit(span, ids) == span.id \in ids \/ \E i \in DOMAIN span.sources : span.sources[i] \in ids

DeleteIds(v, ids) ==
    LET dead == {v.spans[i].id : i \in {j \in DOMAIN v.spans : Hit(v.spans[j], ids)}} IN
    [v EXCEPT !.tombstones = @ \cup ids,
              !.spans = Without(@, dead), !.records = Without(@, ids \cup dead)]

Expired(v, t) ==
    LET spans == {v.spans[i].id : i \in {j \in DOMAIN v.spans :
                                            Over(v.spans[j].retention, v.spans[j].deadline, t)}}
        live  == Ids(v.spans) \ spans
    IN  spans \cup {v.records[i].id : i \in {j \in DOMAIN v.records :
                      /\ v.records[j].id \notin live
                      /\ Over(GetTag(v.tags, v.records[j].id), v.records[j].at, t)}}

ApplyRetention(v, t) ==
    [v EXCEPT !.tombstones = @ \cup Expired(v, t),
              !.spans = Without(@, Expired(v, t)), !.records = Without(@, Expired(v, t))]

-----------------------------------------------------------------------------
(* The durable image.  One writer holds it; each operation is a transaction. *)

EmptyDb == [spans |-> {}, tombstones |-> {}, records |-> <<>>, tags |-> <<>>,
            generation |-> {}, strikes |-> 0, previous |-> {}]

LiveRecords(v) == Without(v.records, v.tombstones)

ViewGeneration(rs) == Max({0} \cup {rs[i].generation : i \in DOMAIN rs})

RecordViewVerdict(v) ==
    LET live == LiveRecords(v) IN
    Verdict(<< <<Len(v.spans) > MaxSpans, "Storage">>,
               <<Cardinality(v.tombstones) > MaxTombstones, "Storage">>,
               <<Len(live) > MaxRecords, "Storage">>,
               <<live # <<>> /\ \E g \in db.generation : g # ViewGeneration(live), "StaleGeneration">>,
               <<\E i \in DOMAIN live : live[i].body.kind # "inline", "Storage">>,
               <<Cardinality(db.tombstones \cup v.tombstones) > MaxTombstones, "Storage">> >>)

(* serialize_tags: the tags are probed by the ids the view mentions; Normal is
   the absence of a tag. *)
ProbedIds(v) ==
    Ids(v.records) \cup v.tombstones
    \cup UNION {Range(v.spans[i].sources) : i \in DOMAIN v.spans}

SerializeTags(v) ==
    [id \in {i \in ProbedIds(v) : GetTag(v.tags, i) # "Normal"} |-> GetTag(v.tags, id)]

RecordedView(v) ==
    LET live == [v EXCEPT !.records = LiveRecords(v)] IN
    [db EXCEPT !.spans = Range(v.spans), !.tombstones = @ \cup v.tombstones,
               !.records = live.records, !.tags = SerializeTags(live),
               !.generation = IF live.records = <<>> THEN @ ELSE {ViewGeneration(live.records)}]

LoadView ==
    LET live == {s \in db.spans : ~Hit(s, db.tombstones)}
        ids  == InOrder({s.id : s \in live})
    IN  [records |-> Without(db.records, db.tombstones),
         spans |-> [k \in DOMAIN ids |-> CHOOSE s \in live : s.id = ids[k]],
         tombstones |-> db.tombstones, tags |-> db.tags]

TombstonesVerdict(ids) ==
    IF Cardinality(db.tombstones \cup ids) > MaxTombstones THEN "Storage" ELSE "ok"

WithTombstones(ids) ==
    LET all == db.tombstones \cup ids IN
    [db EXCEPT !.tombstones = all, !.records = Without(@, all),
               !.spans = {s \in @ : ~Hit(s, all)}]

-----------------------------------------------------------------------------
(* The host drives all of it. *)

NoPass == [preview |-> "NoOp", outcome |-> "NoOp", policy |-> "ok", reply |-> {}, seed |-> {},
           runs |-> 0, clash |-> FALSE]

CompactionInit ==
    /\ pool \in Pools
    /\ view = {} /\ swept = {} /\ pass = NoPass /\ db = EmptyDb
    /\ clock = Max({0} \cup {pool[i].at : i \in DOMAIN pool})

Adopt(v) == view' = {v} /\ swept' = {}

(* One pass over the host's records, or over a view's for a follow-up. *)
Compact(rs, p, protected, generation, seed, reply) ==
    LET outcome == CompactOutcome(rs, p, protected, generation, seed, reply)
        ranges  == HeadRanges(HeadWindow(rs, p.keep, protected))
    IN  /\ pass' = [preview |-> PreviewCompaction(rs, p, protected, generation), outcome |-> outcome,
                    policy |-> PolicyVerdict(p), reply |-> reply, seed |-> seed, runs |-> Len(ranges),
                    clash |-> \E k \in 0..(MaxSpans - 1) : SpanId(k) \in Ids(rs)]
        /\ IF outcome = "Compacted"
           THEN Adopt(Compressed(rs, ranges, TRUE, TagsGiven, reply, clock))
           ELSE UNCHANGED <<view, swept>>
        /\ UNCHANGED <<pool, db, clock>>

CompactPool ==
    /\ view = {}
    /\ \E p \in Policies, protected \in Protections, seed \in Seeds, reply \in Replies :
         Compact(pool, p, protected, {}, seed, reply)

FollowUp ==
    \E v \in view, p \in Policies, reply \in Replies :
         Compact(v.records, p, {}, {ViewGeneration(v.records)}, {}, reply)

(* The legacy path: greedy breakpoints, no chained summary. *)
CompressAll ==
    /\ view = {}
    /\ \E tokens \in {{}, {1}}, reply \in Replies :
      LET ranges == SelectBreakpoints(pool, tokens) IN
      /\ CompressVerdict(pool, ranges, {}) = "ok" /\ SummaryVerdict(reply) = "ok"
      /\ Adopt(Compressed(pool, ranges, FALSE, TagsGiven, reply, clock))
      /\ pass' = NoPass /\ UNCHANGED <<pool, db, clock>>

Delete ==
    \E v \in view : \E id \in Ids(v.records) \cup Ids(pool) :
      /\ view' = {DeleteIds(v, {id})}
      /\ pass' = NoPass /\ UNCHANGED <<pool, swept, db, clock>>

Sweep ==
    \E v \in view :
      /\ view' = {ApplyRetention(v, clock)} /\ swept' = {clock}
      /\ pass' = NoPass /\ UNCHANGED <<pool, db, clock>>

RecordView ==
    \E v \in view :
      /\ RecordViewVerdict(v) = "ok"
      /\ db' = RecordedView(v)
      /\ pass' = NoPass /\ UNCHANGED <<pool, view, swept, clock>>

AddTombstones ==
    \E ids \in {{i} : i \in Ids(pool) \cup {SpanId(0)}} \cup {v.tombstones : v \in view} :
      /\ ids # {} /\ TombstonesVerdict(ids) = "ok"
      /\ db' = WithTombstones(ids)
      /\ pass' = NoPass /\ UNCHANGED <<pool, view, swept, clock>>

(* A crash loses the view in memory; after a restart the image is read. *)
Crash == view # {} /\ view' = {} /\ swept' = {} /\ pass' = NoPass /\ UNCHANGED <<pool, db, clock>>

Reopen == view = {} /\ Adopt(LoadView) /\ pass' = NoPass /\ UNCHANGED <<pool, db, clock>>

(* record_ineffective and the persisted strike count. *)
Strike ==
    \E p \in Policies :
      /\ pass.outcome = "Failed" /\ db.strikes < p.strikes
      /\ ShouldCompact(HeadBytes(pool, DOMAIN pool), p.window, EffectiveReserve(p))
      /\ db' = [db EXCEPT !.strikes = @ + 1]
      /\ pass' = NoPass /\ UNCHANGED <<pool, view, swept, clock>>

Pass == clock < Horizon /\ clock' = clock + 1 /\ pass' = NoPass /\ UNCHANGED <<pool, view, swept, db>>

CompactionNext ==
    \/ CompactPool \/ FollowUp \/ CompressAll \/ Delete \/ Sweep
    \/ RecordView \/ AddTombstones \/ Crash \/ Reopen \/ Strike \/ Pass

CompactionSpec == CompactionInit /\ [][CompactionNext]_compactionVars

-----------------------------------------------------------------------------
Original(id) == pool[CHOOSE i \in DOMAIN pool : pool[i].id = id]

(* After a retention sweep no span still speaks for a source that outlived the
   time to live of its own class, however late it was compressed and whatever
   path brought the view back. *)
SpanNoOutlive ==
    \A v \in view, t \in swept : \A i \in DOMAIN v.spans :
      \A id \in Range(v.spans[i].sources) \cap Ids(pool) :
        ~Over(GetTag(TagsGiven, id), Original(id).at, t)

(* No view, made, pruned or reloaded, holds a span that a tombstone of the view
   names or whose source one names, or a record under a tombstoned id; the
   older view a host records after a deletion does not bring them back. *)
TombstonesHold ==
    \A v \in view :
      /\ \A i \in DOMAIN v.spans : ~Hit(v.spans[i], v.tombstones)
      /\ Ids(v.records) \cap v.tombstones = {}

(* Under a valid policy the preview and the pass agree: what the preview
   refuses or finds idle the pass refuses or leaves, and what it announces only
   the summarizer, the seed, a span id already taken or a head in more runs
   than a view may have spans can stop. *)
PreviewHonest ==
    pass.policy = "ok" =>
    /\ pass.preview = "NoOp" <=> pass.outcome = "NoOp"
    /\ pass.preview = "Failed" => pass.outcome = "Failed"
    /\ pass.preview = "WouldCompact" =>
         \/ pass.outcome = "Compacted"
         \/ SummaryVerdict(pass.reply) # "ok" \/ \E n \in pass.seed : n > MaxSummary
         \/ pass.clash \/ pass.runs > MaxSpans

(* What was deleted or has outlived its class stays gone from every view, made,
   pruned or reloaded (SpanNoOutlive, TombstonesHold), and the preview of a
   pass is what the pass does (PreviewHonest). *)
CompactionTrue == SpanNoOutlive /\ TombstonesHold /\ PreviewHonest

=============================================================================
