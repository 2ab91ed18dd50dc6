----------------------------- MODULE ActionSpill -----------------------------
(***************************************************************************)
(* The output of a tool on its way into the context (action_protocol.rs):  *)
(* inline when short, spilled to a content-addressed blob with a preview   *)
(* when long, fenced for the reader and screened beside the text; and the  *)
(* advisory a turn of the agent keeps of all the untrusted text it was     *)
(* shown (runtime/agent.rs).                                               *)
(*                                                                         *)
(* A text is bytes as in StreamSinks; " " is white space, "LF" and "CR"    *)
(* end lines, and each of Patterns stands for one entry of the screen      *)
(* table.  The hash of a blob is its content.                              *)
(***************************************************************************)
EXTENDS StreamSinks, SequencesExt

CONSTANTS Outputs,           \* what a tool may print
          Configs,           \* [inline, preview]: SpilloverConfig
          Patterns, Mimicry, \* entries of the screen table; the one the marker matches
          MaxBlob,           \* MAX_BLOB_BYTES
          MaxScreen,         \* MAX_SCREEN_BYTES
          Radix,             \* base the marker writes its number in
          MaxHeld,           \* bound on the blobs of the instance
          ClassOf,           \* of a pattern: the range of the table its index is in
          LowerOf,           \* of an upper-case spelling of a pattern: the pattern
          SeedRecords, Executions,   \* what a turn is shown
          MaxHits,           \* u32::MAX
          MaxShown           \* bound: pieces of one turn

VARIABLES blobs,             \* what the BlobSink holds
          outcome,           \* {} or the last ActionOutcome, with what the tool printed
          advisory,          \* last_advisory: {} for None
          seen               \* history: the pieces the turn was shown

actionVars == <<blobs, outcome, advisory, seen>>

ActionInit == blobs = {} /\ outcome = {} /\ advisory = {} /\ seen = <<>>

-----------------------------------------------------------------------------
RECURSIVE Digits(_), TrimEnd(_), TrimStart(_), LinesOf(_, _)

Digits(n) == IF n < Radix THEN 1 ELSE 1 + Digits(n \div Radix)

Blank == {" ", "LF", "CR"}
TrimEnd(s) == IF s # <<>> /\ s[Len(s)] \in Blank THEN TrimEnd(SubSeq(s, 1, Len(s) - 1)) ELSE s
TrimStart(s) == IF s # <<>> /\ s[1] \in Blank THEN TrimStart(Tail(s)) ELSE s

Marker(n) == <<"LF", Mimicry>> \o [i \in 1..Digits(n) |-> "9"] \o <<"LF">>

TruncateHead(s, max) == SubSeq(s, 1, Cut(s, max))

(* truncate_tail_utf8: from the first boundary within the budget. *)
TruncateTail(s, max) ==
    SubSeq(s, Min({b \in Max({0, Len(s) - max})..Len(s) : Boundary(s, b)}) + 1, Len(s))

(* generate_preview: head, marker, tail; the marker's room is reserved for the
   largest number it could show. *)
GeneratePreview(raw, max) ==
    LET room == Len(Marker(Len(raw)))
        half == (max - room) \div 2
        head == TruncateHead(raw, half)
        tail == TruncateTail(raw, half)
        skipped == Max({0, Len(raw) - Len(head) - Len(tail)})
    IN  IF Len(raw) <= max THEN [text |-> raw, head |-> raw, tail |-> <<>>, skipped |-> 0]
        ELSE IF max <= room THEN [text |-> TruncateHead(raw, max), head |-> TruncateHead(raw, max), tail |-> <<>>, skipped |-> 0]
        ELSE [text |-> TrimEnd(head) \o Marker(skipped) \o TrimStart(tail), head |-> TrimEnd(head),
              tail |-> TrimStart(tail), skipped |-> skipped]

Inline(raw) == [kind |-> "inline", text |-> raw, pointer |-> {}, bytes |-> Len(raw)]

Spilled(raw, max) ==
    [kind |-> "spilled", text |-> GeneratePreview(raw, max).text, pointer |-> {raw}, bytes |-> Len(raw)]

(* store_blob: once under its content address. *)
StoreBlob(held, raw) == held \cup {raw}

(* process_payload: its result, and what the sink holds afterwards. *)
ProcessPayload(raw, config, held, sinkOk) ==
    IF Len(raw) > MaxBlob THEN [result |-> "PayloadTooLarge", held |-> held, payload |-> {}]
    ELSE IF Len(raw) <= config.inline THEN [result |-> "ok", held |-> held, payload |-> {Inline(raw)}]
    ELSE IF ~sinkOk THEN [result |-> "Store", held |-> held, payload |-> {}]
    ELSE [result |-> "ok", held |-> StoreBlob(held, raw), payload |-> {Spilled(raw, config.preview)}]

-----------------------------------------------------------------------------
(* str::lines: a line ends at LF or CR LF, the last may lack its end. *)
LinesOf(text, line) ==
    IF text = <<>> THEN IF line = <<>> THEN <<>> ELSE <<line>>
    ELSE IF Head(text) # "LF" THEN LinesOf(Tail(text), Append(line, Head(text)))
    ELSE << IF line # <<>> /\ line[Len(line)] = "CR" THEN SubSeq(line, 1, Len(line) - 1) ELSE line >> \o LinesOf(Tail(text), <<>>)

(* One stream of format_for_context: fence, label, the text indented line by
   line, fence; or the word for nothing. *)
FormatStream(p) ==
    LET lines == LinesOf(p.text, <<>>)
        own(what) == << [indent |-> FALSE, what |-> what, text |-> <<>>] >>
    IN  IF p.kind = "inline" /\ p.bytes = 0 THEN own("empty")
        ELSE own("open") \o own(p.kind) \o [i \in DOMAIN lines |-> [indent |-> TRUE, what |-> "text", text |-> lines[i]]]
             \o own("close")

(* screen_untrusted_text: all of it or nothing. *)
Screen(text) ==
    IF Len(text) > MaxScreen THEN [hits |-> {}, overCap |-> TRUE]
    ELSE [hits |-> {b \in Patterns : \E i \in DOMAIN text : text[i] = b}, overCap |-> FALSE]

ScreenForContext(out, err) ==
    [hits |-> Screen(out).hits \cup Screen(err).hits, overCap |-> Screen(out).overCap \/ Screen(err).overCap]

(* process_outcome: standard output first; what it stored stays when standard
   error is refused. *)
ProcessOutcome(out, err, config, sinkOut, sinkErr) ==
    LET one == ProcessPayload(out, config, blobs, sinkOut)
        two == ProcessPayload(err, config, one.held, sinkErr)
    IN  /\ blobs' = IF one.result # "ok" THEN one.held ELSE two.held
        /\ outcome' = IF one.result # "ok" \/ two.result # "ok" THEN {}
                      ELSE {[config |-> config, raw |-> <<out, err>>,
                             shown |-> <<CHOOSE p \in one.payload : TRUE, CHOOSE p \in two.payload : TRUE>>]}
        /\ UNCHANGED <<advisory, seen>>

-----------------------------------------------------------------------------
(* The advisory of a turn.  A byte that is no text is half of a character. *)

NoFlags == [hits |-> 0, classes |-> {}, overCap |-> FALSE]

Unscreened == [NoFlags EXCEPT !.overCap = TRUE]

(* combined: of two texts, of a turn so far and the next text. *)
Combined(a, b) ==
    [hits |-> Min({a.hits + b.hits, MaxHits}), classes |-> a.classes \cup b.classes, overCap |-> a.overCap \/ b.overCap]

Lowered(text) == [i \in DOMAIN text |-> IF text[i] \in DOMAIN LowerOf THEN LowerOf[text[i]] ELSE text[i]]

(* screen_untrusted_text of the runtime: each entry of the table counts once. *)
ScreenText(text) ==
    LET found == {p \in Patterns : \E i \in DOMAIN text : Lowered(text)[i] = p} IN
    IF Len(text) > MaxScreen THEN Unscreened
    ELSE [hits |-> Min({Cardinality(found), MaxHits}), classes |-> {ClassOf[p] : p \in found}, overCap |-> FALSE]

(* from_utf8_lossy: three bytes for each half of a character. *)
Lossy(raw) ==
    LET whole(i) == \/ raw[i] \notin {"h", "t"}
                    \/ raw[i] = "h" /\ i < Len(raw) /\ raw[i + 1] = "t"
                    \/ raw[i] = "t" /\ i > 1 /\ raw[i - 1] = "h"
    IN  Joined([i \in DOMAIN raw |-> IF whole(i) THEN <<raw[i]>> ELSE <<"EF", "BF", "BD">>])

(* screen_untrusted_bytes: the bound on the bytes, then on their text. *)
ScreenBytes(raw) == IF Len(raw) > MaxScreen THEN Unscreened ELSE ScreenText(Lossy(raw))

(* screen_assembled_record: the bytes of a body, the text of a reference. *)
ScreenRecord(r) == IF r.inline THEN ScreenBytes(r.body) ELSE ScreenText(r.body)

(* screen_tool_execution. *)
ScreenExecution(e) == Combined(ScreenText(e.summary), ScreenBytes(e.data))

(* assembled_record_message: the label follows the host's word on the record;
   an untrusted payload is behind its length. *)
RecordMessage(r) ==
    LET payload == IF r.inline THEN Lossy(r.body) ELSE <<"see">> \o r.body
        part(what, n) == << [what |-> what, len |-> n] >>
        text == [i \in DOMAIN payload |-> [what |-> payload[i], len |-> 0]]
    IN  IF r.untrusted
        THEN part("untrusted", 0) \o part("open", Len(payload)) \o text \o part("close", 0)
        ELSE part("trusted", 0) \o text

(* run_turn, from its reset to the seed's flags: None when assembly fails.  A
   turn refused before the reset (cancelled, terminated, timeout out of range)
   leaves the advisory of the turn before it. *)
SeedTurn(records, assembled) ==
    LET untrusted == SelectSeq(records, LAMBDA r : r.untrusted) IN
    /\ advisory' = IF assembled THEN {FoldLeft(LAMBDA acc, r : Combined(acc, ScreenRecord(r)), NoFlags, untrusted)} ELSE {}
    /\ seen' = IF assembled THEN [i \in DOMAIN records |-> [trusted |-> ~records[i].untrusted, text |-> records[i].body]] ELSE <<>>
    /\ UNCHANGED <<blobs, outcome>>

(* A tool's result that was recorded and rendered: unwrap_or_default. *)
ShowExecution(e) ==
    /\ advisory # {} /\ Len(seen) + 2 <= MaxShown
    /\ advisory' = {Combined(flags, ScreenExecution(e)) : flags \in advisory}
    /\ seen' = seen \o <<[trusted |-> FALSE, text |-> e.summary], [trusted |-> FALSE, text |-> e.data]>>
    /\ UNCHANGED <<blobs, outcome>>

(* An outcome or a turn in a behaviour: they share no state. *)
ActionNext ==
    \/ \E out, err \in Outputs, config \in Configs, sinkOut, sinkErr \in BOOLEAN :
          /\ outcome = {} /\ advisory = {} /\ Cardinality(blobs) < MaxHeld
          /\ ProcessOutcome(out, err, config, sinkOut, sinkErr)
    \/ outcome = {} /\ blobs = {} /\ \E records \in SeedRecords, assembled \in BOOLEAN : SeedTurn(records, assembled)
    \/ \E e \in Executions : ShowExecution(e)

-----------------------------------------------------------------------------
IsPrefixOf(s, t) == Len(s) <= Len(t) /\ SubSeq(t, 1, Len(s)) = s
IsSuffixOf(s, t) == Len(s) <= Len(t) /\ SubSeq(t, Len(t) - Len(s) + 1, Len(t)) = s

Printed(s) == SelectSeq(s, LAMBDA b : b \notin {"LF", "CR"})

(* Nothing a tool prints is lost and nothing is shown that it did not print:
   a stream is there in full, inline or behind a pointer that resolves; a
   preview keeps its bound, breaks no character, shows the two ends of the
   output around its marker, and never claims to skip more than it does; the
   fences hold the whole shown text, each of its lines indented; and a shown
   text that the screen calls clean holds no pattern. *)
OutputKept ==
    \A o \in outcome : \A i \in 1..2 :
        LET p     == o.shown[i]
            view  == GeneratePreview(o.raw[i], o.config.preview)
            lines == FormatStream(p)
            body  == SelectSeq(lines, LAMBDA l : l.indent)
            flags == ScreenForContext(o.shown[1].text, o.shown[2].text)
        IN  /\ p.kind = "inline" => p.text = o.raw[i]
            /\ p.kind = "spilled" =>
                 /\ p.pointer = {o.raw[i]} /\ o.raw[i] \in blobs /\ p.bytes = Len(o.raw[i])
                 /\ Len(p.text) <= o.config.preview /\ Utf8(p.text)
                 /\ IsPrefixOf(view.head, o.raw[i]) /\ IsSuffixOf(view.tail, o.raw[i])
                 /\ view.skipped <= Len(o.raw[i]) - Len(view.head) - Len(view.tail)
            /\ Joined([j \in DOMAIN body |-> Printed(body[j].text)]) = Printed(p.text)
            /\ \A j \in DOMAIN body : "LF" \notin {body[j].text[k] : k \in DOMAIN body[j].text}
            /\ (flags.hits = {} /\ ~flags.overCap) => \A j \in DOMAIN p.text : p.text[j] \notin Patterns

(* The advisory is of the turn that last got as far as assembly, and of all
   its untrusted text: there is none when assembly failed; it says that
   something was not screened exactly when a piece is too long once it is
   text, however short its bytes were; its count and its classes are those of
   the other pieces, in whatever case they are spelled, and no trusted record
   adds to them.  An untrusted record is cut out of its message by the length
   declared for it, whatever marks it spells. *)
AdvisoryExact ==
    /\ advisory = {} => seen = <<>>
    /\ \A flags \in advisory :
         LET untrusted == {i \in DOMAIN seen : ~seen[i].trusted}
             short == {i \in untrusted : Len(Lossy(seen[i].text)) <= MaxScreen}
             spelled(p) == {p} \cup {u \in DOMAIN LowerOf : LowerOf[u] = p}
             hits == {<<i, p>> \in short \X Patterns : \E k \in DOMAIN seen[i].text : seen[i].text[k] \in spelled(p)}
         IN  /\ flags.overCap <=> short # untrusted
             /\ flags.hits = Min({MaxHits, Cardinality(hits)})
             /\ flags.classes = {ClassOf[hit[2]] : hit \in hits}
    /\ \A records \in SeedRecords : \A i \in DOMAIN records :
         LET m == RecordMessage(records[i]) IN
         IF records[i].untrusted
         THEN m[2].what = "open" /\ Len(m) = m[2].len + 3 /\ m[Len(m)].what = "close"
              /\ (records[i].inline /\ Utf8(records[i].body) => [k \in 1..m[2].len |-> m[k + 2].what] = records[i].body)
         ELSE m[1].what = "trusted"
=============================================================================
