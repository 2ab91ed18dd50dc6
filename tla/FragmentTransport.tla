-------------------------- MODULE FragmentTransport --------------------------
(***************************************************************************)
(* A turn's text on its way to a terminal: cut into fragments and emitted  *)
(* batch by batch on one running sequence, cancellable at any boundary     *)
(* (stream.rs, emit_batch of agent.rs), then each chunk cut again into     *)
(* parts the transport takes, and rejoined at the other end                *)
(* (fragment_transport.rs).  The carrier between is external: it may lose, *)
(* repeat and reorder parts.                                               *)
(***************************************************************************)
EXTENDS StreamSinks

CONSTANTS Texts,             \* what a batch may say
          MaxPart,           \* MAX_FRAGMENT_TEXT_BYTES
          MaxSeq, MaxWireSeq,\* the ends of the chunk and the transport sequence
          SinkRoom,          \* capacity of the sink
          MaxTurns, MaxBatches, MaxGenerations, MaxInbox   \* bounds of the instance

ASSUME PieceAssumption == MaxPart >= 2 /\ MaxFragment >= 2     \* a character always fits

VARIABLES turn,              \* the logical turn and its batch in progress
          chunkSink,
          shown,             \* history: every chunk emitted, with its turn
          cursor,            \* FragmentTransportCursor, and how far it came
          wire,              \* every part handed to the carrier
          inbox              \* what the receiver gathered, and made of it

transportVars == <<turn, chunkSink, shown, cursor, wire, inbox>>

-----------------------------------------------------------------------------
NewTurn(n) == [number |-> n, nextSeq |-> 0, batches |-> 0, batch |-> <<>>, sent |-> 0, cancelled |-> FALSE,
               stage |-> "ready", said |-> <<>>]

TransportInit ==
    /\ turn = NewTurn(1) /\ chunkSink = NewSink(SinkRoom) /\ shown = <<>>
    /\ cursor = [generation |-> 1, next |-> 0, mapped |-> 0]
    /\ wire = {} /\ inbox = [parts |-> <<>>, answer |-> "none", text |-> <<>>, expected |-> {}]

BeginTurn ==
    /\ turn.stage \in {"ready", "cancelled", "failed"} /\ turn.number < MaxTurns
    /\ turn' = NewTurn(turn.number + 1)
    /\ UNCHANGED <<chunkSink, shown, cursor, wire, inbox>>

(* emit_text or emit_tool_card: nothing is emitted for an empty text. *)
BeginBatch(text) ==
    LET pieces == Pieces(text, MaxFragment) IN
    /\ turn.stage = "ready" /\ turn.batches < MaxBatches /\ text # <<>>
    /\ turn' = IF turn.nextSeq + Len(pieces) > MaxSeq THEN [turn EXCEPT !.stage = "failed"]
               ELSE [turn EXCEPT !.stage = "emitting", !.batch = pieces, !.sent = 0, !.batches = @ + 1, !.said = @ \o text]
    /\ UNCHANGED <<chunkSink, shown, cursor, wire, inbox>>

Cancel ==
    /\ ~turn.cancelled
    /\ turn' = [turn EXCEPT !.cancelled = TRUE]
    /\ UNCHANGED <<chunkSink, shown, cursor, wire, inbox>>

(* One boundary of emit_fragments. *)
EmitFragment ==
    LET total == turn.nextSeq + Len(turn.batch)
        c     == Chunk(turn.nextSeq + turn.sent, total, turn.sent + 1 = Len(turn.batch), turn.batch[turn.sent + 1])
    IN  /\ turn.stage = "emitting" /\ turn.sent < Len(turn.batch)
        /\ IF turn.cancelled THEN turn' = [turn EXCEPT !.stage = "cancelled"] /\ UNCHANGED <<chunkSink, shown>>
           ELSE IF ValidateChunk(c) # "ok" THEN turn' = [turn EXCEPT !.stage = "failed"] /\ UNCHANGED <<chunkSink, shown>>
           ELSE /\ turn' = [turn EXCEPT !.sent = @ + 1]
                /\ chunkSink' = Emit(chunkSink, c)
                /\ shown' = Append(shown, [turn |-> turn.number, chunk |-> c])
        /\ UNCHANGED <<cursor, wire, inbox>>

(* The check after the last delivery, and the water mark. *)
BatchEnd ==
    /\ turn.stage = "emitting" /\ turn.sent = Len(turn.batch)
    /\ turn' = IF turn.cancelled THEN [turn EXCEPT !.stage = "cancelled"]
               ELSE [turn EXCEPT !.stage = "ready", !.nextSeq = @ + Len(turn.batch), !.batch = <<>>]
    /\ UNCHANGED <<chunkSink, shown, cursor, wire, inbox>>

-----------------------------------------------------------------------------
(* part_ends: an empty text is one empty part. *)
PartTexts(text) == IF text = <<>> THEN << <<>> >> ELSE Pieces(text, MaxPart)

(* pre_split_fragment, of a chunk that passed validate_chunk. *)
SplitParts(c, generation, first) ==
    LET texts == PartTexts(c.bytes) IN
    [i \in DOMAIN texts |-> [generation |-> generation, seq |-> first + i - 1, text |-> texts[i], index |-> i - 1,
                             count |-> Len(texts), source |-> c.seq, continuation |-> i > 1]]

Advance(parts) == Len(parts)

(* map_chunk: the cursor moves only when every part fits the sequence. *)
MapChunk ==
    /\ cursor.mapped < Len(shown)
    /\ LET c     == shown[cursor.mapped + 1].chunk
           parts == SplitParts(c, cursor.generation, cursor.next)
           ok    == Utf8(c.bytes) /\ Len(c.bytes) <= MaxFragment /\ cursor.next + Len(parts) <= MaxWireSeq
       IN  /\ cursor' = [cursor EXCEPT !.mapped = @ + 1, !.next = IF ok THEN @ + Advance(parts) ELSE @]
           /\ wire' = IF ok THEN wire \cup {[part |-> parts[i], of |-> cursor.mapped + 1] : i \in DOMAIN parts} ELSE wire
    /\ UNCHANGED <<turn, chunkSink, shown, inbox>>

(* The session rotates: a cursor of the next generation. *)
Rotate ==
    /\ cursor.generation < MaxGenerations
    /\ cursor' = [cursor EXCEPT !.generation = @ + 1, !.next = 0]
    /\ UNCHANGED <<turn, chunkSink, shown, wire, inbox>>

(* External: any part, any number of times, in any order. *)
Deliver ==
    /\ inbox.answer = "none" /\ Len(inbox.parts) < MaxInbox
    /\ \E w \in wire : inbox' = [inbox EXCEPT !.parts = Append(@, w.part)]
    /\ UNCHANGED <<turn, chunkSink, shown, cursor, wire>>

Identity(p) == [generation |-> p.generation, source |-> p.source]

(* The checks on the part at a place. *)
PartRefused(p, first, i) ==
    \/ p.index # i - 1 \/ p.continuation # (i > 1) \/ p.count # first.count
    \/ Identity(p) # Identity(first) \/ p.seq # first.seq + i - 1 \/ Len(p.text) > MaxPart

(* reassemble_expected. *)
Rejoin(parts, expected) ==
    LET text == Joined([i \in DOMAIN parts |-> parts[i].text]) IN
    IF \/ parts = <<>> \/ Identity(parts[1]) # expected \/ parts[1].count # Len(parts)
       \/ \E i \in DOMAIN parts : PartRefused(parts[i], parts[1], i)
       \/ Len(text) > MaxFragment
    THEN [answer |-> "refused", text |-> <<>>] ELSE [answer |-> "ok", text |-> text]

Reassemble(expected) ==
    /\ inbox.answer = "none"
    /\ inbox' = [inbox EXCEPT !.answer = Rejoin(inbox.parts, expected).answer, !.text = Rejoin(inbox.parts, expected).text,
                              !.expected = {expected}]
    /\ UNCHANGED <<turn, chunkSink, shown, cursor, wire>>

Gather ==
    /\ inbox.answer # "none"
    /\ inbox' = [inbox EXCEPT !.parts = <<>>, !.answer = "none", !.text = <<>>, !.expected = {}]
    /\ UNCHANGED <<turn, chunkSink, shown, cursor, wire>>

TransportNext ==
    \/ BeginTurn \/ (\E t \in Texts : BeginBatch(t)) \/ Cancel \/ EmitFragment \/ BatchEnd
    \/ MapChunk \/ Rotate \/ Deliver \/ Gather
    \/ \E e \in {Identity(w.part) : w \in wire} : Reassemble(e)

-----------------------------------------------------------------------------
Shown == SelectSeq(shown, LAMBDA s : s.turn = turn.number)

(* The chunks of a turn are numbered without a gap or a repeat across its
   batches and spell its text in order; a batch is reported complete only if
   the turn was not cancelled while its last fragment was taken; the sink
   holds the newest of what was shown, and counts the rest. *)
ShownInOrder ==
    /\ \A i \in DOMAIN Shown : Shown[i].chunk.seq = i - 1 /\ ValidateChunk(Shown[i].chunk) = "ok"
    /\ LET text == Joined([i \in DOMAIN Shown |-> Shown[i].chunk.bytes]) IN
       /\ text = SubSeq(turn.said, 1, Len(text)) /\ (turn.stage = "ready" => text = turn.said)
       /\ \A i \in DOMAIN Shown : Utf8(Shown[i].chunk.bytes)
    /\ turn.stage = "ready" => turn.nextSeq = Len(Shown)
    /\ chunkSink.accepted = Len(shown) /\ chunkSink.shed + Len(chunkSink.chunks) = Len(shown)
    /\ \A i \in DOMAIN chunkSink.chunks : chunkSink.chunks[i] = shown[chunkSink.shed + i].chunk

(* No two parts share a transport key; what was cut comes back whole; and a
   receiver that accepts parts, whatever the carrier did to them, has the text
   of one chunk of the identity it asked for. *)
RejoinedExact ==
    /\ \A v, w \in wire : v.part.generation = w.part.generation /\ v.part.seq = w.part.seq => v = w
    /\ \A w \in wire : Len(w.part.text) <= MaxPart /\ Utf8(w.part.text)
    /\ inbox.answer = "ok" =>
         \E w \in wire : {Identity(w.part)} = inbox.expected /\ shown[w.of].chunk.bytes = inbox.text
    /\ (inbox.answer = "refused" /\ inbox.parts # <<>>) =>
         \A n \in DOMAIN shown :
           LET its == {w.part : w \in {v \in wire : v.of = n}} IN
           ~(/\ Len(inbox.parts) = Cardinality(its) /\ {Identity(p) : p \in its} = inbox.expected
             /\ \A i \in DOMAIN inbox.parts : inbox.parts[i] \in its /\ inbox.parts[i].index = i - 1)
=============================================================================
