----------------------------- MODULE StreamSinks -----------------------------
(***************************************************************************)
(* Text as bytes, the chunks a turn is streamed in, and the sinks that     *)
(* take them (stream.rs).  A character is one byte, or the two bytes       *)
(* "h" "t", so that a cut can fall inside one.                             *)
(***************************************************************************)
EXTENDS Verdicts

CONSTANT MaxFragment         \* MAX_FRAGMENT_BYTES

Utf8(b) ==
    \A i \in DOMAIN b : /\ b[i] = "h" => i < Len(b) /\ b[i + 1] = "t"
                        /\ b[i] = "t" => i > 1 /\ b[i - 1] = "h"

RECURSIVE Joined(_), Pieces(_, _)

Joined(texts) == IF texts = <<>> THEN <<>> ELSE Head(texts) \o Joined(Tail(texts))

Boundary(text, end) == end = Len(text) \/ text[end + 1] # "t"

(* The end of the first piece: as far as the bound allows, at a boundary. *)
Cut(text, max) == Max({e \in 0..Min({max, Len(text)}) : Boundary(text, e)})

(* fragment_text, and the loop of part_ends. *)
Pieces(text, max) ==
    IF text = <<>> THEN <<>>
    ELSE LET e == Cut(text, max) IN <<SubSeq(text, 1, e)>> \o Pieces(SubSeq(text, e + 1, Len(text)), max)

-----------------------------------------------------------------------------
Chunk(seq, total, final, bytes) == [seq |-> seq, total |-> total, final |-> final, bytes |-> bytes]

ValidateChunk(c) ==
    Verdict(<< <<c.total = 0 \/ c.seq >= c.total \/ c.final # (c.seq + 1 = c.total), "InvalidFraming">>,
               <<Len(c.bytes) > MaxFragment, "OversizedFragment">> >>)

(* BoundedSink; a VecSink is one whose capacity is never met. *)
NewSink(capacity) == [capacity |-> Max({1, capacity}), chunks |-> <<>>, accepted |-> 0, shed |-> 0]

(* emit_attributed, of a chunk that passed: the oldest is shed, and counted. *)
Emit(sink, c) ==
    LET full == Len(sink.chunks) >= sink.capacity IN
    [sink EXCEPT !.chunks = Append(IF full THEN Tail(@) ELSE @, c), !.accepted = @ + 1,
                 !.shed = IF full THEN @ + 1 ELSE @]
=============================================================================
