----------------------------- MODULE Disclosure -----------------------------
(***************************************************************************)
(* What is disclosed: the minimal envelope an unreadable disclosure falls  *)
(* back to (fallback.rs), three bounded texts behind a magic and one       *)
(* length each; a text with a secret taken out of it (secret.rs); and the  *)
(* fingerprint by which an earlier answer may be used again                *)
(* (fingerprint.rs).  A byte of an envelope is a small integer: Magic, a   *)
(* length, a printable character, a control character, or a byte that is   *)
(* no text.  A text is bytes as in StreamSinks.  A digest is the bytes it  *)
(* is of: collisions of the hash are not modelled.                         *)
(***************************************************************************)
EXTENDS StreamSinks, FiniteSets, SequencesExt

CONSTANTS Inputs,            \* byte strings a reader may be handed
          Magic, Printable, Illegible,    \* kinds of bytes
          FallbackId, FallbackKind,       \* what an envelope that stands for another says it is
          MaxId, MaxKind, MaxText,        \* bounds of the fields
          Secrets, Haystacks,             \* a secret's bytes, and the texts it may be in
          MaxSecret,                      \* MAX_SECRET_LEN
          Redacted,                       \* SECRET_REDACTED
          Components                      \* what may be fingerprinted together: {} is unknown

VARIABLES bytes, opened,     \* of an envelope
          scrubbed,          \* {} or a text scrubbed of a secret
          compared           \* {} or two inputs with their fingerprints

envelopeVars == <<bytes, opened, scrubbed, compared>>

Mark == -1

AsText(field) == \A i \in DOMAIN field : field[i] \notin Illegible

NotEnvelope == [result |-> "Malformed", id |-> <<>>, kind |-> <<>>, text |-> <<>>]

(* to_bytes. *)
ToBytes(e) == <<Magic, Len(e.id)>> \o e.id \o <<Len(e.kind)>> \o e.kind \o <<Len(e.text)>> \o e.text

Spent(rest) == rest = <<>>

(* take_field: the declared length against the bound, then against what is
   there. *)
TakeField(rest, cap, over) ==
    IF rest = <<>> THEN "Malformed"
    ELSE IF rest[1] > cap THEN over
    ELSE IF Len(rest) <= rest[1] \/ ~AsText(SubSeq(rest, 2, rest[1] + 1)) THEN "Malformed"
    ELSE "ok"

FieldOf(rest) == SubSeq(rest, 2, rest[1] + 1)

AdvanceField(rest) == SubSeq(rest, rest[1] + 2, Len(rest))

(* from_bytes: field after field, the first fault deciding. *)
FromBytes(b) ==
    LET one   == SubSeq(b, 2, Len(b))
        two   == AdvanceField(one)
        three == AdvanceField(two)
        fault(r) == [NotEnvelope EXCEPT !.result = r]
    IN  IF b = <<>> \/ b[1] # Magic THEN NotEnvelope
        ELSE IF TakeField(one, MaxId, "IdTooLarge") # "ok" THEN fault(TakeField(one, MaxId, "IdTooLarge"))
        ELSE IF TakeField(two, MaxKind, "KindTooLarge") # "ok" THEN fault(TakeField(two, MaxKind, "KindTooLarge"))
        ELSE IF TakeField(three, MaxText, "TextTooLarge") # "ok" THEN fault(TakeField(three, MaxText, "TextTooLarge"))
        ELSE IF ~Spent(AdvanceField(three)) THEN NotEnvelope
        ELSE [result |-> "ok", id |-> FieldOf(one), kind |-> FieldOf(two), text |-> FieldOf(three)]

(* fallback_for with scrub_text: one mark for a character that cannot be shown,
   one for a run of bytes that are none, never a cut. *)
Marks(b) == {i \in DOMAIN b : b[i] \notin Illegible \/ i = 1 \/ b[i - 1] \notin Illegible}

FallbackFor(b) ==
    LET at(i) == b[CHOOSE k \in Marks(b) : Cardinality({j \in Marks(b) : j <= k}) = i]
    IN  IF Cardinality(Marks(b)) > MaxText THEN [NotEnvelope EXCEPT !.result = "TextTooLarge"]
        ELSE [result |-> "ok", id |-> FallbackId, kind |-> FallbackKind,
              text |-> [i \in 1..Cardinality(Marks(b)) |-> IF at(i) \in Printable THEN at(i) ELSE Mark]]

EnvelopeInit == bytes \in Inputs /\ opened = {} /\ scrubbed = {} /\ compared = {}

OpenEnvelope ==
    /\ opened' = {[read |-> FromBytes(bytes), fallback |-> FallbackFor(bytes)]}
    /\ UNCHANGED <<bytes, scrubbed, compared>>

-----------------------------------------------------------------------------
GoodSecret(value) == Len(value) \in 1..MaxSecret

FoundAt(needle, text, i) == i + Len(needle) - 1 <= Len(text) /\ SubSeq(text, i, i + Len(needle) - 1) = needle

IsAbsentFrom(needle, text) == \A i \in DOMAIN text : ~FoundAt(needle, text, i)

RECURSIVE Scan(_, _)

(* From left to right, on behind a match. *)
Scan(needle, text) ==
    IF text = <<>> THEN <<>>
    ELSE IF FoundAt(needle, text, 1) THEN Redacted \o Scan(needle, SubSeq(text, Len(needle) + 1, Len(text)))
    ELSE <<text[1]>> \o Scan(needle, Tail(text))

(* scrub_from: what is no text any more is all redacted. *)
ScrubFrom(needle, text) == IF Utf8(Scan(needle, text)) THEN Scan(needle, text) ELSE Redacted

Scrub(needle, text) ==
    /\ GoodSecret(needle)
    /\ scrubbed' = {[needle |-> needle, text |-> text, out |-> ScrubFrom(needle, text)]}
    /\ UNCHANGED <<bytes, opened, compared>>

-----------------------------------------------------------------------------
(* InputFingerprint::new: of all bytes; {} when there are none. *)
FingerprintOf(b) == IF b = <<>> THEN {} ELSE {[digest |-> b, len |-> Len(b)]}

\* Mutant: components are joined without their lengths.
FramedBare(component) == component

Framed(component) == <<Len(component)>> \o component

(* of_components: every component known, and not all of them empty. *)
OfComponents(cs) ==
    LET known == [i \in DOMAIN cs |-> Joined(SetToSeq(cs[i]))]
    IN  IF (\E i \in DOMAIN cs : cs[i] = {}) \/ Joined(known) = <<>> THEN {}
        ELSE {[digest |-> Joined([i \in DOMAIN cs |-> Framed(known[i])]), len |-> Len(Joined(known))]}

AllowsReuse(a, b) == a = b

(* An input is bytes, or an ordered list of components. *)
Fingerprint(x) == IF x.whole THEN FingerprintOf(Joined(SetToSeq(x.parts[1]))) ELSE OfComponents(x.parts)

Compare(x, y) ==
    /\ compared' = {[x |-> x, y |-> y, reuse |-> \E a \in Fingerprint(x), b \in Fingerprint(y) : AllowsReuse(a, b)]}
    /\ UNCHANGED <<bytes, opened, scrubbed>>

FingerprintInputs ==
    [whole : BOOLEAN, parts : {<<c>> : c \in Components \ {{}}}] \cup [whole : {FALSE}, parts : [1..2 -> Components]]

(* One of the three in a behaviour: they share no state. *)
Untouched == opened = {} /\ scrubbed = {} /\ compared = {}

EnvelopeNext ==
    \/ Untouched /\ OpenEnvelope
    \/ Untouched /\ bytes = <<>> /\ \E needle \in Secrets, text \in Haystacks : Scrub(needle, text)
    \/ Untouched /\ bytes = <<>> /\ \E x, y \in FingerprintInputs : Compare(x, y)

-----------------------------------------------------------------------------
(* A scrubbed text is text and shows nothing of the secret, as long as the
   secret has no byte in common with the marker put in its place; a text
   without the secret is left as it is. *)
SecretAbsent ==
    \A s \in scrubbed :
        /\ Utf8(s.out)
        /\ (\A i \in DOMAIN s.needle, j \in DOMAIN Redacted : s.needle[i] # Redacted[j]) => IsAbsentFrom(s.needle, s.out)
        /\ IsAbsentFrom(s.needle, s.text) => s.out = s.text

(* An earlier answer is used again only for the very same input: whole bytes
   or components, cut the same way, all of them known. *)
ReuseExact ==
    \A c \in compared :
        c.reuse <=> c.x = c.y /\ (\A i \in DOMAIN c.x.parts : c.x.parts[i] # {}) /\ \E i \in DOMAIN c.x.parts : c.x.parts[i] # {<<>>}

(* An envelope that opens is the only one with those bytes, whatever lengths
   and magics are buried in its texts: writing it again gives the same bytes,
   its fields are text and within bounds.  Every envelope within bounds opens.
   What falls back is an envelope that opens as it was written, and shows
   everything of the unreadable bytes that can be shown. *)
EnvelopeExact ==
    \A o \in opened :
        /\ o.read.result = "ok" =>
             /\ ToBytes(o.read) = bytes /\ AsText(o.read.id) /\ AsText(o.read.kind) /\ AsText(o.read.text)
             /\ Len(o.read.id) <= MaxId /\ Len(o.read.kind) <= MaxKind /\ Len(o.read.text) <= MaxText
        /\ o.read.result # "ok" =>
             \A i, j \in 1..Len(bytes) :
               LET id == SubSeq(bytes, 3, i)
                   kind == SubSeq(bytes, i + 2, j)
                   text == SubSeq(bytes, j + 2, Len(bytes))
               IN  ~(/\ AsText(id) /\ AsText(kind) /\ AsText(text) /\ Len(id) <= MaxId /\ Len(kind) <= MaxKind /\ Len(text) <= MaxText
                     /\ ToBytes([id |-> id, kind |-> kind, text |-> text]) = bytes)
        /\ o.fallback.result = "ok" =>
             /\ FromBytes(ToBytes(o.fallback)) = o.fallback
             /\ SelectSeq(o.fallback.text, LAMBDA c : c # Mark) = SelectSeq(bytes, LAMBDA c : c \in Printable)
=============================================================================
