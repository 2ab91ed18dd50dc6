---------------------------- MODULE ZoneCompiler ----------------------------
(***************************************************************************)
(* The three-zone prompt of the wheel kernel (context_compiler.rs, over    *)
(* wheel_kernel.rs): a stable prefix, the structured state, and a fenced   *)
(* tail of recent outcomes, reduced tier by tier to fit a budget.          *)
(*                                                                         *)
(* A text is a sequence of pieces [len, width] in bytes, each of           *)
(* characters of one width; only what a budget counts is kept of it.  The  *)
(* numbers are the lengths of the headings, markers and fences the code    *)
(* writes.                                                                 *)
(***************************************************************************)
EXTENDS Verdicts, FiniteSets, SequencesExt

CONSTANTS Situations,        \* [task, log, slots]: the kernel's state when a turn begins
          HostPrefixes,          \* [system, rules, tools]: each [len, marked], trimmed
          Prompts,           \* turn prompts: {} or {piece}
          ActionTexts,       \* formatted outcomes: pieces
          ZoneBudgets,       \* [zone1, zone2, zone3, total]
          MaxRecent,         \* MAX_RECENT_ACTIONS
          LogDepth,          \* checkpoints a compilation asks for
          MaxActions         \* bound of the instance

VARIABLES situation,
          recent,            \* the kernel's ring of outcomes
          acted,             \* history: every outcome since the last clear
          compiled           \* {} or the compilation just made

zoneVars == <<situation, recent, acted, compiled>>

ZoneInit == situation \in Situations /\ recent = <<>> /\ acted = <<>> /\ compiled = {}

-----------------------------------------------------------------------------
RECURSIVE TruncateUtf8(_, _), FlatPieces(_), DecimalDigits(_)

Ascii(n) == [len |-> n, width |-> 1]
TextSize(text) == FoldFunction(LAMBDA p, sum : p.len + sum, 0, text)
DecimalDigits(n) == IF n < 10 THEN 1 ELSE 1 + DecimalDigits(n \div 10)
FlatPieces(texts) == IF texts = <<>> THEN <<>> ELSE Head(texts) \o FlatPieces(Tail(texts))

(* truncate_utf8: the bytes kept, back to the last character boundary. *)
TruncateUtf8(text, max) ==
    IF text = <<>> THEN 0
    ELSE IF text[1].len <= max THEN text[1].len + TruncateUtf8(Tail(text), max - text[1].len)
    ELSE (max \div text[1].width) * text[1].width

-----------------------------------------------------------------------------
(* Zone 1: three host-pinned fields under their headings, none with a marker of
   the tail in it. *)
ValidateZone1(prefix) == ~(prefix.system.marked \/ prefix.rules.marked \/ prefix.tools.marked)

Zone1(prefix) ==
    LET part(heading, field) == IF field.len = 0 THEN 0 ELSE heading + field.len + 1
    IN  part(28, prefix.system) + part(22, prefix.rules) + part(21, prefix.tools)

(* render_zone2: the task, the checkpoints with the oldest of them in short,
   and the slots that are left. *)
RenderZone2(s, log, pruned, short) ==
    LET cost(i)  == IF i <= short THEN log[i].short ELSE log[i].full
        rows     == FoldFunction(LAMBDA n, sum : n + sum, 0, [i \in DOMAIN log |-> cost(i)])
        slots(S) == FoldSet(LAMBDA e, sum : e.len + sum, 0, S)
    IN  s.task + (IF log = <<>> THEN 0 ELSE 30 + rows + 1)
               + (IF s.slots = {} THEN 0 ELSE 22 + slots(s.slots \ pruned) + 1)

Scratch(s) == {e \in s.slots : e.scratch}

(* Tiers 1 and 2: the scratch slots go, then all checkpoints but the newest are
   shortened; whatever is left stands, also over its budget. *)
Zone2(s, log, max) ==
    LET pruned == IF RenderZone2(s, log, {}, 0) > max THEN Scratch(s) ELSE {}
        short  == IF RenderZone2(s, log, pruned, 0) > max /\ Len(log) > 1 THEN Len(log) - 1 ELSE 0
    IN  [len |-> RenderZone2(s, log, pruned, short), pruned |-> pruned, short |-> short]

-----------------------------------------------------------------------------
(* Zone 3: the outcomes, numbered, and the turn prompt. *)
ObservationText(observations) ==
    FlatPieces([i \in DOMAIN observations |->
                  <<Ascii(16 + DecimalDigits(i - 1)), observations[i], Ascii(1)>>])

TurnText(prompt) == FlatPieces(SetToSeq({<<Ascii(20), p, Ascii(1)>> : p \in prompt}))

TrimmedText(text) == IF text = <<>> THEN text ELSE SubSeq(text, 1, Len(text) - 1)

(* Tier 3: the outcomes are cut first, from their end; the prompt only when it
   fills the tail alone. *)
Zone3(obs, turn, max) ==
    LET room == Max({0, max - TextSize(turn) - 32})
    IN  IF TextSize(obs) + TextSize(turn) <= max
        THEN [len |-> (IF obs = <<>> THEN 0 ELSE 21 + TextSize(obs)) + TextSize(turn), cut |-> FALSE, whole |-> TRUE]
        ELSE IF TextSize(turn) >= max
        THEN [len |-> 20 + TruncateUtf8(TrimmedText(turn), Max({0, max - 32})) + 19, cut |-> TRUE, whole |-> FALSE]
        ELSE [len |-> (IF room = 0 THEN 0 ELSE 21 + TruncateUtf8(TrimmedText(obs), room) + 32) + TextSize(turn),
              cut |-> TRUE, whole |-> TRUE]

\* Mutant: the fence is not counted.
FenceFree(len) == 0

(* zone3_fence_overhead: two lines around a tail that is not empty. *)
FenceOverhead(len) == IF len = 0 THEN 0 ELSE 28 + DecimalDigits(len) + 51 + 26

Separators(z1, z2) == (IF z1 = 0 THEN 0 ELSE 1) + (IF z2 = 0 THEN 0 ELSE 1)

(* What the tail may take: its own budget, and what the zones before it left of
   the whole. *)
TailBudget(z1, z2, budget) == Min({budget.zone3, Max({0, budget.total - z1 - z2 - Separators(z1, z2)})})

(* compile. *)
Compile(prefix, s, log, observations, prompt, budget) ==
    LET z1    == Zone1(prefix)
        two   == Zone2(s, log, budget.zone2)
        three == Zone3(ObservationText(observations), TurnText(prompt), TailBudget(z1, two.len, budget))
        total == z1 + two.len + three.len + Separators(z1, two.len) + FenceOverhead(three.len)
    IN  [result |-> Verdict(<< <<~ValidateZone1(prefix), "UntrustedInZone1">>,
                               <<z1 > budget.zone1, "Zone1BudgetExceeded">>,
                               <<total > budget.total, "TotalBudgetExceeded">> >>),
         zone1 |-> z1, zone2 |-> two, zone3 |-> three, total |-> total]

(* to_prompt_string: the length of what the model is sent. *)
ToPromptString(c) ==
    LET line(n) == IF n = 0 THEN 0 ELSE n + 1
        tail    == c.zone3.len
    IN  line(c.zone1) + line(c.zone2.len)
        + (IF tail = 0 THEN 0 ELSE (28 + DecimalDigits(tail) + 51) + tail + 26)

-----------------------------------------------------------------------------
(* record_action_outcome, of an outcome ActionSpill formatted: the ring drops
   its oldest. *)
RecordActionOutcome(text) ==
    /\ Len(acted) < MaxActions
    /\ recent' = Append(IF Len(recent) >= MaxRecent THEN Tail(recent) ELSE recent, text)
    /\ acted' = Append(acted, text)
    /\ compiled' = {} /\ UNCHANGED situation

ClearRecentActions ==
    /\ recent' = <<>> /\ acted' = <<>> /\ compiled' = {}
    /\ UNCHANGED situation

Newest(seq, n) == SubSeq(seq, Max({0, Len(seq) - n}) + 1, Len(seq))

(* compile_context: the newest checkpoints, oldest first, and the whole ring. *)
CompileContext(prefix, prompt, budget) ==
    /\ compiled' = {[prefix |-> prefix, prompt |-> prompt, budget |-> budget,
                     out |-> Compile(prefix, situation, Newest(situation.log, LogDepth), recent, prompt, budget)]}
    /\ UNCHANGED <<situation, recent, acted>>

ZoneNext ==
    \/ \E text \in ActionTexts : RecordActionOutcome(text)
    \/ ClearRecentActions
    \/ compiled = {} /\ \E prefix \in HostPrefixes, prompt \in Prompts, budget \in ZoneBudgets : CompileContext(prefix, prompt, budget)

-----------------------------------------------------------------------------
(* A compiled prompt is within the budget of the whole as the model receives
   it, headings, line ends and fence counted, and the number reported for it is
   its length.  Its prefix is the host's, whole and free of tail markers.  What
   is dropped is dropped for want of room and in order: scratch slots before
   the words of an older checkpoint, never the newest checkpoint; outcomes
   before the turn prompt, which is whole wherever it is shorter than the
   tail's share; and without a cut the tail holds every outcome still in the
   ring, the newest ones. *)
CompiledTrue ==
    \A c \in compiled : c.out.result = "ok" =>
        LET two   == c.out.zone2
            log   == Newest(situation.log, LogDepth)
            shown == Newest(acted, MaxRecent)
            share == TailBudget(c.out.zone1, two.len, c.budget)
            obs   == ObservationText(shown)
            turn  == TurnText(c.prompt)
        IN  /\ ToPromptString(c.out) = c.out.total /\ c.out.total <= c.budget.total
            /\ ValidateZone1(c.prefix) /\ c.out.zone1 <= c.budget.zone1
            /\ \A e \in two.pruned : e.scratch
            /\ (two.pruned # {} \/ two.short > 0) => RenderZone2(situation, log, {}, 0) > c.budget.zone2
            /\ two.short > 0 => two.pruned = Scratch(situation) /\ two.short < Len(log)
            /\ ~c.out.zone3.whole => TextSize(turn) >= share
            /\ c.out.zone3.cut => TextSize(obs) + TextSize(turn) > share
            /\ ~c.out.zone3.cut => c.out.zone3.len = (IF shown = <<>> THEN 0 ELSE 21 + TextSize(obs)) + TextSize(turn)
=============================================================================
