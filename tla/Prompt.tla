------------------------------- MODULE Prompt -------------------------------
(***************************************************************************)
(* The layered system prompt (runtime/prompt.rs) and the cache key over    *)
(* its stable prefix (runtime/cache_key.rs): five layers, most binding     *)
(* first, each with a text, tool lists, a budget ceiling, scopes and       *)
(* directives; their merge into one prompt; the dispatch check against it; *)
(* and the project and skills layers read from files.                      *)
(*                                                                         *)
(* A text is its content, its size and the marks found in it: "untrusted"  *)
(* stands for every untrusted marker, "snapshot" for a project-snapshot    *)
(* marker after the first byte, "leading" for the one a verified project   *)
(* text starts with.  Tools, scopes, directive keys and values are naturals;*)
(* 0 is one that its validator refuses.                                    *)
(***************************************************************************)
EXTENDS Verdicts, FiniteSets, SequencesExt

CONSTANTS LayerInputs,       \* LayerInput values the host may offer
          ProjectSets,       \* sequences of project files
          SkillDocs,         \* skill registry documents
          Versions,          \* core versions, "" is invalid
          NeverMerge,        \* directive keys that tolerate no override
          Tools,             \* tools asked for
          MaxLayerText,      \* MAX_LAYER_TEXT_BYTES
          MaxPromptTools,    \* MAX_PROMPT_TOOLS and the other list bounds
          MaxCeiling,        \* MAX_BUDGET_CEILING_BYTES
          MaxCanonical,      \* MAX_CANONICAL_BYTES
          MaxFiles,          \* MAX_PROJECT_FILES
          MaxFileBytes,      \* MAX_PROJECT_FILE_BYTES
          MaxSkills,         \* MAX_SKILL_ENTRIES
          Roots              \* the project roots, paths as sequences of segments

IsSequence(s) == s \in Seq(Range(s))

VARIABLES layers,            \* the snapshot's layers, in the order they were given
          version,           \* core_version
          prompt,            \* the last assembled prompt, {} before one
          asked              \* the last dispatch check

promptVars == <<layers, version, prompt, asked>>

-----------------------------------------------------------------------------
(* Layers and their validation. *)

StableOrder == <<"core-contract", "user", "project", "skills-profile", "runtime-turn">>

Rank(layer) == CHOOSE i \in DOMAIN StableOrder : StableOrder[i] = layer

(* An input is for one of the five layers; files and skill entries come in a
   list, and a path is its place among all paths. *)
ASSUME PromptAssumption ==
    /\ \A input \in LayerInputs : input.layer \in Range(StableOrder)
    /\ \A files \in ProjectSets : IsSequence(files) /\ \A i \in DOMAIN files : files[i].order \in Int
    /\ \A doc \in SkillDocs : IsSequence(doc.entries)
    /\ MaxCeiling \in Nat /\ MaxCanonical \in Nat

EmptyText == [content |-> <<>>, size |-> 0, clean |-> TRUE, marks |-> {}]

TextVerdict(text) ==
    IF text.size > MaxLayerText THEN "LayerTextTooLarge"
    ELSE IF ~text.clean THEN "InvalidLayerText" ELSE "ok"

(* Only the turn layer takes untrusted text; the project layer may lead with
   the snapshot marker of a verified text. *)
PinnedTrust(layer, text) ==
    IF layer = "runtime-turn" THEN "ok"
    ELSE IF \/ text.marks \cap {"untrusted", "snapshot"} # {}
            \/ layer # "project" /\ "leading" \in text.marks
    THEN "InvalidLayerText" ELSE "ok"

(* Optional lists are {} or {list}; a list is a set. *)
LayerVerdict(input) ==
    LET named == input.denied \cup UNION input.allowed IN
    IF TextVerdict(input.text) # "ok" THEN TextVerdict(input.text)
    ELSE IF PinnedTrust(input.layer, input.text) # "ok" THEN PinnedTrust(input.layer, input.text)
    ELSE IF Cardinality(input.denied) > MaxPromptTools \/ \E l \in input.allowed : Cardinality(l) > MaxPromptTools
    THEN "TooManyTools"
    ELSE IF 0 \in named THEN "InvalidToolName"
    ELSE IF \E b \in input.budget : b \notin 1..MaxCeiling THEN "InvalidBudget"
    ELSE IF 0 \in UNION input.scopes THEN "InvalidScope"
    ELSE IF \E d \in Range(input.directives) : d.key = 0 THEN "InvalidDirectiveKey"
    ELSE IF \E d \in Range(input.directives) : d.value = 0 THEN "InvalidDirectiveValue" ELSE "ok"

PromptSnapshotVerdict(ls, v) ==
    LET bad == {i \in DOMAIN ls : LayerVerdict(ls[i]) # "ok"} IN
    IF v = "" THEN "InvalidCoreVersion"
    ELSE IF Len(ls) > Len(StableOrder) THEN "TooManyLayers"
    ELSE IF \E i, j \in DOMAIN ls : i # j /\ ls[i].layer = ls[j].layer THEN "DuplicateLayer"
    ELSE IF bad # {} THEN LayerVerdict(ls[Min(bad)]) ELSE "ok"

-----------------------------------------------------------------------------
(* Assembly. *)

(* sort_by: what has a smaller key, or the same and an earlier place, is before. *)
SortedBefore(key, j, i) == key[j] < key[i] \/ (key[j] = key[i] /\ j < i)

PlaceOf(key, i) == 1 + Cardinality({j \in DOMAIN key : SortedBefore(key, j, i)})

SortedBy(s, key) ==
    LET place == [i \in DOMAIN s |-> PlaceOf(key, i)]
    IN  [k \in DOMAIN s |-> s[CHOOSE i \in DOMAIN s : place[i] = k]]

Ranks(ls) == [i \in DOMAIN ls |-> Rank(ls[i].layer)]

\* Mutant: the layers are merged as they were given.
AsGiven(ls) == ls

Ordered(ls) == SortedBy(ls, Ranks(ls))

Sections(ls) ==
    [k \in DOMAIN StableOrder |->
       LET mine == {i \in DOMAIN ls : ls[i].layer = StableOrder[k]} IN
       IF mine = {} THEN EmptyText ELSE ls[Min(mine)].text]

Intersected(lists) ==
    IF lists = {} THEN {} ELSE {{x \in UNION lists : \A l \in lists : x \in l}}

(* The first value of a key, most binding layer first, stands; a later
   different one is recorded, or refused where the key or the layer forbids. *)
DirectiveStep(acc, layer, d) ==
    LET first == {w \in acc.set : w.key = d.key} IN
    IF first = {} THEN [acc EXCEPT !.set = @ \cup {[key |-> d.key, value |-> d.value, layer |-> layer]}]
    ELSE LET w == CHOOSE x \in first : TRUE IN
         IF w.value = d.value THEN acc
         ELSE IF d.key \in NeverMerge \/ w.layer = layer THEN [acc EXCEPT !.conflict = TRUE]
         ELSE [acc EXCEPT !.overrides = @ \cup {[key |-> d.key, winner |-> w, value |-> d.value, layer |-> layer]}]

Directives(ls) ==
    FoldLeft(LAMBDA acc, input :
               FoldLeft(LAMBDA a, d : DirectiveStep(a, input.layer, d), acc, input.directives),
             [set |-> {}, overrides |-> {}, conflict |-> FALSE], ls)

(* render_canonical: length-framed sections, then the effective part. *)
Canonical(v, sections, effective) == <<v>> \o sections \o <<effective>>

CanonicalSize(sections, effective) ==
    FoldSeq(LAMBDA t, n : t.size + n, Cardinality(effective.overrides) + Cardinality(effective.denied), sections)

PromptError(e) == [error |-> e]

Effective(ls) ==
    LET directive == Directives(Ordered(ls))
        budgets   == UNION {input.budget : input \in Range(ls)}
    IN  [allowed |-> Intersected(UNION {input.allowed : input \in Range(ls)}),
         denied |-> UNION {input.denied : input \in Range(ls)},
         budget |-> IF budgets = {} THEN {} ELSE {Min(budgets)},
         scopes |-> Intersected(UNION {input.scopes : input \in Range(ls)}),
         directives |-> directive.set, overrides |-> directive.overrides]

Assembled(ls, v) ==
    LET effective == Effective(ls)
        sections  == Sections(Ordered(ls))
        size      == CanonicalSize(sections, effective)
    IN  IF PromptSnapshotVerdict(ls, v) # "ok" THEN PromptError(PromptSnapshotVerdict(ls, v))
        ELSE IF effective.allowed = {{}} THEN PromptError("PromptNotAllowed")
        ELSE IF Directives(Ordered(ls)).conflict THEN PromptError("UnresolvableConflict")
        ELSE IF size \notin 0..MaxCanonical THEN PromptError("CanonicalTooLarge")
        ELSE IF \E b \in effective.budget : size > b THEN PromptError("InvalidBudget")
        ELSE [error |-> "ok", effective |-> effective, size |-> size,
              canonical |-> Canonical(v, sections, effective)]

CheckDispatch(p, tool, granted) ==
    IF ~granted THEN "DispatcherDenied"
    ELSE IF tool \in p.effective.denied THEN "PromptDenied"
    ELSE IF \E list \in p.effective.allowed : tool \notin list THEN "PromptNotAllowed" ELSE "ok"

\* Mutant: the key covers the turn's own section too.
StablePrefixWhole(canonical) == SubSeq(canonical, 1, Len(StableOrder) + 1)

(* stable_prefix_len: up to the end of the last stable layer's section. *)
StablePrefix(canonical) == SubSeq(canonical, 1, Len(StableOrder))

CacheKey(provider, model, scope, canonical) ==
    [provider |-> provider, model |-> model, scope |-> scope, prefix |-> StablePrefix(canonical)]

-----------------------------------------------------------------------------
(* Project files and skill entries.  A source is header lines and a text. *)

EmptyParts == [error |-> "ok", text |-> <<>>, allowed |-> {}, denied |-> {}, budget |-> {},
               scopes |-> {}, directives |-> {}]

Fault(parts, e) == [parts EXCEPT !.error = IF @ = "ok" THEN e ELSE @]

Put(parts, key, value) ==
    LET first == {d \in parts.directives : d.key = key} IN
    IF first = {} THEN [parts EXCEPT !.directives = @ \cup {[key |-> key, value |-> value]}]
    ELSE IF \E d \in first : d.value # value THEN Fault(parts, "Conflict") ELSE parts

HeaderStep(parts, line) ==
    CASE line.key = "allow_tool" -> IF line.value = 0 THEN Fault(parts, "InvalidToolName")
                                    ELSE [parts EXCEPT !.allowed = @ \cup {line.value}]
      [] line.key = "deny_tool"  -> IF line.value = 0 THEN Fault(parts, "InvalidToolName")
                                    ELSE [parts EXCEPT !.denied = @ \cup {line.value}]
      [] line.key = "scope"      -> IF line.value = 0 THEN Fault(parts, "InvalidScope")
                                    ELSE [parts EXCEPT !.scopes = @ \cup {line.value}]
      [] line.key = "directive"  -> IF line.name = 0 THEN Fault(parts, "InvalidDirectiveKey")
                                    ELSE Put(parts, line.name, line.value)
      [] line.key = "budget"     -> IF line.value \notin 1..MaxCeiling THEN Fault(parts, "InvalidBudget")
                                    ELSE IF parts.budget \in {{}, {line.value}}
                                    THEN [parts EXCEPT !.budget = {line.value}]
                                    ELSE Fault(parts, "Malformed")
      [] OTHER                   -> Fault(parts, "Malformed")

(* Within one source a directive given two values is malformed. *)
ParseSource(source) ==
    LET parts == FoldLeft(HeaderStep, [EmptyParts EXCEPT !.text = source.text], source.lines) IN
    IF source.size > MaxFileBytes THEN Fault(EmptyParts, "FileTooLarge")
    ELSE IF ~source.clean THEN Fault(EmptyParts, "Malformed")
    ELSE IF parts.error = "Conflict" THEN [parts EXCEPT !.error = "Malformed"] ELSE parts

(* A path is absolute or not, and its segments; it lies under a root of the
   same kind when the root's segments lead it. *)
AdmitPath(path) ==
    /\ path.segments # <<>> /\ {"", ".", ".."} \cap Range(path.segments) = {}
    /\ \E root \in Roots : root.absolute = path.absolute /\ IsPrefix(root.segments, path.segments)

(* Across sources in path order: texts follow each other, lists add up, the
   lowest budget stands, a directive given two values is a conflict. *)
MergeParts(acc, parts) ==
    LET put == FoldSet(LAMBDA d, a : Put(a, d.key, d.value), acc, parts.directives) IN
    [put EXCEPT !.text = @ \o parts.text, !.allowed = @ \cup parts.allowed, !.denied = @ \cup parts.denied,
                !.scopes = @ \cup parts.scopes,
                !.budget = IF @ \cup parts.budget = {} THEN {} ELSE {Min(@ \cup parts.budget)}]

Merged(parsed) == FoldLeft(MergeParts, EmptyParts, parsed)

(* Directives leave a BTreeMap in key order. *)
InKeyOrder(directives) == SetToSortSeq(directives, LAMBDA a, b : a.key < b.key)

LayerFrom(layer, parts) ==
    [layer |-> layer,
     text |-> [content |-> parts.text, size |-> Len(parts.text), clean |-> TRUE,
               marks |-> UNION {IF parts.text[i] = "untrusted" THEN {"untrusted"} ELSE {} : i \in DOMAIN parts.text}],
     allowed |-> IF parts.allowed = {} THEN {} ELSE {parts.allowed}, denied |-> parts.denied,
     budget |-> parts.budget, scopes |-> IF parts.scopes = {} THEN {} ELSE {parts.scopes},
     directives |-> InKeyOrder(parts.directives)]

Paths(files) == [i \in DOMAIN files |-> files[i].order]

ProjectLayer(files) ==
    LET parsed == [i \in DOMAIN files |-> ParseSource(files[i].source)]
        merged == Merged(SortedBy(parsed, Paths(files)))
        bad    == {i \in DOMAIN files : ~AdmitPath(files[i].path) \/ parsed[i].error # "ok"}
        layer  == LayerFrom("project", merged)
    IN  IF Len(files) > MaxFiles THEN [error |-> "TooManyProjectFiles"]
        ELSE IF bad # {} THEN [error |-> IF AdmitPath(files[Min(bad)].path) THEN parsed[Min(bad)].error
                                         ELSE "InvalidProjectPath"]
        ELSE IF \E i, j \in DOMAIN files : i # j /\ files[i].order = files[j].order THEN [error |-> "MalformedProject"]
        ELSE IF merged.error # "ok" THEN [error |-> "UnresolvableConflict"]
        ELSE [error |-> LayerVerdict(layer), layer |-> layer]

(* A skill entry names itself and a supported version; it sets no budget. *)
EntryFault(entry) ==
    IF \E i \in DOMAIN entry.source.lines : entry.source.lines[i].key = "budget" THEN "MalformedSkill"
    ELSE IF ParseSource(entry.source).error # "ok" THEN ParseSource(entry.source).error
    ELSE IF entry.name = {} THEN "MalformedSkill"
    ELSE IF entry.version = {} THEN "MissingSkillVersion"
    ELSE IF entry.version # {1} THEN "UnsupportedSkillVersion" ELSE "ok"

SkillsLayer(doc) ==
    LET bad    == {i \in DOMAIN doc.entries : EntryFault(doc.entries[i]) # "ok"}
        parsed == [i \in DOMAIN doc.entries |-> ParseSource(doc.entries[i].source)]
        merged == Merged(SortedBy(parsed, [i \in DOMAIN parsed |-> Max(doc.entries[i].name)]))
        layer  == LayerFrom("skills-profile", merged)
    IN  IF doc.version = {} THEN [error |-> "MalformedSkill"]
        ELSE IF doc.version # {1} THEN [error |-> "UnsupportedSkillVersion"]
        ELSE IF bad # {} THEN [error |-> EntryFault(doc.entries[Min(bad)])]
        ELSE IF Len(doc.entries) > MaxSkills THEN [error |-> "TooManySkills"]
        ELSE IF \E i, j \in DOMAIN doc.entries : i # j /\ doc.entries[i].name = doc.entries[j].name
        THEN [error |-> "DuplicateSkill"]
        ELSE IF merged.error # "ok" THEN [error |-> "UnresolvableConflict"]
        ELSE [error |-> LayerVerdict(layer), layer |-> layer]

-----------------------------------------------------------------------------
(* The host builds a snapshot, assembles it and checks calls against it. *)

NoCheck == [tool |-> 0, verdict |-> "none"]

PromptInit == layers = <<>> /\ version \in Versions /\ prompt = {} /\ asked = NoCheck

(* A layer replaces the one of its name, or joins at either end. *)
With(ls, input) ==
    IF \E i \in DOMAIN ls : ls[i].layer = input.layer
    THEN {[ls EXCEPT ![CHOOSE i \in DOMAIN ls : ls[i].layer = input.layer] = input]}
    ELSE {Append(ls, input), <<input>> \o ls}

Offer(input) ==
    /\ layers' \in With(layers, input) \cup {Append(layers, input)}
    /\ asked' = NoCheck /\ UNCHANGED <<version, prompt>>

LoadProject(files) ==
    /\ ProjectLayer(files).error = "ok"
    /\ layers' \in With(layers, ProjectLayer(files).layer)
    /\ asked' = NoCheck /\ UNCHANGED <<version, prompt>>

LoadSkills(doc) ==
    /\ SkillsLayer(doc).error = "ok"
    /\ layers' \in With(layers, SkillsLayer(doc).layer)
    /\ asked' = NoCheck /\ UNCHANGED <<version, prompt>>

AssemblePrompt ==
    /\ Assembled(layers, version).error = "ok"
    /\ prompt' = {[made |-> Assembled(layers, version), of |-> layers]}
    /\ asked' = NoCheck
    /\ UNCHANGED <<layers, version>>

Dispatch(tool, granted) ==
    \E p \in prompt :
      /\ asked' = [tool |-> tool, verdict |-> CheckDispatch(p.made, tool, granted)]
      /\ UNCHANGED <<layers, version, prompt>>

PromptNext ==
    \/ \E input \in LayerInputs : Offer(input)
    \/ \E files \in ProjectSets : LoadProject(files)
    \/ \E doc \in SkillDocs : LoadSkills(doc)
    \/ AssemblePrompt
    \/ \E tool \in Tools, granted \in BOOLEAN : Dispatch(tool, granted)

PromptSpec == PromptInit /\ [][PromptNext]_promptVars

-----------------------------------------------------------------------------
(* Adding a layer only narrows: a tool the check lets through is denied by no
   layer of the prompt and on every list a layer gives, and the canonical text
   fits the ceiling of every layer. *)
LayersNarrow ==
    \A p \in prompt : \A i \in DOMAIN p.of :
      /\ asked.verdict = "ok" => /\ asked.tool \notin p.of[i].denied
                                 /\ \A list \in p.of[i].allowed : asked.tool \in list
      /\ \A b \in p.of[i].budget : p.made.size <= b

Shuffles(D) == {f \in [D -> D] : Range(f) = D}

Reordered(s) == {[i \in DOMAIN s |-> s[f[i]]] : f \in Shuffles(DOMAIN s)}

SameOrRefused(a, b) == IF a.error = "ok" THEN a = b ELSE b.error # "ok"

(* The order in which the layers were offered, and the one in which the project
   files were read, does not show in the prompt or in the refusal to make one
   (stated at the start, as neither reads any other state). *)
OrderFree ==
    /\ prompt = {} =>
         LET made == Assembled(layers, version)
         IN  \A other \in Reordered(layers) : SameOrRefused(made, Assembled(other, version))
    /\ layers = <<>> /\ version # "" => \A files \in ProjectSets : \A other \in Reordered(files) :
                           SameOrRefused(ProjectLayer(files), ProjectLayer(other))

(* What is in a prompt is what its layers say, in whatever order they came: a
   layer only narrows what the ones before it allow (LayersNarrow), and order
   does not show (OrderFree). *)
PromptTrue == LayersNarrow /\ OrderFree

(* From one turn to the next the cache key moves exactly when the text of a
   stable layer does: what the turn layer says, tools and budgets included,
   never moves it. *)
TurnKeepsKey ==
    [][\A p \in prompt, q \in prompt' :
         LET texts(ls) == SubSeq(Sections(ls), 1, 4) IN
         CacheKey(1, 1, "turn", p.made.canonical) = CacheKey(1, 1, "turn", q.made.canonical)
           <=> texts(p.of) = texts(q.of)]_promptVars
=============================================================================
