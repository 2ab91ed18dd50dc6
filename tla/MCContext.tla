----------------------------- MODULE MCContext ------------------------------
(***************************************************************************)
(* Everything between an observation and the bytes of a turn: the records  *)
(* and their assembly (Assembly), their compression and its durable image  *)
(* (Compaction) and the layered prompt (Prompt).  They share no state, so  *)
(* a behaviour exercises one of them, and the state space is their sum.    *)
(***************************************************************************)
EXTENDS Assembly, Compaction, Prompt

CONSTANT Parts               \* the parts to exercise

VARIABLE part

planeVars == <<assemblyVars, compactionVars, promptVars, part>>

(* The parts that a behaviour does not exercise start in one state. *)
PlaneInit ==
    /\ part \in Parts
    /\ AssemblyInit /\ CompactionInit /\ PromptInit
    /\ part # "compaction" => pool = CHOOSE rs \in Pools : TRUE
    /\ part # "prompt" => version = ""

PlaneNext ==
    \/ part = "assembly" /\ AssemblyNext /\ UNCHANGED <<compactionVars, promptVars, part>>
    \/ part = "compaction" /\ CompactionNext /\ UNCHANGED <<assemblyVars, promptVars, part>>
    \/ part = "prompt" /\ PromptNext /\ UNCHANGED <<assemblyVars, compactionVars, part>>

PlaneSpec == PlaneInit /\ [][PlaneNext]_planeVars

-----------------------------------------------------------------------------
(* The instance for TLC. *)
-----------------------------------------------------------------------------
(* Assembly. *)
Known == {"workspace", "project", "diagnostics"}
Obs(id, at, untrusted, priority, summary, body, supersedes) ==
    [id |-> id, provider |-> "workspace", owner |-> 1, generation |-> 0, at |-> at, priority |-> priority,
     untrusted |-> untrusted, summary |-> summary, sumLen |-> 1, body |-> body, supersedes |-> supersedes]
MCObservations ==
    {Obs(1, 0, FALSE, 1, 1, InlineBody(1, 3), {}), Obs(2, 1, TRUE, 3, 1, InlineBody(1, 3), {}),
     Obs(3, 1, TRUE, 2, 3, InlineBody(3, 1), {1}), Obs(4, 0, FALSE, 2, 4, InlineBody(4, 3), {1})}
Json == [wellFormed |-> TRUE, schema |-> "ProjectSnapshot", version |-> {1}, canonical |-> {1},
         label |-> 9, revision |-> 1]
Snap(id, content, size) ==
    [id |-> id, content |-> content, digest |-> content, size |-> size, owner |-> 1, at |-> 0,
     priority |-> 3, json |-> Json]
MCSnapshots == {Snap(5, 5, 2), Snap(6, 6, 5)}
RefusedSnapshots ==
    {Snap(0, 5, 2), Snap(5, 5, 0), [Snap(5, 5, 2) EXCEPT !.digest = 6], Snap(5, 5, 9),
     [Snap(5, 5, 2) EXCEPT !.json.wellFormed = FALSE], [Snap(5, 5, 2) EXCEPT !.json.schema = "Other"],
     [Snap(5, 5, 2) EXCEPT !.json.version = {2}], [Snap(5, 5, 2) EXCEPT !.owner = 9]}
AllSnapshots == MCSnapshots \cup RefusedSnapshots
Delta(text, pin) == [text |-> text, marked |-> TRUE, pin |-> pin, size |-> 1]
CompiledTurn(deltas) ==
    [id |-> 7, stem |-> 20, size |-> 2, markers |-> 1, leads |-> TRUE, tail |-> 7, prefixes |-> {7},
     digest |-> 7, deltas |-> deltas, generation |-> 1, owner |-> 1, at |-> 0,
     priority |-> 2, deltaPriority |-> 1]
MCTurns == {CompiledTurn(<<Delta(21, {1})>>), CompiledTurn(<<Delta(21, {2})>>), CompiledTurn(<<Delta(21, {})>>),
            [CompiledTurn(<<>>) EXCEPT !.markers = 2], [CompiledTurn(<<>>) EXCEPT !.tail = 8], [CompiledTurn(<<>>) EXCEPT !.size = 0],
            [CompiledTurn(<<>>) EXCEPT !.stem = 0], [CompiledTurn(<<>>) EXCEPT !.size = 5], [CompiledTurn(<<>>) EXCEPT !.owner = 9]}
MCBudgets == {[bytes |-> {}, tokens |-> {}], [bytes |-> {6}, tokens |-> {}], [bytes |-> {1}, tokens |-> {1}]}
SmallAssembly ==
    /\ Len(inbox) <= 3 /\ store.next <= 2
    /\ turn = {} \/ Len(inbox) <= 1
    /\ Len(inbox) > 1 => \A i \in DOMAIN inbox : inbox[i].generation = inbox[1].generation

-----------------------------------------------------------------------------
(* Compaction. *)
Raw(id, at, untrusted, priority) ==
    [id |-> id, provider |-> "workspace", owner |-> 1, generation |-> 1, at |-> at, priority |-> priority,
     untrusted |-> untrusted, summary |-> {id}, sumLen |-> 1, body |-> InlineBody(id, 1), supersedes |-> {}]
MCPools ==
    {<<Raw(1, 0, TRUE, 2), Raw(2, 1, FALSE, 2), Raw(3, 1, FALSE, 3)>>,
     <<Raw(1, 0, FALSE, 1), Raw(10, 1, FALSE, 1)>>,
     <<Raw(1, 0, FALSE, 1), [Raw(2, 0, FALSE, 1) EXCEPT !.body = Reference(1)]>>}
MCTags == (1 :> "Ephemeral") @@ (3 :> "Pinned")
MCReplies == {{}, {1}, {9}}
MCProtections == {{}, {2}}
MCSeeds == {{}, {9}}
Policy(window, keep) == [window |-> window, keep |-> keep, num |-> 1, den |-> 2, strikes |-> 2]
MCPolicies == {Policy(12, 1), Policy(7, 1), Policy(1, 1)}
SmallCompaction ==
    /\ Cardinality(db.tombstones) <= 1 /\ db.strikes <= 1
    /\ \A v \in view : Cardinality(v.tombstones) <= 1
    /\ db.strikes = 0 \/ view = {}

-----------------------------------------------------------------------------
(* Prompt. *)
Text(content, marks) == [content |-> content, size |-> Len(content), clean |-> TRUE, marks |-> marks]
Layer(name, text) ==
    [layer |-> name, text |-> text, allowed |-> {}, denied |-> {}, budget |-> {}, scopes |-> {},
     directives |-> <<>>]
Says(key, value) == [key |-> key, value |-> value]
Core == [Layer("core-contract", Text(<<"a">>, {})) EXCEPT !.allowed = {{1, 2}}, !.directives = <<Says(1, 1)>>]
User == [Layer("user", Text(<<"b">>, {})) EXCEPT !.allowed = {{1, 3}}, !.denied = {2}, !.budget = {6},
                                                  !.directives = <<Says(1, 2), Says(2, 1)>>]
Turn1 == [Layer("runtime-turn", Text(<<"c">>, {"untrusted"})) EXCEPT !.scopes = {{1}}]
Turn2 == [Layer("runtime-turn", Text(<<"c", "d">>, {})) EXCEPT !.denied = {1}, !.directives = <<Says(2, 2)>>]
Good == {Core, User, Turn1, Turn2}
Bad  == {[Layer("user", Text(<<"x">>, {"untrusted"})) EXCEPT !.scopes = {{2}}],
         Layer("core-contract", Text(<<"x">>, {"leading"})),
         [Layer("user", Text(<<"x">>, {})) EXCEPT !.directives = <<Says(9, 1)>>],
         [Layer("runtime-turn", Text(<<"x">>, {})) EXCEPT !.directives = <<Says(9, 2)>>],
         [Layer("runtime-turn", Text(<<"x">>, {})) EXCEPT !.allowed = {{3}}],
         [Layer("user", Text(<<"x">>, {})) EXCEPT !.budget = {1}],
         [Layer("user", Text(<<"x">>, {})) EXCEPT !.denied = {0}]}
MCInputs == Good \cup Bad
Line(key, value) == [key |-> key, value |-> value, name |-> 1]
Src(lines, text) == [size |-> 1, clean |-> TRUE, lines |-> lines, text |-> text]
Path(order) == [absolute |-> TRUE, segments |-> <<"home", "p">>]
File(order, lines, text) == [order |-> order, path |-> Path(order), source |-> Src(lines, text)]
Up == [absolute |-> TRUE, segments |-> <<"home", "..">>]
MCProjects ==
    {<<File(2, <<Line("allow_tool", 1), Line("budget", 8)>>, <<"p">>),
       File(1, <<Line("allow_tool", 2), Line("budget", 5), Line("directive", 3)>>, <<"q">>)>>,
     <<File(1, <<Line("directive", 1)>>, <<>>), File(2, <<Line("directive", 2)>>, <<>>)>>,
     <<File(1, <<Line("directive", 1), Line("directive", 2)>>, <<>>)>>,
     <<File(1, <<Line("deny_tool", 0)>>, <<>>)>>, <<File(1, <<Line("colour", 1)>>, <<>>)>>,
     <<File(1, <<>>, <<>>), File(1, <<>>, <<"q">>)>>,
     <<[File(1, <<Line("scope", 1)>>, <<>>) EXCEPT !.path = Up]>>,
     <<File(1, <<Line("deny_tool", 3), Line("scope", 1)>>, <<"untrusted">>)>>}
Entry(name, v, lines, text) == [name |-> name, version |-> v, source |-> Src(lines, text)]
MCSkills ==
    {[version |-> {1}, entries |-> <<Entry({2}, {1}, <<Line("deny_tool", 3)>>, <<"s">>),
                                      Entry({1}, {1}, <<Line("scope", 1)>>, <<"t">>)>>],
     [version |-> {1}, entries |-> <<Entry({1}, {1}, <<>>, <<>>), Entry({1}, {1}, <<>>, <<>>)>>],
     [version |-> {1}, entries |-> <<Entry({1}, {}, <<>>, <<>>)>>],
     [version |-> {1}, entries |-> <<Entry({}, {1}, <<>>, <<>>)>>],
     [version |-> {1}, entries |-> <<Entry({1}, {2}, <<>>, <<>>)>>],
     [version |-> {1}, entries |-> <<Entry({1}, {1}, <<Line("budget", 2)>>, <<>>)>>],
     [version |-> {}, entries |-> <<>>], [version |-> {2}, entries |-> <<>>]}
MCRoots == {[absolute |-> TRUE, segments |-> <<"home">>]}
(* After the first prompt one layer changes from turn to turn. *)
SmallPrompt ==
    /\ Len(layers) <= 3
    /\ \A p \in prompt : /\ Len(layers) = Len(p.of)
                         /\ Cardinality({i \in DOMAIN layers : layers[i] # p.of[i]}) <= 1

-----------------------------------------------------------------------------
Small == /\ part = "assembly" => SmallAssembly
         /\ part = "compaction" => SmallCompaction
         /\ part = "prompt" => SmallPrompt
=============================================================================
