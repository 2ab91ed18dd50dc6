---------------------------- MODULE MCContinuity ----------------------------
(***************************************************************************)
(* What outlives a call: the effects of a session that ended (Takeover),   *)
(* the user's consent and the host's IPC under it (Consent), the journal   *)
(* file (Journal), the output of a tool (ActionSpill), what is disclosed   *)
(* of it (Disclosure), the copies the host keeps of these rules            *)
(* (HostMirrors) and the servers that are started again (ServerLaunch).    *)
(* They share no state, so a behaviour exercises one of them, and the      *)
(* state space is their sum.                                               *)
(***************************************************************************)
EXTENDS Takeover, Consent, Journal, ActionSpill, HostMirrors, ServerLaunch

CONSTANT Subjects            \* the parts to exercise

VARIABLE about

continuityVars == <<takeoverVars, consentVars, journalVars, actionVars, envelopeVars, launchVars, mirrorVars, about>>

(* The parts that a behaviour does not exercise start in one state. *)
ContinuityInit ==
    /\ about \in Subjects
    /\ TakeoverInit /\ ConsentInit /\ JournalInit /\ ActionInit /\ EnvelopeInit /\ LaunchInit /\ MirrorInit
    /\ about # "journal" => file = NoFile
    /\ about # "envelope" => bytes = <<>>
    /\ about # "launch" => links = CHOOSE d \in Disks : TRUE

ContinuityNext ==
    \/ /\ about = "takeover" /\ TakeoverNext
       /\ UNCHANGED <<consentVars, journalVars, actionVars, envelopeVars, launchVars, mirrorVars, about>>
    \/ /\ about = "consent" /\ ConsentNext
       /\ UNCHANGED <<takeoverVars, journalVars, actionVars, envelopeVars, launchVars, mirrorVars, about>>
    \/ /\ about = "ipc" /\ IpcNext
       /\ UNCHANGED <<takeoverVars, journalVars, actionVars, envelopeVars, launchVars, mirrorVars, about>>
    \/ /\ about = "journal" /\ JournalNext
       /\ UNCHANGED <<takeoverVars, consentVars, actionVars, envelopeVars, launchVars, mirrorVars, about>>
    \/ /\ about = "actions" /\ ActionNext
       /\ UNCHANGED <<takeoverVars, consentVars, journalVars, envelopeVars, launchVars, mirrorVars, about>>
    \/ /\ about = "envelope" /\ EnvelopeNext
       /\ UNCHANGED <<takeoverVars, consentVars, journalVars, actionVars, launchVars, mirrorVars, about>>
    \/ /\ about = "launch" /\ LaunchNext
       /\ UNCHANGED <<takeoverVars, consentVars, journalVars, actionVars, envelopeVars, mirrorVars, about>>
    \/ /\ about = "mirror" /\ MirrorNext
       /\ UNCHANGED <<takeoverVars, consentVars, journalVars, actionVars, envelopeVars, launchVars, about>>

ContinuitySpec == ContinuityInit /\ [][ContinuityNext]_continuityVars

-----------------------------------------------------------------------------
(* Nothing becomes unreadable: what a tool printed is there in full and shown
   within its bounds (OutputKept), what a turn was shown is accounted for in
   its advisory (AdvisoryExact), and what no reader understands opens as an
   envelope of everything in it that can be shown (EnvelopeExact).  Nothing
   else is disclosed: a secret is gone from a scrubbed text, whatever of the
   text is cut by it (SecretAbsent), and an earlier answer stands in for the
   very same input only (ReuseExact).  The host's copies of these rules, of
   the artifact store, the usage ring, the cache key and the writer's lease
   decide as the originals do (CopiesAgree, ShelfExact, RingsExact, KeysExact,
   GatesExact). *)
LegibleKept ==
    /\ about = "actions" => OutputKept /\ AdvisoryExact
    /\ about = "envelope" => EnvelopeExact /\ SecretAbsent /\ ReuseExact /\ CopiesAgree
    /\ about = "takeover" =>
         \A w \in Writers : \A lease \in leases[w] : CheckWriter(lease) <=> HostCheckWriter(lease, state, generation, epoch) = "ok"
    /\ about = "mirror" => ShelfExact /\ RingsExact /\ KeysExact /\ GatesExact

-----------------------------------------------------------------------------
(* The instance for TLC. *)
WriterSymmetry == Permutations(Writers)

MCGestures ==
    {<< <<"t", "s">> >>, << <<"t", "s">>, <<"u", "s">> >>, << <<"u", "s">>, <<"t", "Bad">> >>, << <<"u", "r">> >>}

MCMethods == [read |-> {"s"}, write |-> {"r"}, unheard |-> {}]

FileOf(a, b, c, profile) == [NoFile EXCEPT !.tables = <<a, b, c>>, !.profile = profile]
Kept == [FileOf("table", "table", "table", {"r6-prototype"}) EXCEPT
           !.rows = {[seq |-> 1, id |-> "a"]}, !.next = 2, !.tombs = {"b"}]
MCFiles ==
    {NoFile, Kept, FileOf("table", "table", "table", {"r6-prototype"}), FileOf("table", "table", "table", {"other"}),
     FileOf("table", "none", "none", {}), FileOf("table", "table", "table", {}), FileOf("occupied", "none", "none", {}),
     FileOf("table", "altered", "table", {"r6-prototype"})}

MCOutputs ==
    {<<>>, <<"D">>, <<" ", "h", "t">>, <<"D", "LF", "a">>, <<"a", "a", "CR">>}
    \cup {a \o b \o c \o b \o a \o <<"a">> : a \in {<<"a">>, <<" ">>, <<"h", "t">>}, b \in {<<"a">>, <<"h", "t">>},
                                             c \in {<<"LF">>, <<"a">>, <<"CR", "LF">>}}
Config(inline, preview) == [inline |-> inline, preview |-> preview]
MCConfigs == {Config(0, 3), Config(0, 7), Config(2, 9), Config(3, 0), Config(3, 8), Config(8, 6)}

MCClassOf == [D |-> "forgery", M |-> "mimicry"]
MCLowerOf == [U |-> "D"]
SeedRecord(untrusted, inline, body) == [untrusted |-> untrusted, inline |-> inline, body |-> body]
MCSeeds ==
    {SeedRecord(FALSE, TRUE, <<"D">>), SeedRecord(TRUE, FALSE, <<"a">>), SeedRecord(TRUE, TRUE, <<"U", "D", "M">>),
     SeedRecord(TRUE, TRUE, <<"M", "h", "h">>), SeedRecord(TRUE, TRUE, <<"t", "a", "h", "t">>)}
MCSeedRecords == UNION {[1..n -> MCSeeds] : n \in 0..2}
MCExecutions == [summary : {<<"a">>, <<"U">>}, data : {<<>>, <<"M", "M">>, <<"D", "a", "a", "a", "a", "a", "a">>}]

MCInputs == UNION {[1..n -> {0, 1, 2, 3, 4}] : n \in 0..6}
MCFallbackId == <<2>>
MCFallbackKind == <<4>>
MCRedacted == <<"R", "S">>
MCSecrets == {<<>>, <<"a">>, <<"t">>, <<"h">>, <<"a", "a">>, <<"t", "a">>, <<"a", "b">>, <<"h", "t">>, <<"R">>, <<"a", "a", "a">>}
MCHaystacks ==
    {Joined(pieces) : pieces \in UNION {[1..n -> {<<"a">>, <<"b">>, <<"h", "t">>, <<"R">>}] : n \in 0..3}}
MCComponents == {{}, {<<>>}, {<<1>>}, {<<1, 1>>}, {<<0>>}}

Binary(kind, content, runs) == [kind |-> kind, bytes |-> content, runs |-> runs]
MCNodes ==
    <<Binary("absent", <<>>, FALSE), Binary("regular", <<1>>, FALSE), Binary("regular", <<2>>, TRUE),
      Binary("regular", <<1>>, TRUE), Binary("fifo", <<>>, FALSE), Binary("regular", <<1, 1>>, TRUE)>>
MCDisks == {<<2, 3>>, <<3, 4>>, <<1, 4>>, <<5, 6>>, <<6, 2>>, <<1, 1>>}
Ref(kind, name) == [kind |-> kind, name |-> name, program |-> "get", args |-> 0]
Plain == [id |-> "s1", command |-> "srv", pin |-> {}, args |-> 0, refs |-> <<>>, cwd |-> "/", timeout |-> 1, allow |-> {"t"}]
MCServerConfigs ==
    {[Plain EXCEPT !.id = "s2", !.timeout = 0],
     [Plain EXCEPT !.pin = {<<1>>}, !.refs = <<Ref("env", "HOME")>>],
     [Plain EXCEPT !.pin = {<<1, 1>>}, !.refs = <<Ref("cmd", "KEY")>>],
     [Plain EXCEPT !.refs = <<Ref("cmd", "KEY"), Ref("env", "EMPTY")>>]}
MCEnvironment == [HOME |-> {"home"}, EMPTY |-> {""}]

UsageRow(tool, label, status, text) ==
    [tool |-> tool, scope |-> <<"s">>, protocol |-> <<"p">>, instance |-> 1, session |-> 1, placement |-> {"native"},
     server |-> label, task |-> {<<>>}, status |-> [kind |-> status, name |-> IF status = "Refused" THEN <<"ESC", "b", "b">> ELSE <<>>, text |-> text], reason |-> text]
MCUsageRows ==
    {UsageRow(<<"a">>, {}, "Success", <<>>), UsageRow(<<"a", "ESC", "a">>, {<<"ESC">>}, "Failed", <<"a", "a", "a">>),
     UsageRow(<<"b">>, {<<"a">>}, "Refused", <<"ESC">>)}
BusSpec(name, scope, placement, native) ==
    [name |-> name, description |-> 1, schema |-> 1, scope |-> scope, placement |-> placement, native |-> native]
Detail(reason, backend) == [reason |-> reason, backend |-> backend]
MCBusSpecs ==
    {BusSpec(<<"a">>, <<"s">>, {"mcp"}, {}), BusSpec(<<"a">>, <<"r">>, {"native"}, {Detail(1, 1)}),
     BusSpec(<<"b", "1">>, <<"s", "s", "s">>, {"native"}, {Detail(1, 1)}), BusSpec(<<"b">>, <<"s">>, {"mcp"}, {Detail(1, 1)}),
     BusSpec(<<"b">>, <<"s">>, {"native"}, {Detail(1, 2)}), BusSpec(<<"b">>, <<"s">>, {"native"}, {Detail(0, 1)}),
     BusSpec(<<"b">>, <<"s">>, {}, {}), BusSpec(<<"1">>, <<"s">>, {"mcp"}, {}), BusSpec(<<"a", "b", "1">>, <<"s">>, {"mcp"}, {}),
     [BusSpec(<<"b">>, <<"s">>, {"mcp"}, {}) EXCEPT !.schema = 2], [BusSpec(<<"b">>, <<"s">>, {"mcp"}, {}) EXCEPT !.description = 2],
     BusSpec(<<"b", "ESC">>, <<"s">>, {"mcp"}, {}), BusSpec(<<"b">>, <<"s">>, {"mcp"}, {})}
BusCall(tool, status) == [tool |-> tool, protocol |-> <<>>, instance |-> 1, session |-> 2, status |-> status]
MCBusCalls ==
    {BusCall(<<"a">>, [kind |-> "Unknown", name |-> <<>>, text |-> <<"ESC", "b", "b">>]),
     BusCall(<<"b", "1">>, [kind |-> "Success", name |-> <<>>, text |-> <<>>]),
     BusCall(<<"b", "a", "b">>, [kind |-> "Refused", name |-> <<"b">>, text |-> <<"a", "a">>])}
AnyRow == [tool |-> {}, scope |-> {}, protocol |-> {}, instance |-> {}, session |-> {}, placement |-> {}]
MCUsageFilters ==
    {AnyRow, [AnyRow EXCEPT !.tool = {<<"a">>}], [AnyRow EXCEPT !.tool = {<<"a", "ESC", "a">>}], [AnyRow EXCEPT !.tool = {<<"a", "?">>}],
     [AnyRow EXCEPT !.scope = {<<"s">>}, !.session = {2}], [AnyRow EXCEPT !.placement = {"mcp"}]}

HeaderText == <<"[", "runtime-turn", "len=", "0", "]", "LF", "E">>
SkillsText == <<"LF", "[", "skills-profile", "len=", "0", "]", "LF">>
MCPrompts ==
    {<<core, <<>>, project, skills, turn>> : core \in {<<>>, <<"x">>, SkillsText}, project \in {<<>>, HeaderText},
                                             skills \in {<<>>, <<"LF">>, HeaderText}, turn \in {<<>>, HeaderText}}
KeyRoute(provider, model, scope) == [provider |-> provider, model |-> model, scope |-> scope]
KeyInput(texts, route, lost, instead) == [texts |-> texts, route |-> route, lost |-> lost, by |-> instead]
Home == KeyRoute("p", "m", "turn")
MCKeyPairs ==
    {<<KeyInput(a, Home, 0, {}), KeyInput(b, Home, 0, {})>> : a \in MCPrompts, b \in MCPrompts}
    \cup {<<KeyInput(a, Home, 0, {}), KeyInput(a, r, 0, {})>> :
            a \in MCPrompts, r \in {KeyRoute("q", "m", "turn"), KeyRoute("p", "q", "turn"), KeyRoute("p", "m", "session"),
                                    KeyRoute("Bad", "m", "turn"), KeyRoute("p", "Bad", "turn")}}
    \cup UNION {{<<KeyInput(a, Home, 0, {}), KeyInput(a, Home, i, b)>> :
                   i \in DOMAIN Rendered(a), b \in {{}, {"1"}, {"LF"}}} : a \in MCPrompts}

MCDigests == {1, 2, 3}
MCPrefixOf == [d \in {1, 2, 3} |-> IF d = 3 THEN "q" ELSE "p"]
MCWords ==
    {Word("marker", 0), Word("fence", 0), Word("plain", 0), Word("cut", 1), Word("cut", 3)} \cup {Word("full", d) : d \in MCDigests}
MCQuestions ==
    {[kind |-> "text", text |-> head \o text] : head \in {<<>>, <<Word("marker", 0)>>}, text \in UNION {[1..n -> MCWords] : n \in 0..3}}
    \cup [kind : {"zones"}, one : {<<>>, <<Word("plain", 0)>>}, two : {<<>>, <<Word("plain", 0)>>},
          three : UNION {[1..n -> {Word("plain", 0), Word("open", 1), Word("close", 0)}] : n \in 0..3}]
    \cup [kind : {"record"}, scopes : 0..3, request : [bytes : {{}, {5}}, tokens : {{}, {1}, {3}}],
          record : [provider : {"git", "other"}, sumLen : {2, 3},
                    body : {[kind |-> "inline", size |-> 3], [kind |-> "inline", size |-> 4], [kind |-> "artifact", ref |-> 1],
                            [kind |-> "artifact", ref |-> 2]}]]
    \cup [kind : {"call"}, tool : {"t"}, grants : BOOLEAN, denied : SUBSET {"t", "u"}, allowed : {{}, {{}}, {{"t"}}, {{"u"}}}]
    \cup [kind : {"capture"}, settings : UNION {[1..n -> [of : {"clipboard", "raw_env"}, allow : BOOLEAN]] : n \in 0..3}]
    \cup [kind : {"heap"}, unreachable : 0..3, unreferenced : 0..3, max : 0..4]
=============================================================================
