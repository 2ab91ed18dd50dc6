--------------------------- MODULE MCControlPlane ---------------------------
(***************************************************************************)
(* The two ends of a published registry: the host's publication state and  *)
(* the proofs it issues (Publication), and the helper process that says    *)
(* the same over the control stream (HelperLaunch, HelperControl).  They   *)
(* share no state, so a behaviour exercises one of them.                   *)
(***************************************************************************)
EXTENDS Publication, HelperLaunch

CONSTANT Sides               \* the sides to exercise

VARIABLE side

controlPlaneVars == <<vars, helperVars, side>>

(* The side that a behaviour does not exercise starts in one state. *)
ControlPlaneInit ==
    /\ side \in Sides
    /\ PublicationInit /\ HelperInit
    /\ side # "helper" => /\ manifest = CHOOSE m \in Manifests : TRUE
                          /\ peer = CHOOSE p \in Peers : TRUE
                          /\ view.bytes = CHOOSE b \in Payloads : TRUE

ControlPlaneNext ==
    \/ side = "publication" /\ Next /\ UNCHANGED <<helperVars, side>>
    \/ side = "helper" /\ HelperNext /\ UNCHANGED <<vars, side>>

ControlPlaneSpec == ControlPlaneInit /\ [][ControlPlaneNext]_controlPlaneVars

-----------------------------------------------------------------------------
(* The instance for TLC. *)
CONSTANT MaxWork   \* bound on Work below

\* Providers 1 and 2 are well formed, 9 breaks the grammar.
OneMisspelt == {9}
MCIdLen(p) == 8

Few == {Registration(1, 1, <<"text", "tools">>, 8, 0, 1),
        Registration(1, 1, <<"tools", "text">>, 8, 0, 1),
        Registration(2, 1, <<"text", "text">>, 0, 1, 1),
        Registration(1, 2, <<"text">>, 8, 2, 0)}

OneAlias == {[alias |-> 1, candidates |-> <<ModelRef(1, 1)>>]}

P1 == ProjectRegistry(<<Registration(1, 1, <<"text", "tools">>, 8, 0, 1)>>)
P2 == ProjectRegistry(<<Registration(1, 2, <<"text">>, 8, 2, 0)>>)
EmptyProvider == <<[id |-> 1, models |-> <<>>]>>

Frame(id, version, payload) ==
    [id |-> id, version |-> version, digest |-> Sha256(payload), payload |-> payload,
     shape |-> "good", domain |-> "provider-routing", spelling |-> "canonical"]

ManyFrames ==
    {Frame(1, 2, P1), Frame(2, 1, P1), Frame(2, 3, EmptyProvider),
     [Frame(2, 2, P1) EXCEPT !.domain = "metadata"],
     [Frame(2, 2, P1) EXCEPT !.spelling = "spaced"],
     [Frame(2, 2, P1) EXCEPT !.digest = Sha256(P2)],
     [Frame(2, 2, P1) EXCEPT !.shape = "duplicate key"],
     Frame(9, 2, P1)}

TwoMeta ==
    {[id |-> 1, version |-> 1, digest |-> Sha256("facts"), payload |-> "facts", shape |-> "good"],
     [id |-> 2, version |-> 1, digest |-> Sha256("facts"), payload |-> "credential", shape |-> "good"]}

Accepted(h) == 2 * Cardinality(handle[h].accepted) + Cardinality(handle[h].paccepted)

(* Accepted calls; a reset or a generic publication counts twice. *)
Work == revision + 2 * (nextLife - 2) + MapThenSumSet(Accepted, Handles)

HandleSymmetry == Permutations(Handles)

-----------------------------------------------------------------------------
Sound == [channel |-> "eof", size |-> 4, versions |-> TRUE, roles |-> TRUE, fields |-> "whole",
          keyProfile |-> TRUE, purpose |-> TRUE, profile |-> TRUE, key |-> "matches"]
MCManifests ==
    {Sound, [Sound EXCEPT !.channel = "io"], [Sound EXCEPT !.channel = "trailing"],
     [Sound EXCEPT !.channel = "probe io"], [Sound EXCEPT !.size = 5], [Sound EXCEPT !.versions = FALSE],
     [Sound EXCEPT !.fields = "cut"], [Sound EXCEPT !.keyProfile = FALSE], [Sound EXCEPT !.purpose = FALSE],
     [Sound EXCEPT !.key = "differs"]}

Pinned == [version |-> "1.3", alpn |-> "control", certificates |-> 1, pinned |-> TRUE, flights |-> 2, answer |-> 1]
MCPeers ==
    {Pinned, [Pinned EXCEPT !.version = "1.2"], [Pinned EXCEPT !.alpn = "other"],
     [Pinned EXCEPT !.certificates = 2], [Pinned EXCEPT !.certificates = 0], [Pinned EXCEPT !.pinned = FALSE],
     [Pinned EXCEPT !.flights = 4], [Pinned EXCEPT !.answer = 3]}

Bad(len, cut, known, kind) ==
    [len |-> len, cut |-> cut, known |-> known,
     rec |-> [kind |-> kind, seq |-> 1, sender |-> "core", session |-> "launch"]]
Odd(rec) == [len |-> 2, cut |-> "none", known |-> TRUE, rec |-> rec]
MCBadFrames ==
    {Bad(2, "closed", TRUE, "Error"), Bad(2, "body", TRUE, "Error"), Bad(0, "none", TRUE, "Error"),
     Bad(5, "none", TRUE, "Error"), Bad(1, "none", TRUE, "Error"), Bad(2, "memory", TRUE, "Error"),
     Bad(4, "none", TRUE, "Error"), Bad(2, "none", FALSE, "Error"), Bad(2, "none", TRUE, "Admit"),
     Odd([kind |-> "Admit", seq |-> 2, sender |-> "core", session |-> "launch"]),
     Odd([kind |-> "Error", seq |-> 2, sender |-> "helper", session |-> "launch"]),
     Odd([kind |-> "Error", seq |-> 2, sender |-> "core", session |-> "other"]),
     Odd([kind |-> "Invalidate", seq |-> 2, sender |-> "core", session |-> "launch", id |-> 1, rev |-> 1,
          reason |-> "RegistryMutation"]),
     Odd([kind |-> "Bind", seq |-> 2, sender |-> "core", session |-> "launch",
          ack |-> [id |-> 1, rev |-> 1, version |-> 1]]),
     Odd([kind |-> "Publish", seq |-> 2, sender |-> "core", session |-> "launch", id |-> 1, rev |-> 1,
          version |-> 0, ours |-> TRUE, bytes |-> "a"]),
     Odd([kind |-> "Publish", seq |-> 2, sender |-> "core", session |-> "launch", id |-> 1, rev |-> 1,
          version |-> 1, ours |-> FALSE, bytes |-> "a"])}

(* One launch at a time departs from the sound one; a rogue Core or a moving
   registry is met early. *)
Small ==
    /\ manifest = Sound \/ peer = Pinned
    /\ helper.drawn <= MaxLifetimes
    /\ Len(toCore) <= 3 /\ Len(toHelper) <= 2
    /\ (stage = "control" \/ exit \notin {"none", "Handshake"}) =>
         (shake.read <= 2 /\ shake.written = 0) \/ manifest # Sound \/ peer # Pinned
    /\ core.rogue => helper.drawn <= 1 /\ ~core.drifted
    /\ core.drifted => helper.drawn <= 1

Bounded == IF side = "publication" THEN Work <= MaxWork ELSE Small
=============================================================================
