---------------------------- MODULE Publication ----------------------------
(***************************************************************************)
(* The publication handshake of the endpoint (endpoint/                    *)
(* metadata_publication.rs, endpoint/provider_binding.rs): a publisher     *)
(* publishes a snapshot, acknowledges exactly the pending one, and binds   *)
(* an acknowledged provider/routing snapshot to the current registry,      *)
(* which issues a proof that others check later.                           *)
(*                                                                         *)
(* A PublicationState is a handle; a clone is an alias that shares the     *)
(* lifetime cell but not the rest, so handles drift apart.  A digest stands *)
(* for its payload (the hash is injective here), and a refused call leaves *)
(* the state as it is, so only the verdict operators show it.              *)
(***************************************************************************)
EXTENDS ProviderRegistry

CONSTANTS Handles,          \* PublicationState values callers hold
          Frames,           \* provider/routing publications callers send
          MetaFrames,       \* generic publications callers send
          MaxIds,           \* MAX_ACCEPTED_PUBLICATION_IDS
          MaxPayloadModels, \* MAX_PROVIDER_ROUTING_MODELS
          MaxPayloadProviders, \* MAX_PROVIDERS
          MaxLifetime,      \* last value of the lifetime sequence (u64::MAX)
          MaxProofs         \* bound: proofs issued

VARIABLES handle,     \* [Handles -> PublicationState]
          nextLife,   \* NEXT_PUBLICATION_LIFETIME_SEQUENCE
          revoked,    \* lifetimes whose cell says revoked
          proofs      \* ProviderRoutingBinding values issued

pvars == <<handle, nextLife, revoked, proofs>>

Exhausted == 0        \* EXHAUSTED_LIFETIME_SEQUENCE, born revoked

None == {}            \* Option::None; a value v is {v}

-----------------------------------------------------------------------------
(* Provider/routing projections. *)

Projected(e) ==
    [name |-> e.name, caps |-> Range(e.caps), window |-> e.window,
     inw |-> e.inw, outw |-> e.outw]

HasDuplicate(caps) == Cardinality(Range(caps)) # Len(caps)

(* The canonical bytes of a registry: its entries in lexicographic order,
   grouped by provider, each capability list sorted. *)
Providers(ms) == SetToSortSeq({e.provider : e \in Range(ms)}, <)

ProjectRegistry(ms) ==
    [i \in DOMAIN Providers(ms) |->
       LET own == SelectSeq(Entries(ms), LAMBDA e : e.provider = Providers(ms)[i])
       IN  [id |-> Providers(ms)[i], models |-> [j \in DOMAIN own |-> Projected(own[j])]]]

(* A registry that lists a capability twice, or too much, has no projection. *)
Projectable(ms) ==
    /\ Len(ms) <= MaxPayloadModels
    /\ Len(Providers(ms)) <= MaxPayloadProviders
    /\ \A i \in DOMAIN ms : ~HasDuplicate(ms[i].caps)

Ascending(s, Key(_)) == \A i \in 1..(Len(s) - 1) : Key(s[i]) < Key(s[i + 1])

PayloadModels(payload) == FlattenSeq([i \in DOMAIN payload |-> payload[i].models])

(* What a published payload must be: providers and models in strict order,
   at least one capability each, within the count bounds. *)
PayloadGood(payload) ==
    /\ Len(payload) <= MaxPayloadProviders
    /\ Ascending(payload, LAMBDA p : p.id)
    /\ \A i \in DOMAIN payload : Ascending(payload[i].models, LAMBDA x : x.name)
    /\ \A x \in Range(PayloadModels(payload)) : x.caps # {}
    /\ Len(PayloadModels(payload)) <= MaxPayloadModels

(* Of a frame's bytes: a JSON object with exactly the expected keys, none of
   them twice, each of its type, within the size bound. *)
WellFormed(f) == f.shape = "good"

ValidIdentity(id) == id \notin Misspelt

(* A digest tells payloads apart and nothing else about them. *)
Sha256(payload) == [sha256 |-> payload]

(* parse_provider_routing_publication: shape, identity, domain, payload,
   spelling, digest. *)
FrameVerdict(f) ==
    Verdict(<< <<~WellFormed(f), "InvalidJson">>,
               <<~ValidIdentity(f.id), "InvalidIdentity">>,
               <<f.domain # "provider-routing", "InvalidDomain">>,
               <<~PayloadGood(f.payload), "InvalidProjection">>,
               <<f.spelling # "canonical", "NonCanonicalProjection">>,
               <<f.digest # Sha256(f.payload), "InvalidDigest">> >>)

(* The identity an acknowledgement frame repeats. *)
Identity(f) == [id |-> f.id, version |-> f.version, digest |-> f.digest]

-----------------------------------------------------------------------------
(* Lifetimes. *)

(* PublicationStateLifetime::mint: the value taken, and the counter after it. *)
Minted == IF nextLife < MaxLifetime THEN nextLife ELSE Exhausted

CounterAfter == IF nextLife < MaxLifetime THEN nextLife + 1 ELSE nextLife

FreshState(life) ==
    [life |-> life, latest |-> None, pending |-> None, accepted |-> {},
     platest |-> None, ppending |-> None, packed |-> None, pbound |-> None,
     paccepted |-> {}, epoch |-> 0]

Revoked(h) == handle[h].life \in revoked

-----------------------------------------------------------------------------
(* The generic handshake; it never looks at the lifetime. *)

Behind(latest, version) == \E last \in latest : version <= last

MetadataVerdict(f) ==
    CASE f.payload = "unsound metadata" -> "InvalidMetadata"
      [] f.payload = "credential"       -> "CredentialLikeValue"
      [] OTHER                          -> "ok"

PublishVerdict(s, f) ==
    Verdict(<< <<~WellFormed(f), "InvalidJson">>,
               <<~ValidIdentity(f.id), "InvalidIdentity">>,
               <<Behind(s.latest, f.version), "StaleOrReplay">>,
               <<MetadataVerdict(f) # "ok", MetadataVerdict(f)>>,
               <<f.digest # Sha256(f.payload), "InvalidDigest">>,
               <<f.id \in s.accepted, "PublicationIdReused">>,
               <<Cardinality(s.accepted) >= MaxIds, "PublicationLimit">> >>)

Publish(h, f) ==
    /\ PublishVerdict(handle[h], f) = "ok"
    /\ handle' = [handle EXCEPT ![h].accepted = @ \cup {f.id},
                                ![h].latest = {f.version},
                                ![h].pending = {Identity(f)}]
    /\ UNCHANGED <<nextLife, revoked, proofs>>

(* acknowledge, and acknowledge_for_endpoint over it: only the exact pending
   publication, once. *)
Acknowledge(h, ack) ==
    /\ ack \in handle[h].pending
    /\ handle' = [handle EXCEPT ![h].pending = None]
    /\ UNCHANGED <<nextLife, revoked, proofs>>

-----------------------------------------------------------------------------
(* The provider/routing handshake. *)

PublishRoutingVerdict(h, f) ==
    LET s == handle[h]
    IN  Verdict(<< <<Revoked(h), "PublicationLifetimeRevoked">>,
                   <<FrameVerdict(f) # "ok", FrameVerdict(f)>>,
                   <<Behind(s.platest, f.version), "StaleOrReplay">>,
                   <<f.id \in s.paccepted, "PublicationIdReused">>,
                   <<Cardinality(s.paccepted) >= MaxIds, "PublicationLimit">> >>)

PublishRouting(h, f) ==
    /\ PublishRoutingVerdict(h, f) = "ok"
    /\ handle' = [handle EXCEPT ![h].paccepted = @ \cup {f.id},
                                ![h].platest = {f.version},
                                ![h].ppending = {Identity(f)},
                                ![h].packed = None,
                                ![h].pbound = None,
                                ![h].epoch = @ + 1]
    /\ UNCHANGED <<nextLife, revoked, proofs>>

AcknowledgeRouting(h, ack) ==
    /\ ~Revoked(h)
    /\ ack \in handle[h].ppending
    /\ handle' = [handle EXCEPT ![h].ppending = None, ![h].packed = {ack}]
    /\ UNCHANGED <<nextLife, revoked, proofs>>

Binding(s, ack) ==
    [ack |-> ack, revision |-> revision, epoch |-> s.epoch, life |-> s.life]

(* bind: equality with the registry issues a proof and consumes the
   acknowledgement; a mismatch consumes it too; a registry that has no
   projection refuses and leaves it. *)
BindEqual(h, ack) ==
    /\ ~Revoked(h) /\ ack \in handle[h].packed /\ Projectable(models)
    /\ Sha256(ProjectRegistry(models)) = ack.digest
    /\ Cardinality(proofs) < MaxProofs
    /\ handle' = [handle EXCEPT ![h].pbound = {ack}, ![h].packed = None]
    /\ proofs' = proofs \cup {Binding(handle[h], ack)}
    /\ UNCHANGED <<nextLife, revoked>>

BindMismatch(h, ack) ==
    /\ ~Revoked(h) /\ ack \in handle[h].packed /\ Projectable(models)
    /\ Sha256(ProjectRegistry(models)) # ack.digest
    /\ handle' = [handle EXCEPT ![h].packed = None]
    /\ UNCHANGED <<nextLife, revoked, proofs>>

\* Mutant: the revision stands for the registry's content.
RegistryVerdictByRevision(b) ==
    IF b.revision # revision THEN "StaleOrReplay"
    ELSE IF ~Projectable(models) THEN "InvalidProjection" ELSE "ok"

RegistryVerdict(b) ==
    IF b.revision # revision THEN "StaleOrReplay"
    ELSE IF ~Projectable(models) THEN "InvalidProjection"
    ELSE IF Sha256(ProjectRegistry(models)) # b.ack.digest THEN "ProjectionMismatch"
    ELSE "ok"

\* Mutant: the lifetime is not compared.
VerifyVerdictAnyLife(h, b) ==
    LET s == handle[h]
        standing == Verdict(<< <<Revoked(h), "PublicationLifetimeRevoked">>,
                               <<s.pbound = None, "NoAcknowledgement">>,
                               <<s.pbound # {b.ack} \/ b.epoch # s.epoch, "Superseded">> >>)
    IN  IF standing = "ok" THEN RegistryVerdict(b) ELSE standing

(* verify: the lifetime before anything a later publication could repeat. *)
VerifyVerdict(h, b) ==
    LET s == handle[h]
        standing == Verdict(<< <<Revoked(h), "PublicationLifetimeRevoked">>,
                               <<b.life # s.life, "PublicationLifetimeMismatch">>,
                               <<s.pbound = None, "NoAcknowledgement">>,
                               <<s.pbound # {b.ack} \/ b.epoch # s.epoch, "Superseded">> >>)
    IN  IF standing = "ok" THEN RegistryVerdict(b) ELSE standing

-----------------------------------------------------------------------------
(* Aliases and restarts. *)

Clone(h, k) ==
    /\ h # k /\ handle[k] # handle[h]
    /\ handle' = [handle EXCEPT ![k] = handle[h]]
    /\ UNCHANGED <<nextLife, revoked, proofs>>

Reset(h) ==
    /\ revoked' = revoked \cup {handle[h].life}
    /\ handle' = [handle EXCEPT ![h] = FreshState(Minted)]
    /\ nextLife' = CounterAfter
    /\ UNCHANGED proofs

PublicationInit ==
    /\ RegistryInit
    /\ handle = [h \in Handles |-> FreshState(1)]
    /\ nextLife = 2 /\ revoked = {Exhausted} /\ proofs = {}

RegistryStep ==
    /\ \/ \E r \in Registrations : Register(r)
       \/ \E a \in AliasDefs : RegisterAlias(a)
       \/ NewRegistry
    /\ UNCHANGED pvars

HandshakeStep ==
    /\ \E h \in Handles :
         \/ \E f \in MetaFrames : Publish(h, f)
         \/ \E ack \in handle[h].pending : Acknowledge(h, ack)
         \/ \E f \in Frames : PublishRouting(h, f)
         \/ \E ack \in handle[h].ppending : AcknowledgeRouting(h, ack)
         \/ \E ack \in handle[h].packed : BindEqual(h, ack)
         \/ \E ack \in handle[h].packed : BindMismatch(h, ack)
         \/ \E k \in Handles : Clone(h, k)
         \/ Reset(h)
    /\ UNCHANGED registry

vars == <<registry, pvars>>

Next == RegistryStep \/ HandshakeStep

Spec == PublicationInit /\ [][Next]_vars

-----------------------------------------------------------------------------
(* The sequence never hands out a lifetime twice, so a reset can always be told
   from its past: a live handle's lifetime is older than the counter, and a
   handle born after the sequence ran out is refused rather than reused. *)
LifetimesDistinct ==
    /\ \A h \in Handles : handle[h].life < nextLife
    /\ \A h \in Handles : handle[h].life = Exhausted => Revoked(h)
    /\ \A b \in proofs : b.life # Exhausted

(* A proof that verifies says something true now: the registry projects to
   exactly the snapshot the publisher acknowledged, the handle's last accepted
   publication is that one (nothing newer is pending or acknowledged), and no
   alias of the lifetime it was issued under has been reset since.  It rests on
   lifetimes that are told apart. *)
VerifiedMeansCurrent ==
    /\ \A h \in Handles : \A b \in proofs :
         VerifyVerdict(h, b) = "ok" =>
           /\ Sha256(ProjectRegistry(models)) = b.ack.digest
           /\ handle[h].platest = {b.ack.version}
           /\ handle[h].ppending = None /\ handle[h].packed = None
           /\ b.life \notin revoked
    /\ LifetimesDistinct

(* A proof issued under another lifetime, or before the handle's last accepted
   publication, never verifies there again: no order of publications, resets
   and bindings brings it back, even when a publication after a reset repeats
   its identity and epoch.  (Overwriting the handle with a clone of another
   starts a different handle.) *)
RefusalIsFinal ==
    [][\A h \in Handles : \A b \in proofs :
         /\ b.life # handle[h].life \/ b.epoch < handle[h].epoch
         /\ ~\E k \in Handles : Clone(k, h)
         => VerifyVerdict(h, b)' # "ok"]_vars
=============================================================================
