--------------------------- MODULE HelperControl ----------------------------
(***************************************************************************)
(* The helper side of the provider-publication control channel             *)
(* (control/state.rs, control/framing.rs): establishment, the publication  *)
(* transaction Publish -> Ack -> Bind -> Bound, the rotation of lifetimes  *)
(* by either side, and the terminal revocation every fault ends in.  The   *)
(* Core at the other end is external; it is modelled from the records the  *)
(* helper accepts and sends.  Two first-in first-out streams join them.    *)
(*                                                                         *)
(* Random identifiers are fresh naturals: a lifetime's id is its rank.     *)
(***************************************************************************)
EXTENDS Verdicts, FiniteSets, SequencesExt

CONSTANTS Payloads,          \* canonical bytes of a projection
          BadFrames,         \* frames and records a conforming Core never writes
          MaxSequence,       \* the last sequence number of a direction
          MaxFeed,           \* the last feed revision
          MaxVersion,        \* bound on the publications of Core
          MaxLifetimes,      \* bound on the lifetimes drawn
          HeaderBytes, FrameMax, SmallMax   \* bounds of a frame

VARIABLES helper,            \* HelperControl
          view,              \* the RegistryView: revision and bytes
          core,              \* what Core knows and has sent
          toHelper, toCore,  \* the two streams
          blame              \* the record a protocol fault was raised on

controlVars == <<helper, view, core, toHelper, toCore, blame>>

-----------------------------------------------------------------------------
(* Framing. *)

(* read_record: the length is judged before anything is allocated or read, the
   small-record bound before the record is decoded. *)
ReadVerdict(f) ==
    Verdict(<< <<f.cut = "closed", "Closed">>, <<f.cut = "prefix", "TruncatedPrefix">>,
               <<f.len = 0, "ZeroLength">>, <<f.len > FrameMax, "FrameTooLarge">>,
               <<f.len < HeaderBytes, "FrameShorterThanHeader">>,
               <<f.cut = "memory", "AllocationFailed">>,
               <<f.cut = "body", "TruncatedBody">>, <<f.cut = "io", "Io">>,
               <<f.len > SmallMax /\ f.known /\ f.rec.kind \notin {"Projection", "Publish"}, "SmallRecordTooLarge">>,
               <<~f.known, "Record">> >>)

(* How a frame that could not be read ends the session. *)
ReadFault(verdict) ==
    IF verdict \in {"Closed", "TruncatedPrefix", "TruncatedBody", "Io"}
    THEN [reason |-> "ControlTransport", code |-> {}]
    ELSE IF verdict = "AllocationFailed" THEN [reason |-> "ResourceLimit", code |-> {"ResourceLimit"}]
    ELSE [reason |-> "ProtocolViolation", code |-> {"InvalidControl"}]

FrameOf(rec) == [len |-> HeaderBytes, cut |-> "none", known |-> TRUE, rec |-> rec]

-----------------------------------------------------------------------------
(* A call in progress: c.h the helper's fields, c.out what it wrote, c.error the
   first error, c.dead how many writes the stream still takes (negative: all). *)

NewHelper ==
    [phase |-> "AwaitingEstablish", in |-> 0, out |-> 0, lifetime |-> {}, predecessor |-> {},
     pending |-> {}, receipt |-> {}, version |-> 0, revocation |-> "none", drawn |-> 0]

Call(h, dead) == [h |-> h, out |-> <<>>, error |-> "ok", dead |-> dead]

ClearAuthority(h) ==
    [h EXCEPT !.lifetime = {}, !.predecessor = {}, !.pending = {}, !.receipt = {}]

(* raw_send: the sequence moves only when the record went out. *)
RawSend(c, body) ==
    IF c.h.out = MaxSequence \/ c.dead = 0 THEN c
    ELSE [c EXCEPT !.h = [c.h EXCEPT !.out = @ + 1], !.dead = @ - 1, !.out = Append(@, [body EXCEPT !.seq = c.h.out + 1])]

Fault(error, reason, code) == [error |-> error, reason |-> reason, code |-> code]

ProtocolFault(error)  == Fault(error, "ProtocolViolation", {"InvalidControl"})
EstablishmentFault    == Fault("EstablishmentMismatch", "EstablishmentMismatch", {"InvalidControl"})
RegistryFault         == Fault("Registry", "RegistryUnavailable", {"Unavailable"})
RetainedFault         == Fault("RetainedBytesMismatch", "RetainedBytesMismatch", {"InvalidControl"})
VersionFault          == Fault("VersionExhausted", "VersionExhausted", {"ResourceLimit"})
RandomFault           == Fault("RandomUnavailable", "RandomUnavailable", {"Unavailable"})
PeerFault             == Fault("PeerError", "PeerError", {})

(* fail: the first fault revokes, clears and, where a code fits, says so. *)
Fail(c, fault) ==
    LET revoked == [c EXCEPT !.error = fault.error,
                             !.h = ClearAuthority([c.h EXCEPT !.phase = "Revoked", !.revocation = fault.reason])]
    IN  IF fault.code = {} THEN revoked ELSE RawSend(revoked, [kind |-> "Error", seq |-> 0])

(* emit: a failed write is a transport fault, an exhausted counter its own. *)
Emit(c, body) ==
    IF c.error # "ok" THEN c
    ELSE IF c.h.out = MaxSequence THEN Fail(c, Fault("VersionExhausted", "VersionExhausted", {}))
    ELSE IF c.dead = 0 THEN Fail(c, Fault("Frame", "ControlTransport", {}))
    ELSE RawSend(c, body)

(* The shape of every handler: checks <<bad, fault>> in order, then the new
   fields, then at most two records in order; nothing after an error. *)
Continue(c, checks, next, bodies) ==
    LET c0 == [c EXCEPT !.h = next]
        c1 == IF Len(bodies) >= 1 THEN Emit(c0, bodies[1]) ELSE c0
    IN  IF c.error # "ok" THEN c
        ELSE IF Failing(checks) # {} THEN Fail(c, checks[Min(Failing(checks))][2])
        ELSE IF Len(bodies) = 2 THEN Emit(c1, bodies[2]) ELSE c1

LifetimeRec(kind, l) == [kind |-> kind, seq |-> 0, id |-> l.id, rev |-> l.rev]

InvalidateRec(l, reason) == [kind |-> "Invalidate", seq |-> 0, id |-> l.id, rev |-> l.rev, reason |-> reason]

ProjectionRec(l, bytes) == [kind |-> "Projection", seq |-> 0, id |-> l.id, rev |-> l.rev, bytes |-> bytes]

FreshLifetime(h, rev) == [id |-> h.drawn + 1, rev |-> rev]

-----------------------------------------------------------------------------
(* validate_envelope. *)
Envelope(c, rec) ==
    Continue(c, << <<rec.sender # "core", ProtocolFault("UnexpectedSender")>>,
                   <<rec.session # "launch", ProtocolFault("SessionMismatch")>>,
                   <<rec.seq # c.h.in + 1, ProtocolFault("SequenceMismatch")>> >>,
             [c.h EXCEPT !.in = rec.seq], <<>>)

\* Mutant: the echo is taken as it comes.
EchoTaken(rec) == TRUE

EchoMatches(rec) == rec.echo

(* establish: the snapshot is read before a lifetime is drawn. *)
Establish(c, rec, env) ==
    LET l == FreshLifetime(c.h, view.rev) IN
    IF rec.kind # "Establish" THEN Continue(c, << <<TRUE, ProtocolFault("UnexpectedRecord")>> >>, c.h, <<>>)
    ELSE Continue(c, << <<~EchoMatches(rec), EstablishmentFault>>,
                        <<~env.available, RegistryFault>>, <<~env.random, RandomFault>> >>,
                  [c.h EXCEPT !.lifetime = {l}, !.drawn = l.id, !.phase = "Ready"],
                  <<LifetimeRec("Established", l), ProjectionRec(l, view.bytes)>>)

\* Mutant: the receipt of the old bytes is kept.
DropPending(h) == [h EXCEPT !.pending = {}]

DropProof(h) == [h EXCEPT !.pending = {}, !.receipt = {}]

(* A rotation: the current lifetime becomes the predecessor, a fresh one and
   the projection follow. *)
Rotate(c, checks, rev, bytes) ==
    LET l == FreshLifetime(c.h, rev) IN
    Continue(c, checks,
             [c.h EXCEPT !.predecessor = c.h.lifetime, !.lifetime = {l}, !.drawn = l.id, !.phase = "Ready"],
             <<LifetimeRec("Lifetime", l), ProjectionRec(l, bytes)>>)

(* handle_publish. *)
HandlePublish(c, rec, env) ==
    LET ack == [id |-> rec.id, rev |-> rec.rev, version |-> rec.version] IN
    Continue(c, << <<{[id |-> rec.id, rev |-> rec.rev]} # c.h.lifetime, ProtocolFault("StaleAuthority")>>,
                   <<c.h.pending # {}, ProtocolFault("PublicationAlreadyPending")>>,
                   <<~rec.ours, ProtocolFault("PublicationIdentityMismatch")>>,
                   <<rec.version <= c.h.version, ProtocolFault("PublicationVersionNotIncreasing")>>,
                   <<~env.random, RandomFault>> >>,
             [c.h EXCEPT !.receipt = {}, !.version = rec.version, !.phase = "AwaitingBind",
                         !.pending = {[ack |-> ack, bytes |-> rec.bytes]}],
             <<[kind |-> "Ack", seq |-> 0, ack |-> ack]>>)

(* RegistryView::retained_matches. *)
RetainedMatches(p) == p.ack.rev = view.rev /\ p.bytes = view.bytes

(* handle_bind: the pending publication is used up, whatever comes of it. *)
HandleBind(c, rec, env) ==
    Continue(c, << <<c.h.pending = {}, ProtocolFault("NoPendingBind")>>,
                   <<\A p \in c.h.pending : p.ack # rec.ack, ProtocolFault("BindMismatch")>>,
                   <<~env.available, RegistryFault>>,
                   <<\A p \in c.h.pending : ~RetainedMatches(p), RetainedFault>>,
                   <<~env.random, RandomFault>> >>,
             [c.h EXCEPT !.pending = {}, !.receipt = c.h.pending, !.phase = "Ready"],
             <<[kind |-> "Bound", seq |-> 0, ack |-> rec.ack]>>)

Withdraws(reason) == reason \in {"GrantLoss", "Shutdown"}

Withdrawn(h) == ClearAuthority([h EXCEPT !.phase = "Revoked", !.revocation = "PeerWithdrewAuthority"])

(* An invalidation that crossed our own rotation is used up, and closes if it
   withdraws. *)
Crossed(h, reason) == IF Withdraws(reason) THEN Withdrawn(h) ELSE [h EXCEPT !.predecessor = {}]

\* Mutant: no predecessor is remembered.
IsPredecessorNever(h, named) == FALSE

IsPredecessor(h, named) == h.predecessor = {named}

(* handle_invalidate: the current lifetime rotates or closes. *)
HandleInvalidate(c, rec, env) ==
    LET named == [id |-> rec.id, rev |-> rec.rev] IN
    IF rec.reason = "RegistryMutation" THEN Fail(c, ProtocolFault("CoreRegistryMutation"))
    ELSE IF c.h.lifetime = {named}
    THEN IF Withdraws(rec.reason) THEN [c EXCEPT !.h = Withdrawn(c.h)]
         ELSE Rotate([c EXCEPT !.h = DropProof(c.h)],
                     << <<~env.available, RegistryFault>>, <<view.rev # rec.rev, ProtocolFault("StaleAuthority")>>,
                        <<~env.random, RandomFault>> >>, rec.rev, view.bytes)
    ELSE IF IsPredecessor(c.h, named) THEN [c EXCEPT !.h = Crossed(c.h, rec.reason)]
    ELSE Fail(c, ProtocolFault("StaleAuthority"))

(* step. *)
Handle(c, rec, env) ==
    IF c.error # "ok" THEN c ELSE
    CASE rec.kind = "Publish"    -> HandlePublish(c, rec, env)
      [] rec.kind = "Bind"       -> HandleBind(c, rec, env)
      [] rec.kind = "Invalidate" -> HandleInvalidate(c, rec, env)
      [] rec.kind = "Error"      -> Fail(c, PeerFault)
      [] OTHER                   -> Fail(c, ProtocolFault("UnexpectedRecord"))

-----------------------------------------------------------------------------
(* The helper's calls. *)

Environments == [available : BOOLEAN, random : BOOLEAN]

Healthy == [available |-> TRUE, random |-> TRUE]

Done(c) == helper' = c.h /\ toCore' = toCore \o c.out

Active == helper.phase \in {"Ready", "AwaitingBind"}

IdOf(h) == CHOOSE l \in h.lifetime : TRUE

Blamed(c, kind, lag) ==
    IF c.h.revocation = "ProtocolViolation" THEN {[kind |-> kind, lag |-> lag, error |-> c.error]} ELSE blame

(* How many lifetimes behind the current one a record is. *)
LagOf(rec) == IF "id" \in DOMAIN rec THEN helper.drawn - rec.id
              ELSE IF "ack" \in DOMAIN rec THEN helper.drawn - rec.ack.id ELSE 0

(* establish and step read one frame; a call outside its phase reads none. *)
ReadAndHandle(env, dead) ==
    LET f == Head(toHelper)
        v == ReadVerdict(f)
        in == Envelope(Call(helper, dead), f.rec)
        c == IF v # "ok" THEN Fail(Call(helper, dead), Fault(v, ReadFault(v).reason, ReadFault(v).code))
             ELSE IF in.h.phase = "AwaitingEstablish" THEN Establish(in, f.rec, env)
             ELSE Handle(in, f.rec, env)
    IN  /\ toHelper # <<>> /\ helper.phase # "Revoked"
        /\ Done(c)
        /\ toHelper' = Tail(toHelper)
        /\ blame' = IF v = "ok" THEN Blamed(c, f.rec.kind, LagOf(f.rec)) ELSE blame
        /\ UNCHANGED <<view, core>>

HelperStep == ReadAndHandle(Healthy, -1)

(* The same with a fault of the registry, the random source or the stream. *)
HelperFaultyStep ==
    \/ \E env \in Environments \ {Healthy} : ReadAndHandle(env, -1)
    \/ \E dead \in 0..1 : ReadAndHandle(Healthy, dead)

(* establish called again. *)
EstablishAgain ==
    LET c == Fail(Call(helper, -1), ProtocolFault("AlreadyEstablished")) IN
    /\ Active
    /\ Done(c) /\ blame' = Blamed(c, "call", 0)
    /\ UNCHANGED <<view, core, toHelper>>

(* registry_mutated: the predecessor is invalidated on the wire before the
   registry moves; the registry must then be exactly one revision on. *)
RegistryMutated(bytes, step, env, dead) ==
    LET l    == IdOf(helper)
        said == Continue(Call(helper, dead),
                         << <<l.rev = MaxFeed, VersionFault>>, <<~env.available, RegistryFault>>,
                            <<view.rev # l.rev, ProtocolFault("StaleAuthority")>> >>,
                         DropProof(helper), <<InvalidateRec(l, "RegistryMutation")>>)
        c    == Rotate(said, << <<step # 1, RegistryFault>>, <<~env.random, RandomFault>> >>, l.rev + 1, bytes)
    IN  /\ Active
        /\ Done(c) /\ blame' = Blamed(c, "call", 0)
        /\ view' = IF said.error = "ok" THEN [rev |-> view.rev + step, bytes |-> bytes] ELSE view
        /\ UNCHANGED <<core, toHelper>>

(* reset: the same records at the same revision. *)
HelperReset(env, dead) ==
    LET l    == IdOf(helper)
        said == Continue(Call(helper, dead), <<>>, DropProof(helper), <<InvalidateRec(l, "Reset")>>)
        c    == Rotate(said, << <<~env.available, RegistryFault>>,
                                <<view.rev # l.rev, ProtocolFault("StaleAuthority")>>,
                                <<~env.random, RandomFault>> >>, l.rev, view.bytes)
    IN  /\ Active
        /\ Done(c) /\ blame' = Blamed(c, "call", 0)
        /\ UNCHANGED <<view, core, toHelper>>

(* close: local, nothing is sent. *)
Close ==
    /\ helper.phase # "Revoked"
    /\ helper' = ClearAuthority([helper EXCEPT !.phase = "Revoked", !.revocation = "LocalClose"])
    /\ UNCHANGED <<view, core, toHelper, toCore, blame>>

(* The registry behind the view moves without the helper. *)
Drift ==
    /\ ~core.drifted /\ view.rev < MaxFeed
    /\ \E bytes \in Payloads : view' = [rev |-> view.rev + 1, bytes |-> bytes]
    /\ core' = [core EXCEPT !.drifted = TRUE]
    /\ UNCHANGED <<helper, toHelper, toCore, blame>>

-----------------------------------------------------------------------------
(* Core, external: it publishes what it was projected, binds what was
   acknowledged, invalidates the lifetime it knows at most once, and waits for
   a new lifetime after that. *)

NewCore == [seq |-> 0, lifetime |-> {}, bytes |-> {}, version |-> 0, sent |-> {}, acked |-> {}, receipt |-> {},
            echoed |-> FALSE, withdrawn |-> FALSE, rogue |-> FALSE, drifted |-> FALSE]

CoreSend(rec, next) ==
    /\ toHelper' = Append(toHelper, FrameOf(rec))
    /\ core' = [next EXCEPT !.seq = @ + 1]
    /\ UNCHANGED <<helper, view, toCore, blame>>

CoreEstablish(echo) ==
    /\ core.seq = 0
    /\ CoreSend([kind |-> "Establish", seq |-> 1, sender |-> "core", session |-> "launch", echo |-> echo],
                [core EXCEPT !.echoed = echo, !.rogue = @ \/ ~echo])

CorePublish(bytes) ==
    \E l \in core.lifetime :
      /\ core.sent = {} /\ core.version < MaxVersion /\ ~core.withdrawn /\ core.bytes # {}
      /\ CoreSend([kind |-> "Publish", seq |-> core.seq + 1, sender |-> "core", session |-> "launch",
                   id |-> l.id, rev |-> l.rev, version |-> core.version + 1, ours |-> TRUE, bytes |-> bytes],
                  [core EXCEPT !.version = @ + 1, !.receipt = {},
                               !.sent = {[id |-> l.id, rev |-> l.rev, version |-> core.version + 1]},
                               !.rogue = @ \/ {bytes} # core.bytes])

CoreBind ==
    \E ack \in core.acked :
      /\ ~core.withdrawn
      /\ CoreSend([kind |-> "Bind", seq |-> core.seq + 1, sender |-> "core", session |-> "launch", ack |-> ack],
                  [core EXCEPT !.acked = {}])

CoreInvalidate(reason) ==
    \E l \in core.lifetime :
      /\ ~core.withdrawn
      /\ CoreSend([kind |-> "Invalidate", seq |-> core.seq + 1, sender |-> "core", session |-> "launch",
                   id |-> l.id, rev |-> l.rev, reason |-> reason],
                  [core EXCEPT !.lifetime = {}, !.sent = {}, !.acked = {}, !.receipt = {},
                               !.withdrawn = Withdraws(reason)])

CoreError ==
    /\ core.seq > 0 /\ ~core.withdrawn
    /\ CoreSend([kind |-> "Error", seq |-> core.seq + 1, sender |-> "core", session |-> "launch"],
                [core EXCEPT !.withdrawn = TRUE])

(* A record no conforming Core writes. *)
CoreRogue ==
    \E f \in BadFrames :
      /\ ~core.rogue /\ core.seq > 0
      /\ toHelper' = Append(toHelper, f)
      /\ core' = [core EXCEPT !.rogue = TRUE]
      /\ UNCHANGED <<helper, view, toCore, blame>>

(* What Core makes of a record; after its own invalidation it awaits the next
   lifetime and lets late answers pass. *)
CoreLearn(rec) ==
    CASE rec.kind \in {"Established", "Lifetime"} ->
           [core EXCEPT !.lifetime = {[id |-> rec.id, rev |-> rec.rev]}, !.bytes = {}]
      [] rec.kind = "Projection" -> [core EXCEPT !.bytes = {rec.bytes}]
      [] rec.kind = "Ack"   -> IF core.sent = {rec.ack} THEN [core EXCEPT !.acked = {rec.ack}] ELSE core
      [] rec.kind = "Bound" -> IF core.sent = {rec.ack}
                               THEN [core EXCEPT !.receipt = {rec.ack}, !.sent = {}] ELSE core
      [] rec.kind = "Invalidate" ->
           [core EXCEPT !.lifetime = {}, !.bytes = {}, !.sent = {}, !.acked = {}, !.receipt = {}]
      [] rec.kind = "Error" -> [core EXCEPT !.lifetime = {}, !.bytes = {}, !.sent = {}, !.acked = {}, !.receipt = {},
                                            !.withdrawn = TRUE]

CoreReceive ==
    /\ toCore # <<>>
    /\ core' = CoreLearn(Head(toCore))
    /\ toCore' = Tail(toCore)
    /\ UNCHANGED <<helper, view, toHelper, blame>>
=============================================================================
