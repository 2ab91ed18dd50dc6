---------------------------- MODULE HelperLaunch ----------------------------
(***************************************************************************)
(* The launch of the helper around its control state machine               *)
(* (control/entrypoint.rs, manifest.rs, server.rs): the bounded manifest   *)
(* record read to its end, the pinned mutual-certificate handshake under   *)
(* its wire and step budgets, establishment, and the loop whose result is  *)
(* the exit of the process.                                                *)
(***************************************************************************)
EXTENDS HelperControl

CONSTANTS Manifests,         \* what the bootstrap channel may carry
          Peers,             \* what the other end of the control stream may be
          MaxBootstrap,      \* CONTROL_BOOTSTRAP_MAX_BYTES
          WireMax,           \* TLS_PREAUTH_WIRE_MAX_BYTES
          StepsMax           \* TLS_PREAUTH_STEPS_MAX

(* BadFrames is what a Core that breaks the protocol writes besides its moves:
   no frame in it passes the reader and establishes, withdraws or reports an
   error, which Core does by its own moves below.  A header fits a small record
   and a small record fits a frame. *)
ASSUME LaunchAssumption ==
    /\ WireMax \in Nat /\ StepsMax \in Nat /\ MaxSequence \in Nat
    /\ FrameMax \in Nat /\ SmallMax \in 1..FrameMax /\ HeaderBytes \in 1..SmallMax
    /\ \A f \in BadFrames :
         (ReadVerdict(f) = "ok" /\ f.rec.sender = "core" /\ f.rec.session = "launch") =>
           /\ f.rec.kind \notin {"Establish", "Error"}
           /\ f.rec.kind = "Invalidate" => ~Withdraws(f.rec.reason)
           /\ f.rec.kind = "Publish" => f.rec.version \in Nat

VARIABLES stage,             \* "bootstrap", "handshake", "control", or "exited"
          exit,              \* HelperExit once exited
          manifest, peer,    \* this launch's
          shake              \* the accept loop: steps, bytes read and written, flights left

launchVars == <<stage, exit, manifest, peer, shake>>
helperVars == <<controlVars, launchVars>>

-----------------------------------------------------------------------------
(* LaunchManifest::read_from and parse: the total first, then field by field,
   then the exact end, then the values and the key. *)

FieldsWhole(m) == m.versions /\ m.roles /\ m.fields = "whole"

ValuesValid(m) == m.keyProfile /\ m.purpose /\ m.profile

KeyValid(m) == m.key = "matches"

ReadManifest(m) ==
    Verdict(<< <<m.channel = "io", "BootstrapIo">>,
               <<m.size > MaxBootstrap, "BootstrapManifest">>,
               <<~FieldsWhole(m), "BootstrapManifest">>,
               <<~ValuesValid(m), "BootstrapManifest">>,
               <<~KeyValid(m), "BootstrapManifest">>,
               <<m.channel = "trailing", "BootstrapTrailingData">>,
               <<m.channel = "probe io", "BootstrapIo">> >>)

(* PinnedClientCertVerifier and established_peer: exactly one leaf, its digest
   pinned, TLS 1.3 and the control protocol negotiated. *)
EstablishedPeer(p) ==
    Verdict(<< <<p.version # "1.3", "UnexpectedProtocolVersion">>,
               <<p.alpn # "control", "AlpnNotNegotiated">>,
               <<p.certificates = 0, "MissingPeerCertificate">>,
               <<p.certificates # 1, "UnexpectedPeerCertificateChain">>,
               <<~p.pinned, "PeerCertificatePinMismatch">> >>)

Verified(p) == p.certificates = 1 /\ p.pinned

-----------------------------------------------------------------------------
NewShake == [steps |-> 0, read |-> 0, written |-> 0, flights |-> 0]

Exit(e) == stage' = "exited" /\ exit' = e

Bootstrap ==
    /\ stage = "bootstrap"
    /\ IF ReadManifest(manifest) = "ok"
       THEN stage' = "handshake" /\ exit' = exit
       ELSE Exit(ReadManifest(manifest))
    /\ UNCHANGED <<controlVars, manifest, peer, shake>>

Allowed(used) == WireMax - used

(* The TLS state of a turn that read n bytes and had w to write: it fails at the
   end of the stream, past a budget, on a refused certificate and when the
   handshake outlasts its steps. *)
ShakeFails(n, w, next, last) ==
    \/ Allowed(shake.read) = 0 \/ n = 0
    \/ w > Allowed(shake.written)
    \/ last /\ (~Verified(peer) \/ EstablishedPeer(peer) # "ok")
    \/ ~last /\ next.steps = StepsMax

(* One turn of the accept loop: a read within what is left of the budget, the
   packets processed, the answer written within its own budget; n and w are the
   bytes that pass.  The certificate is judged with the last flight. *)
Shake(n, w) ==
    /\ stage = "handshake" /\ shake.steps < StepsMax
    /\ n <= Allowed(shake.read) /\ w <= peer.answer
    /\ LET flown == shake.flights + 1
           last  == flown >= peer.flights
           next  == [steps |-> shake.steps + 1, read |-> shake.read + n,
                     written |-> shake.written + Min({w, Allowed(shake.written)}), flights |-> flown]
       IN  /\ shake' = next
           /\ IF ShakeFails(n, w, next, last)
              THEN Exit("Handshake")
              ELSE stage' = (IF last THEN "control" ELSE stage) /\ exit' = exit
    /\ UNCHANGED <<controlVars, manifest, peer>>

(* run_helper's loop: the first step that closes the authority or fails ends
   the process. *)
ExitOf(before, after) ==
    IF after.phase # "Revoked" THEN "none"
    ELSE IF before.phase = "AwaitingEstablish" THEN "Establish"
    ELSE IF after.revocation = "PeerWithdrewAuthority" THEN "AuthorityClosed"
    ELSE IF after.revocation = "PeerError" THEN "PeerClosed" ELSE "Control"

Driven ==
    /\ IF ExitOf(helper, helper') = "none" THEN UNCHANGED <<stage, exit>> ELSE Exit(ExitOf(helper, helper'))
    /\ UNCHANGED <<manifest, peer, shake>>

CoreMoves ==
    \/ \E echo \in BOOLEAN : CoreEstablish(echo)
    \/ \E bytes \in Payloads : CorePublish(bytes)
    \/ CoreBind
    \/ \E reason \in {"SourceMutation", "GrantLoss"} : CoreInvalidate(reason)
    \/ CoreError \/ CoreRogue \/ CoreReceive \/ Drift

HelperInit ==
    /\ helper = NewHelper /\ core = NewCore /\ toHelper = <<>> /\ toCore = <<>> /\ blame = {}
    /\ \E bytes \in Payloads : view = [rev |-> 1, bytes |-> bytes]
    /\ stage = "bootstrap" /\ exit = "none" /\ manifest \in Manifests /\ peer \in Peers /\ shake = NewShake

HelperMoves ==
    \/ HelperFaultyStep
    \/ EstablishAgain
    \/ \E bytes \in Payloads, step \in 0..2 : RegistryMutated(bytes, step, Healthy, -1)
    \/ \E env \in Environments \ {Healthy}, bytes \in Payloads : RegistryMutated(bytes, 1, env, -1)
    \/ \E dead \in 0..2, bytes \in Payloads : RegistryMutated(bytes, 1, Healthy, dead)
    \/ HelperReset(Healthy, -1)
    \/ \E env \in Environments \ {Healthy} : HelperReset(env, -1)
    \/ \E dead \in 0..2 : HelperReset(Healthy, dead)
    \/ Close

HelperNext ==
    \/ Bootstrap
    \/ \E n \in 0..WireMax, w \in 0..WireMax : Shake(n, w)
    \/ stage = "control" /\ (HelperStep \/ HelperMoves) /\ Driven
    \/ stage = "control" /\ CoreMoves /\ UNCHANGED launchVars

HelperSpec == HelperInit /\ [][HelperNext]_helperVars

-----------------------------------------------------------------------------
Quiet == toHelper = <<>> /\ toCore = <<>>

(* With both streams drained and the helper's authority standing, Core and the
   helper agree: on the lifetime, on the receipt, and the bytes behind the
   receipt are the registry's (unless the registry moved on its own).  A Core
   that has just invalidated has no lifetime until the next is announced. *)
Agreement ==
    (Quiet /\ ~core.rogue /\ Active) =>
      /\ core.lifetime = helper.lifetime
      /\ core.receipt = {r.ack : r \in helper.receipt}
      /\ ~core.drifted => \A r \in helper.receipt : r.bytes = view.bytes /\ r.ack.rev = view.rev

(* Records that cross a rotation: against a conforming Core a protocol fault is
   raised only by a publication or a bind that a rotation overtook, by an
   invalidation that two overtook, by a registry that moved on its own, or by
   the caller establishing twice; one crossed invalidation never ends control.
   A grant that Core withdraws, or an error it reports, is never dropped: once
   everything Core sent has been handled the authority is gone, whichever of
   the helper's own rotations the withdrawal crossed. *)
CrossingSettled ==
    /\ (helper.revocation = "ProtocolViolation" /\ ~core.rogue) =>
         \E b \in blame : \/ b.kind \in {"Publish", "Bind"} /\ b.lag >= 1
                          \/ b.kind = "Invalidate" /\ b.lag >= 2
                          \/ core.drifted \/ b.error = "AlreadyEstablished"
    /\ (core.withdrawn /\ toHelper = <<>>) => helper.phase = "Revoked"

(* Nothing is said to a peer before the whole launch held: a sound manifest
   read to its end, the pinned leaf over TLS 1.3 within the wire budget, the
   launch echoed; and the process exits well only for a Core that withdrew or
   reported an error. *)
LaunchGated ==
    /\ helper.drawn > 0 => /\ ReadManifest(manifest) = "ok" /\ core.echoed
                           /\ Verified(peer) /\ EstablishedPeer(peer) = "ok"
                           /\ shake.read \in 1..WireMax /\ shake.written <= WireMax /\ shake.steps <= StepsMax
    /\ shake.read <= WireMax
    /\ exit \in {"AuthorityClosed", "PeerClosed"} =>
         core.withdrawn /\ helper.drawn > 0 /\ helper.lifetime = {}
=============================================================================
