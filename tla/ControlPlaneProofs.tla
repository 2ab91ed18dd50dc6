------------------------- MODULE ControlPlaneProofs -------------------------
(***************************************************************************)
(* The publication handshake (Publication), for every set of handles,      *)
(* frames and registrations and every bound: a proof of binding that       *)
(* verifies is about the present, and one that was refused for good is     *)
(* never accepted again.  Then the helper process (HelperLaunch): nothing  *)
(* is said to a peer before the whole launch held, and the process exits   *)
(* well only on the peer's account.  Last, the two ends of the control     *)
(* stream: a conforming Core is never blamed for what crossed on its way,  *)
(* and once both streams are drained helper and Core agree.                *)
(***************************************************************************)
EXTENDS Publication, HelperLaunch, NaturalsInduction, WellFoundedInduction, TLAPS

\* Every non-empty set of naturals has its least element.
LEMMA LeastCheck ==
    ASSUME NEW S \in SUBSET Nat, S # {}
    PROVE  Min(S) \in S /\ \A x \in S : Min(S) <= x
  <1>1. PICK n \in S : \A x \in S : <<x, n>> \notin OpToRel(<, Nat)
    BY NatLessThanWellFounded, WFMin, Zenon
  <1>2. ASSUME NEW x \in S, x < n PROVE FALSE
    <2>1. <<x, n>> \in OpToRel(<, Nat)
      BY <1>2 DEF OpToRel
    <2> QED
      BY <2>1, <1>1
  <1>3. \A x \in S : n <= x
    BY <1>2
  <1> QED
    BY <1>3 DEF Min

\* A gate that answers "ok", and never as a refusal, had no failing check.
LEMMA VerdictOk ==
    ASSUME NEW checks, DOMAIN checks \subseteq Nat, Verdict(checks) = "ok",
           \A i \in DOMAIN checks : checks[i][2] # "ok"
    PROVE  \A i \in DOMAIN checks : ~checks[i][1]
  <1>1. Failing(checks) \subseteq DOMAIN checks
    BY DEF Failing
  <1>2. Failing(checks) = {}
    BY <1>1, LeastCheck DEF Verdict
  <1> QED
    BY <1>2 DEF Failing

(***************************************************************************)
(* The inductive invariant.  A handle works on one publication at a time,  *)
(* the last it accepted, and a lifetime is older than the counter.         *)
(***************************************************************************)
Acks == {Identity(f) : f \in Frames}

State ==
    [life : Nat, latest : SUBSET {f.version : f \in MetaFrames},
     pending : SUBSET {Identity(f) : f \in MetaFrames}, accepted : SUBSET {f.id : f \in MetaFrames},
     platest : SUBSET {f.version : f \in Frames}, ppending : SUBSET Acks, packed : SUBSET Acks,
     pbound : SUBSET Acks, paccepted : SUBSET {f.id : f \in Frames}, epoch : Nat]

PublicationTypes ==
    /\ handle \in [Handles -> State] /\ nextLife \in Nat /\ Exhausted < nextLife

\* What the handshake holds is the last publication, at one stage of it.
OneStage(s) ==
    /\ \A a \in s.ppending \cup s.packed \cup s.pbound : s.platest = {a.version}
    /\ s.packed # {} => s.ppending = {}
    /\ s.pbound # {} => s.ppending = {} /\ s.packed = {}

LifetimesKept ==
    /\ Exhausted \in revoked
    /\ \A h \in Handles : handle[h].life < nextLife
    /\ \A b \in proofs : b.life < nextLife /\ b.life # Exhausted /\ b.life \in Nat /\ b.epoch \in Nat

PublicationInv ==
    PublicationTypes /\ LifetimesKept /\ \A h \in Handles : OneStage(handle[h])

\* A step on one handle that leaves lifetimes and proofs alone.
LEMMA OneHandle ==
    ASSUME PublicationInv, NEW h \in Handles, NEW s \in State,
           handle' = [handle EXCEPT ![h] = s], OneStage(s), s.life = handle[h].life,
           UNCHANGED <<nextLife, revoked, proofs>>
    PROVE  PublicationInv'
  <1>1. PublicationTypes'
    BY DEF PublicationInv, PublicationTypes
  <1>2. LifetimesKept'
    BY DEF PublicationInv, PublicationTypes, LifetimesKept
  <1>3. \A k \in Handles : OneStage(handle[k])'
    <2> SUFFICES ASSUME NEW k \in Handles PROVE OneStage(handle'[k])
      BY DEF OneStage
    <2>1. handle'[k] = IF k = h THEN s ELSE handle[k]
      BY DEF PublicationInv, PublicationTypes
    <2> QED
      BY <2>1 DEF PublicationInv
  <1> QED
    BY <1>1, <1>2, <1>3 DEF PublicationInv

LEMMA PublishKept ==
    ASSUME PublicationInv, NEW h \in Handles, NEW f \in MetaFrames, Publish(h, f)
    PROVE  PublicationInv'
  <1> DEFINE s == handle[h]
             t == [s EXCEPT !.accepted = @ \cup {f.id}, !.latest = {f.version}, !.pending = {Identity(f)}]
  <1>1. s \in State /\ handle \in [Handles -> State]
    BY DEF PublicationInv, PublicationTypes
  <1>2. handle' = [handle EXCEPT ![h] = t]
    BY <1>1 DEF Publish
  <1>3. t \in State
    BY <1>1 DEF State
  <1>4. t.life = s.life /\ t.platest = s.platest /\ t.ppending = s.ppending /\ t.packed = s.packed
        /\ t.pbound = s.pbound
    BY <1>1 DEF State
  <1> HIDE DEF t
  <1>5. OneStage(t)
    BY <1>4 DEF PublicationInv, OneStage
  <1> QED
    BY <1>2, <1>3, <1>4, <1>5, OneHandle DEF Publish

LEMMA AcknowledgeKept ==
    ASSUME PublicationInv, NEW h \in Handles, NEW ack, Acknowledge(h, ack)
    PROVE  PublicationInv'
  <1> DEFINE s == handle[h]
             t == [s EXCEPT !.pending = None]
  <1>1. s \in State /\ handle \in [Handles -> State]
    BY DEF PublicationInv, PublicationTypes
  <1>2. handle' = [handle EXCEPT ![h] = t]
    BY <1>1 DEF Acknowledge
  <1>3. t \in State
    BY <1>1 DEF State, None
  <1>4. t.life = s.life /\ t.platest = s.platest /\ t.ppending = s.ppending /\ t.packed = s.packed
        /\ t.pbound = s.pbound
    BY <1>1 DEF State
  <1> HIDE DEF t
  <1>5. OneStage(t)
    BY <1>4 DEF PublicationInv, OneStage
  <1> QED
    BY <1>2, <1>3, <1>4, <1>5, OneHandle DEF Acknowledge

LEMMA PublishRoutingKept ==
    ASSUME PublicationInv, NEW h \in Handles, NEW f \in Frames, PublishRouting(h, f)
    PROVE  PublicationInv'
  <1> DEFINE s == handle[h]
             t == [s EXCEPT !.paccepted = @ \cup {f.id}, !.platest = {f.version},
                            !.ppending = {Identity(f)}, !.packed = None, !.pbound = None,
                            !.epoch = @ + 1]
  <1>1. s \in State /\ handle \in [Handles -> State]
    BY DEF PublicationInv, PublicationTypes
  <1>2. handle' = [handle EXCEPT ![h] = t]
    BY <1>1 DEF PublishRouting
  <1>3. t \in State
    <2>1. {Identity(f)} \in SUBSET Acks /\ {f.version} \in SUBSET {g.version : g \in Frames}
          /\ s.paccepted \cup {f.id} \in SUBSET {g.id : g \in Frames} /\ s.epoch + 1 \in Nat
      BY <1>1 DEF State, Acks
    <2> QED
      BY <1>1, <2>1 DEF State, None
  <1>4. t.life = s.life /\ t.platest = {f.version} /\ t.ppending = {Identity(f)} /\ t.packed = {}
        /\ t.pbound = {}
    BY <1>1 DEF State, None
  <1>5. Identity(f).version = f.version
    BY DEF Identity
  <1> HIDE DEF t
  <1>6. OneStage(t)
    BY <1>4, <1>5 DEF OneStage
  <1> QED
    BY <1>2, <1>3, <1>4, <1>6, OneHandle DEF PublishRouting

LEMMA AcknowledgeRoutingKept ==
    ASSUME PublicationInv, NEW h \in Handles, NEW ack, AcknowledgeRouting(h, ack)
    PROVE  PublicationInv'
  <1> DEFINE s == handle[h]
             t == [s EXCEPT !.ppending = None, !.packed = {ack}]
  <1>1. s \in State /\ handle \in [Handles -> State] /\ ack \in s.ppending
    BY DEF PublicationInv, PublicationTypes, AcknowledgeRouting
  <1>2. handle' = [handle EXCEPT ![h] = t]
    BY <1>1 DEF AcknowledgeRouting
  <1>3. t \in State
    BY <1>1 DEF State, None
  <1>4. t.life = s.life /\ t.platest = s.platest /\ t.ppending = {} /\ t.packed = {ack}
        /\ t.pbound = s.pbound
    BY <1>1 DEF State, None
  <1> HIDE DEF t
  <1>5. OneStage(s)
    BY DEF PublicationInv
  <1>6. OneStage(t)
    BY <1>1, <1>4, <1>5 DEF OneStage
  <1> QED
    BY <1>2, <1>3, <1>4, <1>6, OneHandle DEF AcknowledgeRouting

LEMMA BindKept ==
    ASSUME PublicationInv, NEW h \in Handles, NEW ack, BindEqual(h, ack) \/ BindMismatch(h, ack)
    PROVE  PublicationInv'
  <1> DEFINE s == handle[h]
  <1>1. s \in State /\ handle \in [Handles -> State] /\ ack \in s.packed /\ OneStage(s)
    BY DEF PublicationInv, PublicationTypes, BindEqual, BindMismatch
  <1>2. CASE BindMismatch(h, ack)
    <2> DEFINE t == [s EXCEPT !.packed = None]
    <2>1. handle' = [handle EXCEPT ![h] = t]
      BY <1>1, <1>2 DEF BindMismatch
    <2>2. t \in State
      BY <1>1 DEF State, None
    <2>3. t.life = s.life /\ t.platest = s.platest /\ t.ppending = s.ppending /\ t.packed = {}
          /\ t.pbound = s.pbound
      BY <1>1 DEF State, None
    <2> HIDE DEF t
    <2>4. OneStage(t)
      BY <1>1, <2>3 DEF OneStage
    <2> QED
      BY <1>2, <2>1, <2>2, <2>3, <2>4, OneHandle DEF BindMismatch
  <1>3. CASE BindEqual(h, ack)
    <2> DEFINE t == [s EXCEPT !.pbound = {ack}, !.packed = None]
               b == Binding(s, ack)
    <2>1. handle' = [handle EXCEPT ![h] = t]
      BY <1>1, <1>3 DEF BindEqual
    <2>2. t \in State
      BY <1>1 DEF State, None
    <2>3. t.life = s.life /\ t.platest = s.platest /\ t.ppending = s.ppending /\ t.packed = {}
          /\ t.pbound = {ack}
      BY <1>1 DEF State, None
    <2>4. b.life = s.life /\ b.epoch = s.epoch
      BY DEF Binding
    <2>5. s.life \in Nat /\ s.epoch \in Nat
      BY <1>1 DEF State
    <2>6. proofs' = proofs \cup {b} /\ UNCHANGED <<nextLife, revoked>> /\ s.life \notin revoked
      BY <1>3 DEF BindEqual, Revoked
    <2> HIDE DEF t, b
    <2>7. OneStage(t)
      BY <1>1, <2>3 DEF OneStage
    <2>8. PublicationTypes'
      BY <2>1, <2>2, <2>6 DEF PublicationInv, PublicationTypes
    <2>9. LifetimesKept'
      <3>1. \A k \in Handles : handle'[k].life = handle[k].life
        BY <1>1, <2>1, <2>3
      <3>2. s.life # Exhausted /\ s.life < nextLife
        BY <2>6 DEF PublicationInv, LifetimesKept
      <3> QED
        BY <2>4, <2>5, <2>6, <3>1, <3>2 DEF PublicationInv, LifetimesKept
    <2>10. \A k \in Handles : OneStage(handle[k])'
      <3> SUFFICES ASSUME NEW k \in Handles PROVE OneStage(handle'[k])
        BY DEF OneStage
      <3>1. handle'[k] = IF k = h THEN t ELSE handle[k]
        BY <1>1, <2>1
      <3> QED
        BY <2>7, <3>1 DEF PublicationInv
    <2> QED
      BY <2>8, <2>9, <2>10 DEF PublicationInv
  <1> QED
    BY <1>2, <1>3

LEMMA CloneKept ==
    ASSUME PublicationInv, NEW h \in Handles, NEW k \in Handles, Clone(h, k)
    PROVE  PublicationInv'
  <1>1. handle' = [handle EXCEPT ![k] = handle[h]] /\ UNCHANGED <<nextLife, revoked, proofs>>
    BY DEF Clone
  <1>2. PublicationTypes'
    BY <1>1 DEF PublicationInv, PublicationTypes
  <1>3. \A j \in Handles : handle'[j] = handle[IF j = k THEN h ELSE j]
    BY <1>1 DEF PublicationInv, PublicationTypes
  <1>4. LifetimesKept'
    BY <1>1, <1>3 DEF PublicationInv, LifetimesKept
  <1>5. \A j \in Handles : OneStage(handle[j])'
    <2> SUFFICES ASSUME NEW j \in Handles PROVE OneStage(handle'[j])
      BY DEF OneStage
    <2> QED
      BY <1>3 DEF PublicationInv
  <1> QED
    BY <1>2, <1>4, <1>5 DEF PublicationInv

LEMMA ResetKept ==
    ASSUME PublicationInv, NEW h \in Handles, Reset(h)
    PROVE  PublicationInv'
  <1> DEFINE t == FreshState(Minted)
  <1>1. nextLife \in Nat /\ Exhausted < nextLife /\ handle \in [Handles -> State]
    BY DEF PublicationInv, PublicationTypes
  <1>2. Minted \in Nat /\ Minted < CounterAfter /\ CounterAfter \in Nat /\ nextLife <= CounterAfter
    BY <1>1 DEF Minted, CounterAfter, Exhausted
  <1>3. t \in State /\ t.life = Minted /\ t.ppending = {} /\ t.packed = {} /\ t.pbound = {}
    BY <1>2 DEF FreshState, State, None
  <1>4. /\ handle' = [handle EXCEPT ![h] = t] /\ nextLife' = CounterAfter
        /\ revoked \subseteq revoked' /\ proofs' = proofs
    BY DEF Reset
  <1> HIDE DEF t
  <1>5. PublicationTypes'
    BY <1>1, <1>2, <1>3, <1>4 DEF PublicationTypes, Exhausted
  <1>6. \A k \in Handles : handle'[k] = IF k = h THEN t ELSE handle[k]
    BY <1>1, <1>4
  <1>7. \A k \in Handles : handle[k].life \in Nat
    BY <1>1 DEF State
  <1>8. LifetimesKept'
    BY <1>1, <1>2, <1>3, <1>4, <1>6, <1>7 DEF PublicationInv, LifetimesKept
  <1>9. \A k \in Handles : OneStage(handle[k])'
    <2> SUFFICES ASSUME NEW k \in Handles PROVE OneStage(handle'[k])
      BY DEF OneStage
    <2>1. OneStage(t)
      BY <1>3 DEF OneStage
    <2> QED
      BY <1>6, <2>1 DEF PublicationInv
  <1> QED
    BY <1>5, <1>8, <1>9 DEF PublicationInv

LEMMA PublicationStep ==
    ASSUME PublicationInv, [Next]_vars
    PROVE  PublicationInv'
  <1>1. CASE UNCHANGED pvars
    BY <1>1 DEF pvars, PublicationInv, PublicationTypes, LifetimesKept, OneStage
  <1>2. CASE HandshakeStep
    BY <1>2, PublishKept, AcknowledgeKept, PublishRoutingKept, AcknowledgeRoutingKept, BindKept,
       CloneKept, ResetKept, Zenon DEF HandshakeStep
  <1> QED
    BY <1>1, <1>2 DEF Next, RegistryStep, vars

LEMMA PublicationStarts ==
    ASSUME PublicationInit
    PROVE  PublicationInv
  <1>1. FreshState(1) \in State /\ FreshState(1).life = 1 /\ OneStage(FreshState(1))
    BY DEF FreshState, State, None, OneStage
  <1>2. \A h \in Handles : handle[h] = FreshState(1)
    BY DEF PublicationInit
  <1>3. PublicationTypes
    BY <1>1 DEF PublicationInit, PublicationTypes, Exhausted
  <1>4. LifetimesKept
    BY <1>1, <1>2 DEF PublicationInit, LifetimesKept
  <1> QED
    BY <1>1, <1>2, <1>3, <1>4 DEF PublicationInv

\* What verify answers "ok" to.
LEMMA VerifiedFacts ==
    ASSUME NEW h, NEW b, VerifyVerdict(h, b) = "ok"
    PROVE  /\ ~Revoked(h) /\ b.life = handle[h].life
           /\ handle[h].pbound = {b.ack} /\ b.epoch = handle[h].epoch
           /\ Sha256(ProjectRegistry(models)) = b.ack.digest
  <1> DEFINE s == handle[h]
             checks == << <<Revoked(h), "PublicationLifetimeRevoked">>,
                          <<b.life # s.life, "PublicationLifetimeMismatch">>,
                          <<s.pbound = None, "NoAcknowledgement">>,
                          <<s.pbound # {b.ack} \/ b.epoch # s.epoch, "Superseded">> >>
  <1>1. VerifyVerdict(h, b) = IF Verdict(checks) = "ok" THEN RegistryVerdict(b) ELSE Verdict(checks)
    BY DEF VerifyVerdict
  <1>2. Verdict(checks) = "ok" /\ RegistryVerdict(b) = "ok"
    BY <1>1
  <1>3. DOMAIN checks = 1..4 /\ \A i \in DOMAIN checks : checks[i][2] # "ok"
    OBVIOUS
  <1>4. /\ Revoked(h) => checks[1][1]
        /\ b.life # s.life => checks[2][1]
        /\ (s.pbound # {b.ack} \/ b.epoch # s.epoch) => checks[4][1]
    OBVIOUS
  <1> HIDE DEF checks
  <1>5. \A i \in DOMAIN checks : ~checks[i][1]
    BY <1>2, <1>3, VerdictOk
  <1>6. ~Revoked(h) /\ b.life = s.life /\ s.pbound = {b.ack} /\ b.epoch = s.epoch
    BY <1>3, <1>4, <1>5
  <1>7. Sha256(ProjectRegistry(models)) = b.ack.digest
    BY <1>2 DEF RegistryVerdict
  <1> QED
    BY <1>6, <1>7

(* A proof that verifies says something true now: the registry projects to  *)
(* the acknowledged snapshot, nothing newer was accepted by the handle, and *)
(* no alias of its lifetime was reset; the lifetime sequence hands nothing  *)
(* out twice, not even when it runs out.                                    *)
THEOREM VerifiedIsCurrent == Spec => []VerifiedMeansCurrent
  <1>1. PublicationInit => PublicationInv
    BY PublicationStarts
  <1>2. PublicationInv /\ [Next]_vars => PublicationInv'
    BY PublicationStep
  <1>3. PublicationInv => VerifiedMeansCurrent
    <2> SUFFICES ASSUME PublicationInv PROVE VerifiedMeansCurrent
      OBVIOUS
    <2>1. LifetimesDistinct
      BY DEF PublicationInv, LifetimesKept, LifetimesDistinct, Revoked
    <2>2. ASSUME NEW h \in Handles, NEW b \in proofs, VerifyVerdict(h, b) = "ok"
          PROVE  /\ Sha256(ProjectRegistry(models)) = b.ack.digest
                 /\ handle[h].platest = {b.ack.version}
                 /\ handle[h].ppending = None /\ handle[h].packed = None
                 /\ b.life \notin revoked
      <3>1. /\ ~Revoked(h) /\ b.life = handle[h].life
            /\ handle[h].pbound = {b.ack} /\ b.epoch = handle[h].epoch
            /\ Sha256(ProjectRegistry(models)) = b.ack.digest
        BY <2>2, VerifiedFacts
      <3>2. OneStage(handle[h])
        BY DEF PublicationInv
      <3>3. handle[h].platest = {b.ack.version}
        BY <3>1, <3>2 DEF OneStage
      <3>4. handle[h].ppending = None /\ handle[h].packed = None
        BY <3>1, <3>2 DEF OneStage, None
      <3> QED
        BY <3>1, <3>3, <3>4 DEF Revoked
    <2> QED
      BY <2>1, <2>2 DEF VerifiedMeansCurrent
  <1> QED
    BY <1>1, <1>2, <1>3, PTL DEF Spec

\* The same of the state after a step.
LEMMA VerifiedAfter ==
    ASSUME NEW h, NEW b, VerifyVerdict(h, b)' = "ok"
    PROVE  handle'[h].life \notin revoked' /\ b.life = handle'[h].life /\ b.epoch = handle'[h].epoch
  <1> DEFINE s == handle'[h]
             checks == << <<s.life \in revoked', "PublicationLifetimeRevoked">>,
                          <<b.life # s.life, "PublicationLifetimeMismatch">>,
                          <<s.pbound = None, "NoAcknowledgement">>,
                          <<s.pbound # {b.ack} \/ b.epoch # s.epoch, "Superseded">> >>
  <1>1. VerifyVerdict(h, b)' = IF Verdict(checks) = "ok" THEN RegistryVerdict(b)' ELSE Verdict(checks)
    BY DEF VerifyVerdict, Revoked
  <1>2. Verdict(checks) = "ok"
    BY <1>1
  <1>3. DOMAIN checks = 1..4 /\ \A i \in DOMAIN checks : checks[i][2] # "ok"
    OBVIOUS
  <1>4. /\ s.life \in revoked' => checks[1][1]
        /\ b.life # s.life => checks[2][1]
        /\ b.epoch # s.epoch => checks[4][1]
    OBVIOUS
  <1> HIDE DEF checks
  <1>5. \A i \in DOMAIN checks : ~checks[i][1]
    BY <1>2, <1>3, VerdictOk
  <1> QED
    BY <1>3, <1>4, <1>5

\* A handle keeps its lifetime and never goes back an epoch, unless it is
\* reset or written over.
LEMMA HandleAges ==
    ASSUME PublicationInv, HandshakeStep, NEW h \in Handles, ~\E k \in Handles : Clone(k, h), ~Reset(h)
    PROVE  handle'[h].life = handle[h].life /\ handle[h].epoch <= handle'[h].epoch
  <1> DEFINE Ages == handle'[h].life = handle[h].life /\ handle[h].epoch <= handle'[h].epoch
  <1>1. handle \in [Handles -> State] /\ handle[h] \in State /\ handle[h].epoch \in Nat
    BY DEF PublicationInv, PublicationTypes, State
  <1>2. \A g \in Handles : handle[g] \in State
    BY <1>1
  <1>3. ASSUME NEW g \in Handles, NEW t, handle' = [handle EXCEPT ![g] = t],
               t.life = handle[g].life, t.epoch = handle[g].epoch \/ t.epoch = handle[g].epoch + 1
        PROVE  Ages
    BY <1>1, <1>3
  <1>4. ASSUME NEW g \in Handles, NEW f \in MetaFrames, Publish(g, f) PROVE Ages
    <2> DEFINE t == [handle[g] EXCEPT !.accepted = @ \cup {f.id}, !.latest = {f.version}, !.pending = {Identity(f)}]
    <2>1. handle' = [handle EXCEPT ![g] = t] /\ t.life = handle[g].life /\ t.epoch = handle[g].epoch
      BY <1>1, <1>2, <1>4 DEF Publish, State
    <2> QED
      BY <1>3, <2>1
  <1>5. ASSUME NEW g \in Handles, NEW ack, Acknowledge(g, ack) PROVE Ages
    <2> DEFINE t == [handle[g] EXCEPT !.pending = None]
    <2>1. handle' = [handle EXCEPT ![g] = t] /\ t.life = handle[g].life /\ t.epoch = handle[g].epoch
      BY <1>1, <1>2, <1>5 DEF Acknowledge, State
    <2> QED
      BY <1>3, <2>1
  <1>6. ASSUME NEW g \in Handles, NEW f \in Frames, PublishRouting(g, f) PROVE Ages
    <2> DEFINE t == [handle[g] EXCEPT !.paccepted = @ \cup {f.id}, !.platest = {f.version},
                                      !.ppending = {Identity(f)}, !.packed = None, !.pbound = None,
                                      !.epoch = @ + 1]
    <2>1. handle' = [handle EXCEPT ![g] = t] /\ t.life = handle[g].life /\ t.epoch = handle[g].epoch + 1
      BY <1>1, <1>2, <1>6 DEF PublishRouting, State
    <2> QED
      BY <1>3, <2>1
  <1>7. ASSUME NEW g \in Handles, NEW ack, AcknowledgeRouting(g, ack) PROVE Ages
    <2> DEFINE t == [handle[g] EXCEPT !.ppending = None, !.packed = {ack}]
    <2>1. handle' = [handle EXCEPT ![g] = t] /\ t.life = handle[g].life /\ t.epoch = handle[g].epoch
      BY <1>1, <1>2, <1>7 DEF AcknowledgeRouting, State
    <2> QED
      BY <1>3, <2>1
  <1>8. ASSUME NEW g \in Handles, NEW ack, BindEqual(g, ack) PROVE Ages
    <2> DEFINE t == [handle[g] EXCEPT !.pbound = {ack}, !.packed = None]
    <2>1. handle' = [handle EXCEPT ![g] = t] /\ t.life = handle[g].life /\ t.epoch = handle[g].epoch
      BY <1>1, <1>2, <1>8 DEF BindEqual, State
    <2> QED
      BY <1>3, <2>1
  <1>9. ASSUME NEW g \in Handles, NEW ack, BindMismatch(g, ack) PROVE Ages
    <2> DEFINE t == [handle[g] EXCEPT !.packed = None]
    <2>1. handle' = [handle EXCEPT ![g] = t] /\ t.life = handle[g].life /\ t.epoch = handle[g].epoch
      BY <1>1, <1>2, <1>9 DEF BindMismatch, State
    <2> QED
      BY <1>3, <2>1
  <1>10. ASSUME NEW g \in Handles, Reset(g) \/ \E k \in Handles : Clone(g, k) PROVE Ages
    <2>1. \E k \in Handles \ {h} : \E t : handle' = [handle EXCEPT ![k] = t]
      BY <1>10 DEF Reset, Clone
    <2> QED
      BY <1>1, <2>1
  <1> HIDE DEF Ages
  <1>11. Ages
    BY <1>4, <1>5, <1>6, <1>7, <1>8, <1>9, <1>10, Zenon DEF HandshakeStep
  <1> QED
    BY <1>11 DEF Ages

LEMMA RefusedStaysRefused ==
    ASSUME PublicationInv, [Next]_vars, NEW h \in Handles, NEW b \in proofs,
           b.life # handle[h].life \/ b.epoch < handle[h].epoch, ~\E k \in Handles : Clone(k, h)
    PROVE  VerifyVerdict(h, b)' # "ok"
  <1> SUFFICES ASSUME VerifyVerdict(h, b)' = "ok" PROVE FALSE
    OBVIOUS
  <1>1. handle'[h].life \notin revoked' /\ b.life = handle'[h].life /\ b.epoch = handle'[h].epoch
    BY VerifiedAfter
  <1>2. b.life < nextLife /\ b.life \in Nat /\ b.epoch \in Nat /\ Exhausted \in revoked
        /\ handle[h] \in State /\ nextLife \in Nat
    BY DEF PublicationInv, LifetimesKept, PublicationTypes
  <1>3. handle[h].epoch \in Nat
    BY <1>2 DEF State
  <1>4. CASE UNCHANGED pvars
    BY <1>1, <1>2, <1>3, <1>4 DEF pvars
  <1>5. CASE HandshakeStep /\ ~Reset(h)
    <2>1. handle'[h].life = handle[h].life /\ handle[h].epoch <= handle'[h].epoch
      BY <1>5, HandleAges
    <2> QED
      BY <1>1, <1>2, <1>3, <2>1
  <1>6. CASE Reset(h)
    <2>1. handle'[h] = FreshState(Minted) /\ Exhausted \in revoked'
      BY <1>2, <1>6 DEF Reset, PublicationInv, PublicationTypes
    <2>2. handle'[h].life = Minted
      BY <2>1 DEF FreshState
    <2>3. Minted = nextLife \/ Minted = Exhausted
      BY DEF Minted
    <2> QED
      BY <1>1, <1>2, <2>1, <2>2, <2>3
  <1> QED
    BY <1>4, <1>5, <1>6 DEF Next, RegistryStep, vars

(* No order of publications, resets, clones and bindings brings a proof     *)
(* back that was issued under another lifetime or before the handle's last  *)
(* accepted publication.                                                    *)
THEOREM RefusalsAreFinal == Spec => RefusalIsFinal
  <1>1. PublicationInit => PublicationInv
    BY PublicationStarts
  <1>2. PublicationInv /\ [Next]_vars => PublicationInv'
    BY PublicationStep
  <1>3. PublicationInv /\ [Next]_vars =>
          [\A h \in Handles : \A b \in proofs :
             /\ b.life # handle[h].life \/ b.epoch < handle[h].epoch
             /\ ~\E k \in Handles : Clone(k, h)
             => VerifyVerdict(h, b)' # "ok"]_vars
    BY RefusedStaysRefused
  <1> QED
    BY <1>1, <1>2, <1>3, PTL DEF Spec, RefusalIsFinal

-----------------------------------------------------------------------------
(***************************************************************************)
(* The helper process (HelperLaunch).  First the types of what it keeps    *)
(* and says, and what a call does to them.                                 *)
(***************************************************************************)
Life == [id : Nat, rev : Nat]
Bytes == Payloads \cup {f.rec.bytes : f \in BadFrames}
AckT == [id : Nat, rev : Nat, version : Nat]
Held == [ack : AckT, bytes : Bytes]

Reasons ==
    {"none", "ProtocolViolation", "EstablishmentMismatch", "RegistryUnavailable", "RetainedBytesMismatch",
     "VersionExhausted", "RandomUnavailable", "PeerError", "ControlTransport", "ResourceLimit", "LocalClose",
     "PeerWithdrewAuthority"}

Errors ==
    {"UnexpectedSender", "SessionMismatch", "SequenceMismatch", "EstablishmentMismatch", "Registry",
     "RetainedBytesMismatch", "VersionExhausted", "RandomUnavailable", "PeerError", "Frame", "UnexpectedRecord",
     "StaleAuthority", "PublicationAlreadyPending", "PublicationIdentityMismatch",
     "PublicationVersionNotIncreasing", "NoPendingBind", "BindMismatch", "CoreRegistryMutation",
     "AlreadyEstablished", "Closed", "TruncatedPrefix", "ZeroLength", "FrameTooLarge", "FrameShorterThanHeader",
     "AllocationFailed", "TruncatedBody", "Io", "SmallRecordTooLarge", "Record"}

HelperT ==
    [phase : {"AwaitingEstablish", "Ready", "AwaitingBind", "Revoked"}, in : Nat, out : Nat,
     lifetime : SUBSET Life, predecessor : SUBSET Life, pending : SUBSET Held, receipt : SUBSET Held,
     version : Nat, revocation : Reasons, drawn : Nat]

\* The records a helper writes.
SaidT ==
    UNION {[kind : {"Established", "Lifetime"}, seq : Nat, id : Nat, rev : Nat],
           [kind : {"Projection"}, seq : Nat, id : Nat, rev : Nat, bytes : Bytes],
           [kind : {"Ack", "Bound"}, seq : Nat, ack : AckT],
           [kind : {"Invalidate"}, seq : Nat, id : Nat, rev : Nat, reason : {"RegistryMutation", "Reset"}],
           [kind : {"Error"}, seq : Nat]}

CallT == [h : HelperT, out : Seq(SaidT), error : Errors \cup {"ok"}, dead : Int]

IsFault(f) == f.error \in Errors /\ f.reason \in Reasons

LEMMA ErrorsAreNotOk == "ok" \notin Errors
  BY DEF Errors

\* g is h revoked for the reason, whatever it said of it.
Ended(h, g, reason) ==
    /\ g.phase = "Revoked" /\ g.revocation = reason
    /\ g.lifetime = {} /\ g.predecessor = {} /\ g.pending = {} /\ g.receipt = {}
    /\ g.drawn = h.drawn

\* g is h but for the number of the last record written.
SameBut(h, g) ==
    /\ g.phase = h.phase /\ g.in = h.in /\ g.lifetime = h.lifetime /\ g.predecessor = h.predecessor
    /\ g.pending = h.pending /\ g.receipt = h.receipt /\ g.version = h.version
    /\ g.revocation = h.revocation /\ g.drawn = h.drawn

\* g is h but for the number of the last record read.
Advanced(h, g, n) ==
    /\ g.phase = h.phase /\ g.in = n /\ g.lifetime = h.lifetime /\ g.predecessor = h.predecessor
    /\ g.pending = h.pending /\ g.receipt = h.receipt /\ g.version = h.version
    /\ g.revocation = h.revocation /\ g.drawn = h.drawn

\* g is h without the lifetime before the current one.
Parted(h, g) ==
    /\ g.phase = h.phase /\ g.in = h.in /\ g.lifetime = h.lifetime /\ g.predecessor = {}
    /\ g.pending = h.pending /\ g.receipt = h.receipt /\ g.version = h.version
    /\ g.revocation = h.revocation /\ g.drawn = h.drawn

\* The record on the wire is the body under its number.
Numbered(body, n) == [body EXCEPT !.seq = n]

LEMMA NumberedSaid ==
    ASSUME NEW body \in SaidT, NEW n \in Nat
    PROVE  Numbered(body, n) \in SaidT /\ Numbered(body, n).kind = body.kind
  BY DEF SaidT, Numbered

LEMMA Sends ==
    ASSUME NEW c \in CallT, NEW body \in SaidT
    PROVE  LET r == RawSend(c, body) IN
             /\ r \in CallT /\ r.error = c.error /\ SameBut(c.h, r.h)
             /\ r.out = c.out \/ r.out = Append(c.out, Numbered(body, c.h.out + 1))
             /\ (c.h.out # MaxSequence /\ c.dead # 0) => r.out = Append(c.out, Numbered(body, c.h.out + 1))
  <1> DEFINE r == RawSend(c, body)
             rec == Numbered(body, c.h.out + 1)
             g == [c.h EXCEPT !.out = @ + 1]
             o == Append(c.out, rec)
             x == c.dead - 1
             d == [c EXCEPT !.h = g, !.dead = x, !.out = o]
  <1>1. c.h \in HelperT /\ c.h.out \in Nat /\ c.dead \in Int /\ c.out \in Seq(SaidT)
    BY DEF CallT, HelperT
  <1>2. rec \in SaidT
    BY <1>1, NumberedSaid
  <1>3. g \in HelperT /\ SameBut(c.h, g)
    BY <1>1 DEF HelperT, SameBut
  <1>4. o \in Seq(SaidT)
    BY <1>1, <1>2
  <1>5. r = IF c.h.out = MaxSequence \/ c.dead = 0 THEN c ELSE d
    BY DEF RawSend, Numbered
  <1>x. x \in Int
    BY <1>1
  <1> HIDE DEF g, o, x
  <1>6. d \in CallT /\ d.error = c.error /\ d.h = g /\ d.out = o
    BY <1>x, <1>3, <1>4 DEF CallT
  <1>7. SameBut(c.h, c.h)
    BY DEF SameBut
  <1> QED
    BY <1>3, <1>5, <1>6, <1>7 DEF o

LEMMA Fails ==
    ASSUME NEW c \in CallT, NEW fault, IsFault(fault)
    PROVE  LET r == Fail(c, fault) IN
             /\ r \in CallT /\ r.error = fault.error /\ Ended(c.h, r.h, fault.reason)
             /\ r.out = c.out \/ \E e \in SaidT : e.kind = "Error" /\ r.out = Append(c.out, e)
  <1> DEFINE g == ClearAuthority([c.h EXCEPT !.phase = "Revoked", !.revocation = fault.reason])
             d == [c EXCEPT !.error = fault.error, !.h = g]
             body == [kind |-> "Error", seq |-> 0]
  <1>1. c.h \in HelperT /\ fault.reason \in Reasons /\ fault.error \in Errors
    BY DEF CallT, IsFault
  <1>2. g \in HelperT /\ Ended(c.h, g, fault.reason)
    BY <1>1 DEF HelperT, ClearAuthority, Ended
  <1>3. d \in CallT /\ d.h = g /\ d.error = fault.error /\ d.out = c.out
    BY <1>1, <1>2 DEF CallT
  <1>4. Fail(c, fault) = IF fault.code = {} THEN d ELSE RawSend(d, body)
    BY DEF Fail
  <1>5. body \in SaidT
    BY DEF SaidT
  <1> HIDE DEF g, d
  <1>6. CASE fault.code = {}
    BY <1>2, <1>3, <1>4, <1>6
  <1>7. CASE fault.code # {}
    <2> DEFINE r == RawSend(d, body)
               e == Numbered(body, d.h.out + 1)
    <2>1. /\ r \in CallT /\ r.error = d.error /\ SameBut(d.h, r.h)
          /\ r.out = d.out \/ r.out = Append(d.out, e)
      BY <1>3, <1>5, Sends
    <2>2. d.h.out + 1 \in Nat
      BY <1>2, <1>3 DEF HelperT
    <2>3. e \in SaidT /\ e.kind = "Error"
      BY <1>5, <2>2, NumberedSaid
    <2>4. Ended(c.h, r.h, fault.reason)
      BY <1>2, <1>3, <2>1 DEF Ended, SameBut
    <2>5. Fail(c, fault) = r
      BY <1>4, <1>7
    <2> QED
      BY <1>3, <2>1, <2>3, <2>4, <2>5
  <1> QED
    BY <1>6, <1>7

LEMMA Emits ==
    ASSUME NEW c \in CallT, NEW body \in SaidT, c.error = "ok"
    PROVE  LET r == Emit(c, body) IN
             /\ r \in CallT
             /\ \/ r.error = "ok" /\ SameBut(c.h, r.h) /\ r.out = Append(c.out, Numbered(body, c.h.out + 1))
                \/ /\ r.error # "ok" /\ r.out = c.out
                   /\ Ended(c.h, r.h, "VersionExhausted") \/ Ended(c.h, r.h, "ControlTransport")
  <1> DEFINE F1 == Fault("VersionExhausted", "VersionExhausted", {})
             F2 == Fault("Frame", "ControlTransport", {})
  <1>1. IsFault(F1) /\ IsFault(F2) /\ F1.code = {} /\ F2.code = {} /\ F1.reason = "VersionExhausted"
        /\ F2.reason = "ControlTransport" /\ F1.error # "ok" /\ F2.error # "ok"
    <2>1. F1.error = "VersionExhausted" /\ F1.reason = "VersionExhausted" /\ F1.code = {}
      BY DEF Fault
    <2>2. F2.error = "Frame" /\ F2.reason = "ControlTransport" /\ F2.code = {}
      BY DEF Fault
    <2> HIDE DEF F1, F2
    <2> QED
      BY <2>1, <2>2 DEF IsFault, Errors, Reasons
  <1> HIDE DEF F1, F2
  <1>2. ASSUME NEW F, IsFault(F), F.code = {} PROVE Fail(c, F).out = c.out
    BY <1>2 DEF Fail, CallT
  <1>3. Emit(c, body) = IF c.h.out = MaxSequence THEN Fail(c, F1)
                        ELSE IF c.dead = 0 THEN Fail(c, F2) ELSE RawSend(c, body)
    BY DEF Emit, F1, F2
  <1>4. CASE c.h.out = MaxSequence
    <2>1. Emit(c, body) = Fail(c, F1) /\ Fail(c, F1).out = c.out
      BY <1>1, <1>2, <1>3, <1>4
    <2>2. Fail(c, F1) \in CallT /\ Fail(c, F1).error = F1.error /\ Ended(c.h, Fail(c, F1).h, F1.reason)
      BY <1>1, Fails
    <2> QED
      BY <1>1, <2>1, <2>2
  <1>5. CASE c.h.out # MaxSequence /\ c.dead = 0
    <2>1. Emit(c, body) = Fail(c, F2) /\ Fail(c, F2).out = c.out
      BY <1>1, <1>2, <1>3, <1>5
    <2>2. Fail(c, F2) \in CallT /\ Fail(c, F2).error = F2.error /\ Ended(c.h, Fail(c, F2).h, F2.reason)
      BY <1>1, Fails
    <2> QED
      BY <1>1, <2>1, <2>2
  <1>6. CASE c.h.out # MaxSequence /\ c.dead # 0
    BY <1>3, <1>6, Sends
  <1> QED
    BY <1>4, <1>5, <1>6
\* What is said for good: the bodies in order, under their numbers.
Spoken(before, bodies, after) ==
    \/ Len(bodies) = 0 /\ after = before
    \/ Len(bodies) = 1 /\ \E n \in Nat : after = Append(before, Numbered(bodies[1], n))
    \/ Len(bodies) = 2 /\ \E n, m \in Nat :
         after = Append(Append(before, Numbered(bodies[1], n)), Numbered(bodies[2], m))

\* The stream or its numbers gave out.
CutOff(h, g) == Ended(h, g, "VersionExhausted") \/ Ended(h, g, "ControlTransport")

ErrorSaid(before, after) ==
    after = before \/ \E e \in SaidT : e.kind = "Error" /\ after = Append(before, e)

\* A handler whose checks all pass takes its new fields and says its records.
LEMMA Speaks ==
    ASSUME NEW c \in CallT, c.error = "ok", NEW checks, Failing(checks) = {},
           NEW next \in HelperT, NEW bodies \in Seq(SaidT), Len(bodies) <= 2
    PROVE  LET r == Continue(c, checks, next, bodies) IN
             /\ r \in CallT
             /\ \/ r.error = "ok" /\ SameBut(next, r.h) /\ Spoken(c.out, bodies, r.out)
                \/ r.error # "ok" /\ CutOff(next, r.h)
  <1> DEFINE r == Continue(c, checks, next, bodies)
             c0 == [c EXCEPT !.h = next]
             c1 == IF Len(bodies) >= 1 THEN Emit(c0, bodies[1]) ELSE c0
             c2 == IF Len(bodies) = 2 THEN Emit(c1, bodies[2]) ELSE c1
  <1>a. c0 \in CallT /\ c0.error = "ok" /\ c0.h = next /\ c0.out = c.out
    BY DEF CallT
  <1> SUFFICES /\ r \in CallT
               /\ \/ r.error = "ok" /\ SameBut(next, r.h) /\ Spoken(c.out, bodies, r.out)
                  \/ r.error # "ok" /\ CutOff(next, r.h)
    OBVIOUS
  <1>1. r = c2
    BY DEF Continue
  <1> HIDE DEF c0, r
  <1>2. Len(bodies) \in Nat
    OBVIOUS
  <1>3. CASE Len(bodies) = 0
    <2>1. r = c0
      BY <1>1, <1>3
    <2> QED
      BY <1>a, <1>3, <2>1 DEF Spoken, SameBut
  <1>4. ASSUME Len(bodies) >= 1
        PROVE  /\ c1 \in CallT
               /\ \/ /\ c1.error = "ok" /\ SameBut(next, c1.h)
                     /\ \E n \in Nat : c1.out = Append(c.out, Numbered(bodies[1], n))
                  \/ c1.error # "ok" /\ CutOff(next, c1.h)
    <2>1. bodies[1] \in SaidT
      BY <1>4
    <2>2. c1 = Emit(c0, bodies[1])
      BY <1>4
    <2>3. c0.h.out + 1 \in Nat
      BY <1>a DEF HelperT
    <2> HIDE DEF c1
    <2>4. /\ c1 \in CallT
          /\ \/ c1.error = "ok" /\ SameBut(c0.h, c1.h) /\ c1.out = Append(c0.out, Numbered(bodies[1], c0.h.out + 1))
             \/ /\ c1.error # "ok" /\ c1.out = c0.out
                /\ Ended(c0.h, c1.h, "VersionExhausted") \/ Ended(c0.h, c1.h, "ControlTransport")
      BY <1>a, <2>1, <2>2, Emits
    <2> QED
      BY <1>a, <2>3, <2>4 DEF CutOff
  <1>5. CASE Len(bodies) = 1
    <2>1. r = c1
      BY <1>1, <1>5
    <2> HIDE DEF c1
    <2> QED
      BY <1>4, <1>5, <2>1 DEF Spoken
  <1>6. CASE Len(bodies) = 2
    <2> HIDE DEF c1
    <2>0. r = Emit(c1, bodies[2])
      BY <1>1, <1>6
    <2>1. r = Emit(c1, bodies[2]) /\ bodies[2] \in SaidT
      BY <1>6, <2>0
    <2>2. /\ c1 \in CallT
          /\ \/ /\ c1.error = "ok" /\ SameBut(next, c1.h)
                /\ \E n \in Nat : c1.out = Append(c.out, Numbered(bodies[1], n))
             \/ c1.error # "ok" /\ CutOff(next, c1.h)
      BY <1>4, <1>6
    <2>3. CASE c1.error # "ok"
      <3>1. r = c1
        BY <2>1, <2>3 DEF Emit
      <3> QED
        BY <2>2, <2>3, <3>1
    <2>4. CASE c1.error = "ok"
      <3>1. /\ r \in CallT
            /\ \/ r.error = "ok" /\ SameBut(c1.h, r.h) /\ r.out = Append(c1.out, Numbered(bodies[2], c1.h.out + 1))
               \/ /\ r.error # "ok" /\ r.out = c1.out
                  /\ Ended(c1.h, r.h, "VersionExhausted") \/ Ended(c1.h, r.h, "ControlTransport")
        BY <2>1, <2>2, <2>4, Emits
      <3>2. PICK n \in Nat : c1.out = Append(c.out, Numbered(bodies[1], n))
        BY <2>2, <2>4
      <3>3. c1.h.out + 1 \in Nat /\ SameBut(next, c1.h)
        <4>1. c1.h \in HelperT
          BY <2>2 DEF CallT
        <4>2. c1.h.out + 1 \in Nat
          BY <4>1 DEF HelperT
        <4> QED
          BY <2>2, <2>4, <4>2
      <3>4. r.error = "ok" => Spoken(c.out, bodies, r.out)
        BY <1>6, <3>1, <3>2, <3>3 DEF Spoken
      <3>5. r.error = "ok" => SameBut(next, r.h)
        BY <3>1, <3>3 DEF SameBut
      <3>6. r.error # "ok" => CutOff(next, r.h)
        BY <3>1, <3>3 DEF CutOff, Ended, SameBut
      <3> QED
        BY <3>1, <3>4, <3>5, <3>6
    <2> QED
      BY <2>3, <2>4
  <1>7. Len(bodies) = 0 \/ Len(bodies) = 1 \/ Len(bodies) = 2
    <2>1. \A n \in Nat : n <= 2 => n = 0 \/ n = 1 \/ n = 2
      OBVIOUS
    <2> QED
      BY <1>2, <2>1
  <1> QED
    BY <1>3, <1>5, <1>6, <1>7, Zenon

\* A handler whose checks do not all pass ends the session, on the first of them.
LEMMA Stops ==
    ASSUME NEW c \in CallT, c.error = "ok",
           NEW checks, DOMAIN checks \subseteq Nat, \A i \in DOMAIN checks : IsFault(checks[i][2]),
           Failing(checks) # {}, NEW next, NEW bodies
    PROVE  LET r == Continue(c, checks, next, bodies) IN
             /\ r \in CallT /\ r.error # "ok" /\ ErrorSaid(c.out, r.out)
             /\ \E i \in DOMAIN checks :
                  /\ checks[i][1]
                  /\ r.error = checks[i][2].error /\ Ended(c.h, r.h, checks[i][2].reason)
                  /\ \A j \in DOMAIN checks : j < i => ~checks[j][1]
  <1> DEFINE r == Continue(c, checks, next, bodies)
             i == Min(Failing(checks))
  <1>1. Failing(checks) \in SUBSET Nat /\ Failing(checks) \subseteq DOMAIN checks
    BY DEF Failing
  <1>2. i \in Failing(checks) /\ \A j \in Failing(checks) : i <= j
    BY <1>1, LeastCheck
  <1>3. r = Fail(c, checks[i][2])
    BY DEF Continue
  <1> HIDE DEF i
  <1>4. i \in DOMAIN checks /\ checks[i][1] /\ IsFault(checks[i][2])
    BY <1>2 DEF Failing
  <1>5. /\ Fail(c, checks[i][2]) \in CallT /\ Fail(c, checks[i][2]).error = checks[i][2].error
        /\ Ended(c.h, Fail(c, checks[i][2]).h, checks[i][2].reason)
        /\ ErrorSaid(c.out, Fail(c, checks[i][2]).out)
    BY <1>4, Fails DEF ErrorSaid
  <1>6. Fail(c, checks[i][2]).error # "ok"
    BY <1>4, <1>5, ErrorsAreNotOk DEF IsFault
  <1>7. ASSUME NEW j \in DOMAIN checks, j < i, checks[j][1] PROVE FALSE
    <2>1. j \in Failing(checks) /\ i \in Nat /\ j \in Nat
      BY <1>4, <1>7 DEF Failing
    <2> QED
      BY <1>2, <1>7, <2>1
  <1> HIDE DEF r
  <1>8. /\ r \in CallT /\ r.error # "ok" /\ ErrorSaid(c.out, r.out)
        /\ r.error = checks[i][2].error /\ Ended(c.h, r.h, checks[i][2].reason)
    BY <1>3, <1>5, <1>6
  <1> QED
    BY <1>4, <1>7, <1>8 DEF r

\* The faults of the handlers.
LEMMA FaultsKnown ==
    /\ \A e \in Errors : IsFault(ProtocolFault(e)) /\ ProtocolFault(e).reason = "ProtocolViolation"
                         /\ ProtocolFault(e).error = e
    /\ IsFault(EstablishmentFault) /\ EstablishmentFault.reason = "EstablishmentMismatch"
    /\ IsFault(RegistryFault) /\ RegistryFault.reason = "RegistryUnavailable"
    /\ IsFault(RetainedFault) /\ RetainedFault.reason = "RetainedBytesMismatch"
    /\ IsFault(VersionFault) /\ VersionFault.reason = "VersionExhausted"
    /\ IsFault(RandomFault) /\ RandomFault.reason = "RandomUnavailable"
    /\ IsFault(PeerFault) /\ PeerFault.reason = "PeerError"
  <1>1. ASSUME NEW e \in Errors
        PROVE  IsFault(ProtocolFault(e)) /\ ProtocolFault(e).reason = "ProtocolViolation" /\ ProtocolFault(e).error = e
    BY DEF ProtocolFault, Fault, IsFault, Reasons
  <1>2. /\ IsFault(EstablishmentFault) /\ EstablishmentFault.reason = "EstablishmentMismatch"
        /\ IsFault(RegistryFault) /\ RegistryFault.reason = "RegistryUnavailable"
    BY DEF EstablishmentFault, RegistryFault, Fault, IsFault, Reasons, Errors
  <1>3. /\ IsFault(RetainedFault) /\ RetainedFault.reason = "RetainedBytesMismatch"
        /\ IsFault(VersionFault) /\ VersionFault.reason = "VersionExhausted"
    BY DEF RetainedFault, VersionFault, Fault, IsFault, Reasons, Errors
  <1>4. /\ IsFault(RandomFault) /\ RandomFault.reason = "RandomUnavailable"
        /\ IsFault(PeerFault) /\ PeerFault.reason = "PeerError"
    BY DEF RandomFault, PeerFault, Fault, IsFault, Reasons, Errors
  <1> QED
    BY <1>1, <1>2, <1>3, <1>4

\* Reasons that are the helper's own, not its peer's.
OwnReasons == Reasons \ {"none", "PeerWithdrewAuthority", "PeerError", "LocalClose"}

\* A record is let in when it is Core's, of this launch and the next in number.
LEMMA Enveloped ==
    ASSUME NEW c \in CallT, c.error = "ok", c.out = <<>>, NEW rec
    PROVE  LET r == Envelope(c, rec) IN
             /\ r \in CallT
             /\ \/ /\ r.error = "ok" /\ r.out = <<>> /\ Advanced(c.h, r.h, rec.seq)
                   /\ rec.sender = "core" /\ rec.session = "launch" /\ rec.seq = c.h.in + 1
                \/ /\ r.error # "ok" /\ Ended(c.h, r.h, "ProtocolViolation") /\ ErrorSaid(<<>>, r.out)
                   /\ rec.sender # "core" \/ rec.session # "launch" \/ rec.seq # c.h.in + 1
  <1> DEFINE checks == << <<rec.sender # "core", ProtocolFault("UnexpectedSender")>>,
                          <<rec.session # "launch", ProtocolFault("SessionMismatch")>>,
                          <<rec.seq # c.h.in + 1, ProtocolFault("SequenceMismatch")>> >>
             next == [c.h EXCEPT !.in = rec.seq]
             r == Envelope(c, rec)
  <1>1. c.h \in HelperT /\ c.h.in \in Nat
    BY DEF CallT, HelperT
  <1>2. "UnexpectedSender" \in Errors /\ "SessionMismatch" \in Errors /\ "SequenceMismatch" \in Errors
    BY DEF Errors
  <1>3. DOMAIN checks = 1..3
    OBVIOUS
  <1>4. \A i \in DOMAIN checks : IsFault(checks[i][2]) /\ checks[i][2].reason = "ProtocolViolation"
    BY <1>2, FaultsKnown
  <1>5. r = Continue(c, checks, next, <<>>)
    BY DEF Envelope
  <1>6. Failing(checks) # {} <=> rec.sender # "core" \/ rec.session # "launch" \/ rec.seq # c.h.in + 1
    <2>1. /\ checks[1][1] <=> (rec.sender # "core")
          /\ checks[2][1] <=> (rec.session # "launch")
          /\ checks[3][1] <=> (rec.seq # c.h.in + 1)
      OBVIOUS
    <2>2. 1 \in DOMAIN checks /\ 2 \in DOMAIN checks /\ 3 \in DOMAIN checks
          /\ \A i \in DOMAIN checks : i = 1 \/ i = 2 \/ i = 3
      BY <1>3
    <2> HIDE DEF checks
    <2> QED
      BY <2>1, <2>2 DEF Failing
  <1> HIDE DEF checks
  <1>7. rec.seq = c.h.in + 1 => next \in HelperT
    BY <1>1 DEF HelperT
  <1>8. CASE Failing(checks) # {}
    <2>1. /\ r \in CallT /\ r.error # "ok" /\ ErrorSaid(c.out, r.out)
          /\ \E i \in DOMAIN checks : Ended(c.h, r.h, checks[i][2].reason)
      <3>1. DOMAIN checks \subseteq Nat /\ \A i \in DOMAIN checks : IsFault(checks[i][2])
        BY <1>3, <1>4
      <3> HIDE DEF r
      <3> QED
        BY <1>5, <1>8, <3>1, Stops
    <2> QED
      BY <1>4, <1>6, <1>8, <2>1
  <1>9. CASE Failing(checks) = {}
    <2>1. r = [c EXCEPT !.h = next]
      BY <1>5, <1>9 DEF Continue
    <2>2. next \in HelperT
      BY <1>6, <1>7, <1>9
    <2>4. Advanced(c.h, next, rec.seq)
      BY <1>1 DEF HelperT, Advanced
    <2> HIDE DEF next
    <2>3. r \in CallT /\ r.error = "ok" /\ r.out = <<>> /\ r.h = next
      BY <2>1, <2>2 DEF CallT
    <2> QED
      BY <1>6, <1>9, <2>3, <2>4
  <1> QED
    BY <1>8, <1>9
LEMMA Passes ==
    ASSUME NEW checks, Failing(checks) = {}, NEW i \in DOMAIN checks
    PROVE  ~checks[i][1]
  BY DEF Failing

(* handle_publish: the current lifetime, nothing pending, the launch's own, a newer version. *)
LEMMA PublishHandled ==
    ASSUME NEW c \in CallT, c.error = "ok", NEW rec, rec.version \in Nat, rec.bytes \in Bytes, NEW env
    PROVE  LET r == HandlePublish(c, rec, env)
               ack == [id |-> rec.id, rev |-> rec.rev, version |-> rec.version]
           IN  /\ r \in CallT
               /\ \/ /\ r.error = "ok"
                     /\ {[id |-> rec.id, rev |-> rec.rev]} = c.h.lifetime /\ c.h.pending = {}
                     /\ r.h.phase = "AwaitingBind" /\ r.h.receipt = {} /\ r.h.version = rec.version
                     /\ r.h.pending = {[ack |-> ack, bytes |-> rec.bytes]}
                     /\ r.h.lifetime = c.h.lifetime /\ r.h.predecessor = c.h.predecessor
                     /\ r.h.in = c.h.in /\ r.h.revocation = c.h.revocation /\ r.h.drawn = c.h.drawn
                     /\ Spoken(c.out, <<[kind |-> "Ack", seq |-> 0, ack |-> ack]>>, r.out)
                  \/ /\ r.error # "ok"
                     /\ \E reason \in OwnReasons :
                          /\ Ended(c.h, r.h, reason)
                          /\ reason = "ProtocolViolation" =>
                               \/ {[id |-> rec.id, rev |-> rec.rev]} # c.h.lifetime
                               \/ c.h.pending # {} \/ ~rec.ours \/ rec.version <= c.h.version
  <1> DEFINE ack == [id |-> rec.id, rev |-> rec.rev, version |-> rec.version]
             life == [id |-> rec.id, rev |-> rec.rev]
             checks == << <<{life} # c.h.lifetime, ProtocolFault("StaleAuthority")>>,
                          <<c.h.pending # {}, ProtocolFault("PublicationAlreadyPending")>>,
                          <<~rec.ours, ProtocolFault("PublicationIdentityMismatch")>>,
                          <<rec.version <= c.h.version, ProtocolFault("PublicationVersionNotIncreasing")>>,
                          <<~env.random, RandomFault>> >>
             next == [c.h EXCEPT !.receipt = {}, !.version = rec.version, !.phase = "AwaitingBind",
                                 !.pending = {[ack |-> ack, bytes |-> rec.bytes]}]
             bodies == <<[kind |-> "Ack", seq |-> 0, ack |-> ack]>>
             r == HandlePublish(c, rec, env)
  <1>1. r = Continue(c, checks, next, bodies)
    BY DEF HandlePublish
  <1>2. DOMAIN checks = 1..5
    OBVIOUS
  <1>3. /\ "StaleAuthority" \in Errors /\ "PublicationAlreadyPending" \in Errors
        /\ "PublicationIdentityMismatch" \in Errors /\ "PublicationVersionNotIncreasing" \in Errors
    BY DEF Errors
  <1>4. \A i \in DOMAIN checks : IsFault(checks[i][2])
    BY <1>3, FaultsKnown
  <1>5. checks[5][2].reason = "RandomUnavailable" /\ \A i \in 1..4 : checks[i][2].reason = "ProtocolViolation"
    BY <1>3, FaultsKnown
  <1>6. /\ checks[1][1] <=> {life} # c.h.lifetime
        /\ checks[2][1] <=> c.h.pending # {}
        /\ checks[3][1] <=> ~rec.ours
        /\ checks[4][1] <=> rec.version <= c.h.version
    OBVIOUS
  <1>7. c.h \in HelperT
    BY DEF CallT
  <1> HIDE DEF checks, r
  <1>8. CASE Failing(checks) # {}
    <2>1. /\ r \in CallT /\ r.error # "ok"
          /\ \E i \in DOMAIN checks : checks[i][1] /\ Ended(c.h, r.h, checks[i][2].reason)
      BY <1>1, <1>2, <1>4, <1>8, Stops
    <2>2. PICK i \in 1..5 : checks[i][1] /\ Ended(c.h, r.h, checks[i][2].reason)
      BY <1>2, <2>1
    <2>3. CASE i = 5
      BY <1>5, <2>1, <2>2, <2>3 DEF OwnReasons, Reasons, r
    <2>4. CASE i \in 1..4
      <3>1. Ended(c.h, r.h, "ProtocolViolation")
        BY <1>5, <2>2, <2>4
      <3>2. {life} # c.h.lifetime \/ c.h.pending # {} \/ ~rec.ours \/ rec.version <= c.h.version
        BY <1>6, <2>2, <2>4
      <3> QED
        BY <2>1, <3>1, <3>2 DEF OwnReasons, Reasons, r
    <2> QED
      BY <2>3, <2>4
  <1>9. CASE Failing(checks) = {}
    <2>1. {life} = c.h.lifetime /\ c.h.pending = {}
      BY <1>2, <1>6, <1>9, Passes
    <2>2. life \in Life
      BY <1>7, <2>1 DEF HelperT
    <2>3. rec.id \in Nat /\ rec.rev \in Nat
      BY <2>2 DEF Life
    <2>4. ack \in AckT
      BY <2>3 DEF AckT
    <2>5. [ack |-> ack, bytes |-> rec.bytes] \in Held
      BY <2>4 DEF Held
    <2>6. [kind |-> "Ack", seq |-> 0, ack |-> ack] \in SaidT
      BY <2>4 DEF SaidT
    <2> HIDE DEF ack, life
    <2>7. next \in HelperT
      BY <1>7, <2>5 DEF HelperT
    <2>8. bodies \in Seq(SaidT) /\ Len(bodies) <= 2
      BY <2>6
    <2>9. /\ next.phase = "AwaitingBind" /\ next.receipt = {} /\ next.version = rec.version
          /\ next.pending = {[ack |-> ack, bytes |-> rec.bytes]}
          /\ next.lifetime = c.h.lifetime /\ next.predecessor = c.h.predecessor
          /\ next.in = c.h.in /\ next.revocation = c.h.revocation /\ next.drawn = c.h.drawn
      BY <1>7 DEF HelperT
    <2> HIDE DEF next, bodies
    <2>10. /\ r \in CallT
           /\ \/ r.error = "ok" /\ SameBut(next, r.h) /\ Spoken(c.out, bodies, r.out)
              \/ r.error # "ok" /\ CutOff(next, r.h)
      BY <1>1, <1>9, <2>7, <2>8, Speaks
    <2>11. CASE r.error = "ok"
      <3>1. /\ r.h.phase = "AwaitingBind" /\ r.h.receipt = {} /\ r.h.version = rec.version
            /\ r.h.pending = {[ack |-> ack, bytes |-> rec.bytes]}
            /\ r.h.lifetime = c.h.lifetime /\ r.h.predecessor = c.h.predecessor
            /\ r.h.in = c.h.in /\ r.h.revocation = c.h.revocation /\ r.h.drawn = c.h.drawn
        BY <2>9, <2>10, <2>11 DEF SameBut
      <3>2. Spoken(c.out, <<[kind |-> "Ack", seq |-> 0, ack |-> ack]>>, r.out)
        BY <2>10, <2>11 DEF bodies
      <3> QED
        BY <2>1, <2>10, <2>11, <3>1, <3>2, Zenon DEF r, ack, life
    <2>12. CASE r.error # "ok"
      <3>1. \E reason \in {"VersionExhausted", "ControlTransport"} : Ended(c.h, r.h, reason)
        BY <2>9, <2>10, <2>12 DEF CutOff, Ended
      <3> QED
        BY <2>10, <2>12, <3>1 DEF OwnReasons, Reasons, r
    <2> QED
      BY <2>11, <2>12
  <1> QED
    BY <1>8, <1>9

(* handle_bind: the pending publication, still what the registry holds. *)
LEMMA BindHandled ==
    ASSUME NEW c \in CallT, c.error = "ok", NEW rec, NEW env
    PROVE  LET r == HandleBind(c, rec, env) IN
             /\ r \in CallT
             /\ \/ /\ r.error = "ok"
                   /\ \E p \in c.h.pending : p.ack = rec.ack
                   /\ \E p \in c.h.pending : RetainedMatches(p)
                   /\ r.h.phase = "Ready" /\ r.h.receipt = c.h.pending /\ r.h.pending = {}
                   /\ r.h.lifetime = c.h.lifetime /\ r.h.predecessor = c.h.predecessor /\ r.h.version = c.h.version
                   /\ r.h.in = c.h.in /\ r.h.revocation = c.h.revocation /\ r.h.drawn = c.h.drawn
                   /\ Spoken(c.out, <<[kind |-> "Bound", seq |-> 0, ack |-> rec.ack]>>, r.out)
                \/ /\ r.error # "ok"
                   /\ \E reason \in OwnReasons :
                        /\ Ended(c.h, r.h, reason)
                        /\ reason = "ProtocolViolation" => \A p \in c.h.pending : p.ack # rec.ack
  <1> DEFINE checks == << <<c.h.pending = {}, ProtocolFault("NoPendingBind")>>,
                          <<\A p \in c.h.pending : p.ack # rec.ack, ProtocolFault("BindMismatch")>>,
                          <<~env.available, RegistryFault>>,
                          <<\A p \in c.h.pending : ~RetainedMatches(p), RetainedFault>>,
                          <<~env.random, RandomFault>> >>
             next == [c.h EXCEPT !.pending = {}, !.receipt = c.h.pending, !.phase = "Ready"]
             bodies == <<[kind |-> "Bound", seq |-> 0, ack |-> rec.ack]>>
             r == HandleBind(c, rec, env)
  <1>1. r = Continue(c, checks, next, bodies)
    BY DEF HandleBind
  <1>2. DOMAIN checks = 1..5
    OBVIOUS
  <1>3. "NoPendingBind" \in Errors /\ "BindMismatch" \in Errors
    BY DEF Errors
  <1>4. \A i \in DOMAIN checks : IsFault(checks[i][2])
    BY <1>3, FaultsKnown
  <1>5. /\ checks[1][2].reason = "ProtocolViolation" /\ checks[2][2].reason = "ProtocolViolation"
        /\ checks[3][2].reason = "RegistryUnavailable" /\ checks[4][2].reason = "RetainedBytesMismatch"
        /\ checks[5][2].reason = "RandomUnavailable"
    BY <1>3, FaultsKnown
  <1>6. /\ checks[1][1] <=> c.h.pending = {}
        /\ checks[2][1] <=> \A p \in c.h.pending : p.ack # rec.ack
        /\ checks[4][1] <=> \A p \in c.h.pending : ~RetainedMatches(p)
    OBVIOUS
  <1>7. c.h \in HelperT
    BY DEF CallT
  <1> HIDE DEF checks, r
  <1>8. CASE Failing(checks) # {}
    <2>1. /\ r \in CallT /\ r.error # "ok"
          /\ \E i \in DOMAIN checks : checks[i][1] /\ Ended(c.h, r.h, checks[i][2].reason)
      BY <1>1, <1>2, <1>4, <1>8, Stops
    <2>2. PICK i \in 1..5 : checks[i][1] /\ Ended(c.h, r.h, checks[i][2].reason)
      BY <1>2, <2>1
    <2>3. \A x \in 1..5 : x = 1 \/ x = 2 \/ x = 3 \/ x = 4 \/ x = 5
      OBVIOUS
    <2>4. CASE i = 1 \/ i = 2
      <3>1. Ended(c.h, r.h, "ProtocolViolation") /\ \A p \in c.h.pending : p.ack # rec.ack
        BY <1>5, <1>6, <2>2, <2>4
      <3> QED
        BY <2>1, <3>1 DEF OwnReasons, Reasons, r
    <2>5. CASE i = 3 \/ i = 4 \/ i = 5
      <3>1. \E reason \in {"RegistryUnavailable", "RetainedBytesMismatch", "RandomUnavailable"} : Ended(c.h, r.h, reason)
        BY <1>5, <2>2, <2>5
      <3> QED
        BY <2>1, <3>1 DEF OwnReasons, Reasons, r
    <2> QED
      BY <2>2, <2>3, <2>4, <2>5
  <1>9. CASE Failing(checks) = {}
    <2>1. ~checks[2][1] /\ ~checks[4][1]
      BY <1>2, <1>9, Passes
    <2>2. PICK p \in c.h.pending : p.ack = rec.ack
      BY <1>6, <2>1
    <2>3. p.ack \in AckT
      BY <1>7 DEF HelperT, Held
    <2>4. [kind |-> "Bound", seq |-> 0, ack |-> rec.ack] \in SaidT
      BY <2>2, <2>3 DEF SaidT
    <2>5. next \in HelperT
      BY <1>7 DEF HelperT
    <2>6. bodies \in Seq(SaidT) /\ Len(bodies) <= 2
      BY <2>4
    <2>7. /\ next.phase = "Ready" /\ next.receipt = c.h.pending /\ next.pending = {}
          /\ next.lifetime = c.h.lifetime /\ next.predecessor = c.h.predecessor /\ next.version = c.h.version
          /\ next.in = c.h.in /\ next.revocation = c.h.revocation /\ next.drawn = c.h.drawn
      BY <1>7 DEF HelperT
    <2> HIDE DEF next, bodies
    <2>8. /\ r \in CallT
          /\ \/ r.error = "ok" /\ SameBut(next, r.h) /\ Spoken(c.out, bodies, r.out)
             \/ r.error # "ok" /\ CutOff(next, r.h)
      BY <1>1, <1>9, <2>5, <2>6, Speaks
    <2>9. CASE r.error = "ok"
      <3>1. /\ r.h.phase = "Ready" /\ r.h.receipt = c.h.pending /\ r.h.pending = {}
            /\ r.h.lifetime = c.h.lifetime /\ r.h.predecessor = c.h.predecessor /\ r.h.version = c.h.version
            /\ r.h.in = c.h.in /\ r.h.revocation = c.h.revocation /\ r.h.drawn = c.h.drawn
        BY <2>7, <2>8, <2>9 DEF SameBut
      <3>2. Spoken(c.out, <<[kind |-> "Bound", seq |-> 0, ack |-> rec.ack]>>, r.out)
        BY <2>8, <2>9 DEF bodies
      <3>3. \E q \in c.h.pending : RetainedMatches(q)
        BY <1>6, <2>1
      <3> QED
        BY <2>2, <2>8, <2>9, <3>1, <3>2, <3>3, Zenon DEF r
    <2>10. CASE r.error # "ok"
      <3>1. \E reason \in {"VersionExhausted", "ControlTransport"} : Ended(c.h, r.h, reason)
        BY <2>7, <2>8, <2>10 DEF CutOff, Ended
      <3> QED
        BY <2>8, <2>10, <3>1 DEF OwnReasons, Reasons, r
    <2> QED
      BY <2>9, <2>10
  <1> QED
    BY <1>8, <1>9

(* A rotation draws the next lifetime, announces it and projects the registry. *)
LEMMA Rotated ==
    ASSUME NEW c \in CallT, c.error = "ok", NEW checks, Failing(checks) = {},
           NEW rev \in Nat, NEW bytes \in Bytes
    PROVE  LET r == Rotate(c, checks, rev, bytes)
               l == [id |-> c.h.drawn + 1, rev |-> rev]
           IN  /\ r \in CallT /\ r.h.drawn = c.h.drawn + 1
               /\ \/ /\ r.error = "ok"
                     /\ r.h.phase = "Ready" /\ r.h.lifetime = {l} /\ r.h.predecessor = c.h.lifetime
                     /\ r.h.pending = c.h.pending /\ r.h.receipt = c.h.receipt /\ r.h.version = c.h.version
                     /\ r.h.in = c.h.in /\ r.h.revocation = c.h.revocation
                     /\ Spoken(c.out, <<LifetimeRec("Lifetime", l), ProjectionRec(l, bytes)>>, r.out)
                  \/ /\ r.error # "ok"
                     /\ \E h \in HelperT : h.drawn = c.h.drawn + 1 /\ CutOff(h, r.h)
  <1> DEFINE l == [id |-> c.h.drawn + 1, rev |-> rev]
             next == [c.h EXCEPT !.predecessor = c.h.lifetime, !.lifetime = {l}, !.drawn = l.id, !.phase = "Ready"]
             bodies == <<LifetimeRec("Lifetime", l), ProjectionRec(l, bytes)>>
             r == Rotate(c, checks, rev, bytes)
  <1>1. r = Continue(c, checks, next, bodies)
    BY DEF Rotate, FreshLifetime
  <1>2. c.h \in HelperT /\ c.h.drawn \in Nat /\ c.h.lifetime \in SUBSET Life
    BY DEF CallT, HelperT
  <1>3. l \in Life /\ l.id = c.h.drawn + 1 /\ l.id \in Nat
    BY <1>2 DEF Life
  <1>4. LifetimeRec("Lifetime", l) \in SaidT
    BY <1>2 DEF SaidT, LifetimeRec
  <1>5. ProjectionRec(l, bytes) \in SaidT
    BY <1>2 DEF SaidT, ProjectionRec
  <1> HIDE DEF l
  <1>6. next \in HelperT
    BY <1>2, <1>3 DEF HelperT
  <1>7. bodies \in Seq(SaidT) /\ Len(bodies) <= 2
    BY <1>4, <1>5
  <1>8. /\ next.phase = "Ready" /\ next.lifetime = {l} /\ next.predecessor = c.h.lifetime
        /\ next.pending = c.h.pending /\ next.receipt = c.h.receipt /\ next.version = c.h.version
        /\ next.in = c.h.in /\ next.revocation = c.h.revocation /\ next.drawn = c.h.drawn + 1
    BY <1>2, <1>3 DEF HelperT
  <1> HIDE DEF next, bodies, r
  <1>9. /\ r \in CallT
        /\ \/ r.error = "ok" /\ SameBut(next, r.h) /\ Spoken(c.out, bodies, r.out)
           \/ r.error # "ok" /\ CutOff(next, r.h)
    BY <1>1, <1>6, <1>7, Speaks
  <1>10. r.h.drawn = c.h.drawn + 1
    BY <1>8, <1>9 DEF SameBut, CutOff, Ended
  <1>11. CASE r.error = "ok"
    <2>1. /\ r.h.phase = "Ready" /\ r.h.lifetime = {l} /\ r.h.predecessor = c.h.lifetime
          /\ r.h.pending = c.h.pending /\ r.h.receipt = c.h.receipt /\ r.h.version = c.h.version
          /\ r.h.in = c.h.in /\ r.h.revocation = c.h.revocation
      BY <1>8, <1>9, <1>11 DEF SameBut
    <2>2. Spoken(c.out, <<LifetimeRec("Lifetime", l), ProjectionRec(l, bytes)>>, r.out)
      BY <1>9, <1>11 DEF bodies
    <2> QED
      BY <1>9, <1>10, <1>11, <2>1, <2>2, Zenon DEF r, l
  <1>12. CASE r.error # "ok"
    BY <1>6, <1>8, <1>9, <1>10, <1>12, Zenon DEF r
  <1> QED
    BY <1>11, <1>12

(* establish: the launch echoed, then the first lifetime. *)
LEMMA EstablishHandled ==
    ASSUME NEW c \in CallT, c.error = "ok", NEW rec, NEW env, view.rev \in Nat, view.bytes \in Bytes
    PROVE  LET r == Establish(c, rec, env)
               l == [id |-> c.h.drawn + 1, rev |-> view.rev]
           IN  /\ r \in CallT
               /\ \/ /\ r.error = "ok" /\ rec.kind = "Establish" /\ EchoMatches(rec)
                     /\ r.h.phase = "Ready" /\ r.h.lifetime = {l} /\ r.h.predecessor = c.h.predecessor
                     /\ r.h.pending = c.h.pending /\ r.h.receipt = c.h.receipt /\ r.h.version = c.h.version
                     /\ r.h.in = c.h.in /\ r.h.revocation = c.h.revocation /\ r.h.drawn = c.h.drawn + 1
                     /\ Spoken(c.out, <<LifetimeRec("Established", l), ProjectionRec(l, view.bytes)>>, r.out)
                  \/ /\ r.error # "ok" /\ rec.kind = "Establish" /\ EchoMatches(rec)
                     /\ \E h \in HelperT : h.drawn = c.h.drawn + 1 /\ CutOff(h, r.h)
                  \/ /\ r.error # "ok"
                     /\ \E reason \in OwnReasons :
                          /\ Ended(c.h, r.h, reason)
                          /\ reason = "ProtocolViolation" => rec.kind # "Establish"
  <1> DEFINE r == Establish(c, rec, env)
             l == [id |-> c.h.drawn + 1, rev |-> view.rev]
  <1>1. c.h \in HelperT /\ c.h.drawn \in Nat
    BY DEF CallT, HelperT
  <1>2. CASE rec.kind # "Establish"
    <2> DEFINE checks == << <<TRUE, ProtocolFault("UnexpectedRecord")>> >>
    <2>1. r = Continue(c, checks, c.h, <<>>)
      BY <1>2 DEF Establish
    <2>2. "UnexpectedRecord" \in Errors
      BY DEF Errors
    <2>3. DOMAIN checks = {1} /\ checks[1][1] /\ IsFault(checks[1][2]) /\ checks[1][2].reason = "ProtocolViolation"
      BY <2>2, FaultsKnown
    <2> HIDE DEF checks
    <2>4. Failing(checks) # {} /\ DOMAIN checks \subseteq Nat /\ \A i \in DOMAIN checks : IsFault(checks[i][2])
      BY <2>3 DEF Failing
    <2> HIDE DEF r
    <2>5. /\ r \in CallT /\ r.error # "ok"
          /\ \E i \in DOMAIN checks : checks[i][1] /\ Ended(c.h, r.h, checks[i][2].reason)
      BY <2>1, <2>4, Stops
    <2>6. Ended(c.h, r.h, "ProtocolViolation")
      BY <2>3, <2>5
    <2> QED
      BY <1>2, <2>5, <2>6 DEF OwnReasons, Reasons, r
  <1>3. CASE rec.kind = "Establish"
    <2> DEFINE checks == << <<~EchoMatches(rec), EstablishmentFault>>,
                            <<~env.available, RegistryFault>>, <<~env.random, RandomFault>> >>
               next == [c.h EXCEPT !.lifetime = {l}, !.drawn = l.id, !.phase = "Ready"]
               bodies == <<LifetimeRec("Established", l), ProjectionRec(l, view.bytes)>>
    <2>1. r = Continue(c, checks, next, bodies)
      BY <1>3 DEF Establish, FreshLifetime
    <2>2. DOMAIN checks = 1..3
      OBVIOUS
    <2>3. \A i \in DOMAIN checks :
            /\ IsFault(checks[i][2])
            /\ checks[i][2].reason \in {"EstablishmentMismatch", "RegistryUnavailable", "RandomUnavailable"}
      BY FaultsKnown
    <2>4. checks[1][1] <=> ~EchoMatches(rec)
      OBVIOUS
    <2>5. l \in Life /\ l.id = c.h.drawn + 1 /\ l.id \in Nat
      BY <1>1 DEF Life
    <2>6. LifetimeRec("Established", l) \in SaidT /\ ProjectionRec(l, view.bytes) \in SaidT
      BY <1>1 DEF SaidT, LifetimeRec, ProjectionRec
    <2> HIDE DEF l, r, checks
    <2>7. next \in HelperT
      BY <1>1, <2>5 DEF HelperT
    <2>8. bodies \in Seq(SaidT) /\ Len(bodies) <= 2
      BY <2>6
    <2>9. /\ next.phase = "Ready" /\ next.lifetime = {l} /\ next.predecessor = c.h.predecessor
          /\ next.pending = c.h.pending /\ next.receipt = c.h.receipt /\ next.version = c.h.version
          /\ next.in = c.h.in /\ next.revocation = c.h.revocation /\ next.drawn = c.h.drawn + 1
      BY <1>1, <2>5 DEF HelperT
    <2> HIDE DEF next, bodies
    <2>10. CASE Failing(checks) # {}
      <3>1. DOMAIN checks \subseteq Nat /\ \A i \in DOMAIN checks : IsFault(checks[i][2])
        BY <2>2, <2>3
      <3>2. /\ r \in CallT /\ r.error # "ok"
            /\ \E i \in DOMAIN checks : Ended(c.h, r.h, checks[i][2].reason)
        BY <2>1, <2>10, <3>1, Stops
      <3>3. \E reason \in {"EstablishmentMismatch", "RegistryUnavailable", "RandomUnavailable"} : Ended(c.h, r.h, reason)
        BY <2>3, <3>2
      <3> QED
        BY <3>2, <3>3 DEF OwnReasons, Reasons, r
    <2>11. CASE Failing(checks) = {}
      <3>1. EchoMatches(rec)
        BY <2>2, <2>4, <2>11, Passes
      <3>2. /\ r \in CallT
            /\ \/ r.error = "ok" /\ SameBut(next, r.h) /\ Spoken(c.out, bodies, r.out)
               \/ r.error # "ok" /\ CutOff(next, r.h)
        BY <2>1, <2>7, <2>8, <2>11, Speaks
      <3>3. CASE r.error = "ok"
        <4>1. /\ r.h.phase = "Ready" /\ r.h.lifetime = {l} /\ r.h.predecessor = c.h.predecessor
              /\ r.h.pending = c.h.pending /\ r.h.receipt = c.h.receipt /\ r.h.version = c.h.version
              /\ r.h.in = c.h.in /\ r.h.revocation = c.h.revocation /\ r.h.drawn = c.h.drawn + 1
          BY <2>9, <3>2, <3>3 DEF SameBut
        <4>2. Spoken(c.out, <<LifetimeRec("Established", l), ProjectionRec(l, view.bytes)>>, r.out)
          BY <3>2, <3>3 DEF bodies
        <4> QED
          BY <1>3, <3>1, <3>2, <3>3, <4>1, <4>2, Zenon DEF r, l
      <3>4. CASE r.error # "ok"
        BY <1>3, <2>7, <2>9, <3>1, <3>2, <3>4, Zenon DEF r
      <3> QED
        BY <3>3, <3>4
    <2> QED
      BY <2>10, <2>11
  <1> QED
    BY <1>2, <1>3

LEMMA ProofDropped ==
    ASSUME NEW h \in HelperT
    PROVE  LET g == DropProof(h) IN
             /\ g \in HelperT /\ g.pending = {} /\ g.receipt = {} /\ g.phase = h.phase /\ g.in = h.in
             /\ g.lifetime = h.lifetime /\ g.predecessor = h.predecessor /\ g.version = h.version
             /\ g.revocation = h.revocation /\ g.drawn = h.drawn
  BY DEF DropProof, HelperT

LEMMA WithdrawnEnds ==
    ASSUME NEW h \in HelperT
    PROVE  Withdrawn(h) \in HelperT /\ Ended(h, Withdrawn(h), "PeerWithdrewAuthority")
  BY DEF Withdrawn, ClearAuthority, HelperT, Ended, Reasons

(* handle_invalidate: the current lifetime rotates or closes, the one before it is let pass or closes,
   any other is a fault. *)
LEMMA InvalidateHandled ==
    ASSUME NEW c \in CallT, c.error = "ok", NEW rec, NEW env, view.rev \in Nat, view.bytes \in Bytes
    PROVE  LET r == HandleInvalidate(c, rec, env)
               named == [id |-> rec.id, rev |-> rec.rev]
               l == [id |-> c.h.drawn + 1, rev |-> rec.rev]
           IN  /\ r \in CallT
               /\ \/ /\ r.error = "ok" /\ Withdraws(rec.reason) /\ Ended(c.h, r.h, "PeerWithdrewAuthority")
                     /\ r.out = c.out
                  \/ /\ r.error = "ok" /\ ~Withdraws(rec.reason) /\ c.h.lifetime = {named}
                     /\ r.h.phase = "Ready" /\ r.h.lifetime = {l} /\ r.h.predecessor = {named}
                     /\ r.h.pending = {} /\ r.h.receipt = {} /\ r.h.version = c.h.version
                     /\ r.h.in = c.h.in /\ r.h.revocation = c.h.revocation /\ r.h.drawn = c.h.drawn + 1
                     /\ Spoken(c.out, <<LifetimeRec("Lifetime", l), ProjectionRec(l, view.bytes)>>, r.out)
                     /\ view.rev = rec.rev
                  \/ /\ r.error = "ok" /\ ~Withdraws(rec.reason) /\ c.h.lifetime # {named}
                     /\ c.h.predecessor = {named} /\ r.out = c.out /\ Parted(c.h, r.h)
                  \/ /\ r.error # "ok" /\ c.h.lifetime = {named}
                     /\ \E h \in HelperT : h.drawn = c.h.drawn + 1 /\ CutOff(h, r.h)
                  \/ /\ r.error # "ok"
                     /\ \E reason \in OwnReasons :
                          /\ Ended(c.h, r.h, reason)
                          /\ reason = "ProtocolViolation" =>
                               \/ rec.reason = "RegistryMutation"
                               \/ c.h.lifetime = {named} /\ ~Withdraws(rec.reason) /\ view.rev # rec.rev
                               \/ c.h.lifetime # {named} /\ c.h.predecessor # {named}
  <1> DEFINE r == HandleInvalidate(c, rec, env)
             named == [id |-> rec.id, rev |-> rec.rev]
             l == [id |-> c.h.drawn + 1, rev |-> rec.rev]
  <1>1. c.h \in HelperT
    BY DEF CallT
  <1>2. ASSUME NEW e \in Errors
        PROVE  LET q == Fail(c, ProtocolFault(e)) IN
                 q \in CallT /\ q.error # "ok" /\ Ended(c.h, q.h, "ProtocolViolation")
    <2>1. IsFault(ProtocolFault(e)) /\ ProtocolFault(e).reason = "ProtocolViolation" /\ ProtocolFault(e).error = e
      BY FaultsKnown
    <2> HIDE DEF r
    <2> QED
      BY <2>1, Fails, ErrorsAreNotOk
  <1>3. "CoreRegistryMutation" \in Errors /\ "StaleAuthority" \in Errors
    BY DEF Errors
  <1>4. CASE rec.reason = "RegistryMutation"
    <2>1. r = Fail(c, ProtocolFault("CoreRegistryMutation"))
      BY <1>4 DEF HandleInvalidate
    <2>2. r \in CallT /\ r.error # "ok" /\ Ended(c.h, r.h, "ProtocolViolation")
      BY <1>2, <1>3, <2>1
    <2> QED
      BY <1>4, <2>2 DEF OwnReasons, Reasons
  <1>5. CASE rec.reason # "RegistryMutation" /\ c.h.lifetime = {named} /\ Withdraws(rec.reason)
    <2>1. r = [c EXCEPT !.h = Withdrawn(c.h)]
      BY <1>5 DEF HandleInvalidate
    <2>2. r \in CallT /\ r.error = "ok" /\ r.out = c.out /\ r.h = Withdrawn(c.h)
      BY <1>1, <2>1, WithdrawnEnds DEF CallT
    <2> QED
      BY <1>1, <1>5, <2>2, WithdrawnEnds
  <1>6. CASE rec.reason # "RegistryMutation" /\ c.h.lifetime = {named} /\ ~Withdraws(rec.reason)
    <2> DEFINE checks == << <<~env.available, RegistryFault>>,
                            <<view.rev # rec.rev, ProtocolFault("StaleAuthority")>>, <<~env.random, RandomFault>> >>
               d == [c EXCEPT !.h = DropProof(c.h)]
    <2>1. r = Rotate(d, checks, rec.rev, view.bytes)
      BY <1>6 DEF HandleInvalidate
    <2>2. d \in CallT /\ d.error = "ok" /\ d.out = c.out /\ d.h = DropProof(c.h)
      BY <1>1, ProofDropped DEF CallT
    <2>3. /\ d.h \in HelperT /\ d.h.pending = {} /\ d.h.receipt = {} /\ d.h.in = c.h.in
          /\ d.h.lifetime = c.h.lifetime /\ d.h.version = c.h.version
          /\ d.h.revocation = c.h.revocation /\ d.h.drawn = c.h.drawn
      BY <1>1, <2>2, ProofDropped
    <2>a. DOMAIN checks = 1..3
      OBVIOUS
    <2>b. checks[2][1] <=> view.rev # rec.rev
      OBVIOUS
    <2>4. DOMAIN checks = 1..3 /\ (checks[2][1] <=> view.rev # rec.rev)
      BY <2>a, <2>b
    <2>5. /\ \A i \in DOMAIN checks : IsFault(checks[i][2])
          /\ checks[1][2].reason = "RegistryUnavailable" /\ checks[2][2].reason = "ProtocolViolation"
          /\ checks[3][2].reason = "RandomUnavailable"
      BY <1>3, FaultsKnown
    <2> HIDE DEF checks, d, r
    <2>6. CASE Failing(checks) # {}
      <3>1. r = Continue(d, checks,
                         [d.h EXCEPT !.predecessor = d.h.lifetime, !.lifetime = {FreshLifetime(d.h, rec.rev)},
                                     !.drawn = FreshLifetime(d.h, rec.rev).id, !.phase = "Ready"],
                         <<LifetimeRec("Lifetime", FreshLifetime(d.h, rec.rev)),
                           ProjectionRec(FreshLifetime(d.h, rec.rev), view.bytes)>>)
        BY <2>1 DEF Rotate
      <3>2. DOMAIN checks \subseteq Nat /\ \A i \in DOMAIN checks : IsFault(checks[i][2])
        BY <2>4, <2>5
      <3>3. /\ r \in CallT /\ r.error # "ok"
            /\ \E i \in DOMAIN checks : checks[i][1] /\ Ended(d.h, r.h, checks[i][2].reason)
        BY <2>2, <2>6, <3>1, <3>2, Stops
      <3>4. PICK i \in 1..3 : checks[i][1] /\ Ended(d.h, r.h, checks[i][2].reason)
        BY <2>4, <3>3
      <3>5. Ended(c.h, r.h, checks[i][2].reason)
        BY <2>3, <3>4 DEF Ended
      <3>6. CASE i = 2
        BY <1>6, <2>4, <2>5, <3>3, <3>4, <3>5, <3>6 DEF OwnReasons, Reasons, r
      <3>7. CASE i = 1 \/ i = 3
        <4>1. \E reason \in {"RegistryUnavailable", "RandomUnavailable"} : Ended(c.h, r.h, reason)
          BY <2>5, <3>5, <3>7
        <4> QED
          BY <3>3, <4>1 DEF OwnReasons, Reasons, r
      <3> QED
        BY <3>4, <3>6, <3>7
    <2>7. CASE Failing(checks) = {}
      <3>1. view.rev = rec.rev
        BY <2>4, <2>7, Passes
      <3>2. rec.rev \in Nat
        BY <3>1
      <3>3. LET k == [id |-> d.h.drawn + 1, rev |-> rec.rev] IN
               /\ r \in CallT /\ r.h.drawn = d.h.drawn + 1
               /\ \/ /\ r.error = "ok"
                     /\ r.h.phase = "Ready" /\ r.h.lifetime = {k} /\ r.h.predecessor = d.h.lifetime
                     /\ r.h.pending = d.h.pending /\ r.h.receipt = d.h.receipt /\ r.h.version = d.h.version
                     /\ r.h.in = d.h.in /\ r.h.revocation = d.h.revocation
                     /\ Spoken(d.out, <<LifetimeRec("Lifetime", k), ProjectionRec(k, view.bytes)>>, r.out)
                  \/ /\ r.error # "ok"
                     /\ \E h \in HelperT : h.drawn = d.h.drawn + 1 /\ CutOff(h, r.h)
        BY <2>1, <2>2, <2>7, <3>2, Rotated
      <3>4. [id |-> d.h.drawn + 1, rev |-> rec.rev] = l
        BY <2>3
      <3>5. /\ r \in CallT /\ r.h.drawn = c.h.drawn + 1
            /\ \/ /\ r.error = "ok"
                  /\ r.h.phase = "Ready" /\ r.h.lifetime = {l} /\ r.h.predecessor = {named}
                  /\ r.h.pending = {} /\ r.h.receipt = {} /\ r.h.version = c.h.version
                  /\ r.h.in = c.h.in /\ r.h.revocation = c.h.revocation
                  /\ Spoken(c.out, <<LifetimeRec("Lifetime", l), ProjectionRec(l, view.bytes)>>, r.out)
               \/ /\ r.error # "ok"
                  /\ \E h \in HelperT : h.drawn = c.h.drawn + 1 /\ CutOff(h, r.h)
        BY <1>6, <2>2, <2>3, <3>3, <3>4
      <3> QED
        BY <1>6, <3>1, <3>5, Zenon DEF r
    <2> QED
      BY <2>6, <2>7
  <1>7. CASE rec.reason # "RegistryMutation" /\ c.h.lifetime # {named} /\ c.h.predecessor = {named}
    <2>1. r = [c EXCEPT !.h = Crossed(c.h, rec.reason)]
      BY <1>7 DEF HandleInvalidate, IsPredecessor
    <2>2. CASE Withdraws(rec.reason)
      <3>1. Crossed(c.h, rec.reason) = Withdrawn(c.h)
        BY <2>2 DEF Crossed
      <3>2. r \in CallT /\ r.error = "ok" /\ r.out = c.out /\ r.h = Withdrawn(c.h)
        BY <1>1, <2>1, <3>1, WithdrawnEnds DEF CallT
      <3> QED
        BY <1>1, <2>2, <3>2, WithdrawnEnds
    <2>3. CASE ~Withdraws(rec.reason)
      <3>1. Crossed(c.h, rec.reason) = [c.h EXCEPT !.predecessor = {}]
        BY <2>3 DEF Crossed
      <3>2. [c.h EXCEPT !.predecessor = {}] \in HelperT
        BY <1>1 DEF HelperT
      <3>3. r \in CallT /\ r.error = "ok" /\ r.out = c.out /\ Parted(c.h, r.h)
        <4> DEFINE g == [c.h EXCEPT !.predecessor = {}]
        <4>1. r = [c EXCEPT !.h = g] /\ g \in HelperT
          BY <2>1, <3>1, <3>2
        <4>3. Parted(c.h, g)
          BY <1>1 DEF HelperT, Parted
        <4> HIDE DEF g
        <4>2. r \in CallT /\ r.error = "ok" /\ r.out = c.out /\ r.h = g
          BY <4>1 DEF CallT
        <4> QED
          BY <4>2, <4>3
      <3> QED
        BY <1>7, <2>3, <3>3
    <2> QED
      BY <2>2, <2>3
  <1>8. CASE rec.reason # "RegistryMutation" /\ c.h.lifetime # {named} /\ c.h.predecessor # {named}
    <2>1. r = Fail(c, ProtocolFault("StaleAuthority"))
      BY <1>8 DEF HandleInvalidate, IsPredecessor
    <2>2. r \in CallT /\ r.error # "ok" /\ Ended(c.h, r.h, "ProtocolViolation")
      BY <1>2, <1>3, <2>1
    <2> QED
      BY <1>8, <2>2 DEF OwnReasons, Reasons
  <1> QED
    BY <1>4, <1>5, <1>6, <1>7, <1>8

\* What a call that is not refused its phase leaves of the helper's authority.
PeerReasons == {"PeerWithdrewAuthority", "PeerError"}

Grown(h, g) ==
    /\ g.drawn >= h.drawn
    /\ g.phase = "Revoked" => g.lifetime = {}
    /\ g.phase # "Revoked" =>
         g.phase \in {"Ready", "AwaitingBind"} /\ g.lifetime # {} /\ g.revocation = h.revocation

Withdrawing(rec) == rec.kind = "Error" \/ (rec.kind = "Invalidate" /\ Withdraws(rec.reason))

\* A session ended for a reason of its own.
LEMMA EndedGrows ==
    ASSUME NEW h \in HelperT, NEW k \in HelperT, NEW g \in HelperT, NEW reason \in Reasons \ PeerReasons,
           k.drawn >= h.drawn, Ended(k, g, reason)
    PROVE  Grown(h, g) /\ g.revocation \notin PeerReasons
  BY DEF Grown, Ended, Reasons, PeerReasons

(* step: control goes on, or it is over; it is over on the peer's account only
   when the record withdraws or reports an error, and a record that does is never
   passed over. *)
LEMMA StepHandled ==
    ASSUME NEW c \in CallT, c.error = "ok", c.h.phase \in {"Ready", "AwaitingBind"}, c.h.revocation = "none",
           c.h.lifetime # {}, NEW rec, rec.kind = "Publish" => rec.version \in Nat /\ rec.bytes \in Bytes,
           NEW env, view.rev \in Nat, view.bytes \in Bytes
    PROVE  LET r == Handle(c, rec, env) IN
             /\ r \in CallT /\ Grown(c.h, r.h)
             /\ r.h.revocation \in PeerReasons => Withdrawing(rec)
             /\ Withdrawing(rec) => r.h.phase = "Revoked"
  <1> DEFINE r == Handle(c, rec, env)
  <1>1. c.h \in HelperT /\ c.h.drawn \in Nat
    BY DEF CallT, HelperT
  <1>2. \A reason \in OwnReasons : reason \in Reasons \ PeerReasons
    BY DEF OwnReasons, Reasons, PeerReasons
  <1>3. ASSUME NEW g \in HelperT, NEW reason \in OwnReasons, Ended(c.h, g, reason)
        PROVE  Grown(c.h, g) /\ g.revocation \notin PeerReasons /\ g.phase = "Revoked"
    <2>1. Grown(c.h, g) /\ g.revocation \notin PeerReasons
      BY <1>1, <1>2, <1>3, EndedGrows
    <2> QED
      BY <1>3, <2>1 DEF Ended
  <1>4. ASSUME NEW g \in HelperT, NEW h \in HelperT, h.drawn = c.h.drawn + 1, CutOff(h, g)
        PROVE  Grown(c.h, g) /\ g.revocation \notin PeerReasons /\ g.phase = "Revoked"
    <2>1. "VersionExhausted" \in Reasons \ PeerReasons /\ "ControlTransport" \in Reasons \ PeerReasons
      BY DEF Reasons, PeerReasons
    <2>2. h.drawn >= c.h.drawn
      BY <1>1, <1>4
    <2>3. PICK reason \in Reasons \ PeerReasons : Ended(h, g, reason)
      BY <1>4, <2>1 DEF CutOff
    <2>4. Grown(c.h, g) /\ g.revocation \notin PeerReasons
      BY <1>1, <1>4, <2>2, <2>3, EndedGrows
    <2> QED
      BY <2>3, <2>4 DEF Ended
  <1>5. "none" \notin PeerReasons
    BY DEF PeerReasons
  <1>6. CASE rec.kind = "Publish"
    <2>1. r = HandlePublish(c, rec, env)
      BY <1>6 DEF Handle
    <2>2. /\ r \in CallT
          /\ \/ /\ r.error = "ok" /\ r.h.phase = "AwaitingBind" /\ r.h.lifetime = c.h.lifetime
                /\ r.h.revocation = c.h.revocation /\ r.h.drawn = c.h.drawn
             \/ \E reason \in OwnReasons : Ended(c.h, r.h, reason)
      BY <1>6, <2>1, PublishHandled
    <2> HIDE DEF r
    <2>3. r.h \in HelperT
      BY <2>2 DEF CallT
    <2>4. ~Withdrawing(rec)
      BY <1>6 DEF Withdrawing
    <2>5. Grown(c.h, r.h) /\ r.h.revocation \notin PeerReasons
      BY <1>1, <1>3, <1>5, <2>2, <2>3 DEF Grown
    <2> QED
      BY <2>2, <2>4, <2>5 DEF r
  <1>7. CASE rec.kind = "Bind"
    <2>1. r = HandleBind(c, rec, env)
      BY <1>7 DEF Handle
    <2>2. /\ r \in CallT
          /\ \/ /\ r.error = "ok" /\ r.h.phase = "Ready" /\ r.h.lifetime = c.h.lifetime
                /\ r.h.revocation = c.h.revocation /\ r.h.drawn = c.h.drawn
             \/ \E reason \in OwnReasons : Ended(c.h, r.h, reason)
      <3> HIDE DEF r
      <3> QED
        BY <2>1, BindHandled
    <2> HIDE DEF r
    <2>3. r.h \in HelperT
      BY <2>2 DEF CallT
    <2>4. ~Withdrawing(rec)
      BY <1>7 DEF Withdrawing
    <2>5. Grown(c.h, r.h) /\ r.h.revocation \notin PeerReasons
      BY <1>1, <1>3, <1>5, <2>2, <2>3 DEF Grown
    <2> QED
      BY <2>2, <2>4, <2>5 DEF r
  <1>8. CASE rec.kind = "Invalidate"
    <2>1. r = HandleInvalidate(c, rec, env)
      BY <1>8 DEF Handle
    <2>2. /\ r \in CallT
          /\ \/ Withdraws(rec.reason) /\ Ended(c.h, r.h, "PeerWithdrewAuthority")
             \/ /\ ~Withdraws(rec.reason) /\ r.h.phase = "Ready" /\ r.h.lifetime # {}
                /\ r.h.revocation = c.h.revocation /\ r.h.drawn = c.h.drawn + 1
             \/ ~Withdraws(rec.reason) /\ Parted(c.h, r.h)
             \/ \E h \in HelperT : h.drawn = c.h.drawn + 1 /\ CutOff(h, r.h)
             \/ \E reason \in OwnReasons : Ended(c.h, r.h, reason)
      <3> HIDE DEF r
      <3> QED
        BY <2>1, InvalidateHandled
    <2> HIDE DEF r
    <2>3. r.h \in HelperT
      BY <2>2 DEF CallT
    <2>4. Withdrawing(rec) <=> Withdraws(rec.reason)
      BY <1>8 DEF Withdrawing
    <2>5. CASE Withdraws(rec.reason) /\ Ended(c.h, r.h, "PeerWithdrewAuthority")
      BY <1>1, <2>2, <2>4, <2>5 DEF Grown, Ended, r
    <2>6. CASE /\ ~Withdraws(rec.reason) /\ r.h.phase = "Ready" /\ r.h.lifetime # {}
               /\ r.h.revocation = c.h.revocation /\ r.h.drawn = c.h.drawn + 1
      BY <1>1, <1>5, <2>2, <2>4, <2>6 DEF Grown, r
    <2>7. CASE ~Withdraws(rec.reason) /\ Parted(c.h, r.h)
      BY <1>1, <1>5, <2>2, <2>4, <2>7 DEF Grown, Parted, r
    <2>8. CASE (\E h \in HelperT : h.drawn = c.h.drawn + 1 /\ CutOff(h, r.h))
               \/ \E reason \in OwnReasons : Ended(c.h, r.h, reason)
      BY <1>3, <1>4, <2>2, <2>3, <2>8 DEF r
    <2> QED
      BY <2>2, <2>5, <2>6, <2>7, <2>8
  <1>9. CASE rec.kind \notin {"Publish", "Bind", "Invalidate"}
    <2> DEFINE fault == IF rec.kind = "Error" THEN PeerFault ELSE ProtocolFault("UnexpectedRecord")
    <2>1. r = Fail(c, fault)
      BY <1>9 DEF Handle
    <2>2. "UnexpectedRecord" \in Errors
      BY DEF Errors
    <2>3. IsFault(fault) /\ (fault.reason = IF rec.kind = "Error" THEN "PeerError" ELSE "ProtocolViolation")
      BY <2>2, FaultsKnown
    <2> HIDE DEF fault
    <2>4. r \in CallT /\ Ended(c.h, r.h, fault.reason)
      BY <2>1, <2>3, Fails
    <2>5. fault.reason \in PeerReasons => rec.kind = "Error"
      BY <2>3 DEF PeerReasons
    <2> HIDE DEF r
    <2>6. r.h.phase = "Revoked" /\ r.h.revocation = fault.reason /\ Grown(c.h, r.h)
      BY <1>1, <2>4 DEF Ended, Grown
    <2> QED
      BY <2>4, <2>5, <2>6 DEF Withdrawing, r
  <1> QED
    BY <1>6, <1>7, <1>8, <1>9

\* A frame that is read and whose record is Core's and of this launch.
Passed(f) == ReadVerdict(f) = "ok" /\ f.rec.sender = "core" /\ f.rec.session = "launch"

PublishTyped(f) == (Passed(f) /\ f.rec.kind = "Publish") => f.rec.version \in Nat /\ f.rec.bytes \in Bytes

\* What a frame that cannot be read is refused with.
LEMMA ReadRefused ==
    ASSUME NEW f, ReadVerdict(f) # "ok"
    PROVE  LET v == ReadVerdict(f)
               fault == Fault(v, ReadFault(v).reason, ReadFault(v).code)
           IN  IsFault(fault) /\ fault.reason \in OwnReasons
  <1> DEFINE checks == << <<f.cut = "closed", "Closed">>, <<f.cut = "prefix", "TruncatedPrefix">>,
                          <<f.len = 0, "ZeroLength">>, <<f.len > FrameMax, "FrameTooLarge">>,
                          <<f.len < HeaderBytes, "FrameShorterThanHeader">>,
                          <<f.cut = "memory", "AllocationFailed">>,
                          <<f.cut = "body", "TruncatedBody">>, <<f.cut = "io", "Io">>,
                          <<f.len > SmallMax /\ f.known /\ f.rec.kind \notin {"Projection", "Publish"},
                            "SmallRecordTooLarge">>,
                          <<~f.known, "Record">> >>
             v == ReadVerdict(f)
  <1>1. v = Verdict(checks)
    BY DEF ReadVerdict
  <1>2. DOMAIN checks = 1..10
    OBVIOUS
  <1>3. \A i \in 1..10 : checks[i][2] \in Errors
    BY DEF Errors
  <1> HIDE DEF checks
  <1>4. Failing(checks) \in SUBSET Nat /\ Failing(checks) \subseteq DOMAIN checks
    BY <1>2 DEF Failing
  <1>5. v \in Errors
    BY <1>1, <1>2, <1>3, <1>4, LeastCheck DEF Verdict
  <1> HIDE DEF v
  <1>6. ReadFault(v).reason \in {"ControlTransport", "ResourceLimit", "ProtocolViolation"}
    BY DEF ReadFault
  <1> QED
    BY <1>5, <1>6 DEF IsFault, Fault, OwnReasons, Reasons, v

(* establish and step: one frame is read.  The first lifetime is drawn only for
   the launch echoed, and a record that withdraws or reports an error ends
   control, which nothing else does on the peer's account. *)
LEMMA FrameHandled ==
    ASSUME helper \in HelperT, helper.phase # "Revoked", helper.revocation = "none", Active => helper.lifetime # {},
           toCore \in Seq(SaidT), view.rev \in Nat, view.bytes \in Bytes,
           toHelper # <<>>, PublishTyped(Head(toHelper)), NEW env, NEW dead \in Int, ReadAndHandle(env, dead)
    PROVE  LET f == Head(toHelper) IN
             /\ helper' \in HelperT /\ toCore' \in Seq(SaidT) /\ Grown(helper, helper')
             /\ helper.phase = "AwaitingEstablish" /\ helper'.drawn # helper.drawn =>
                  Passed(f) /\ f.rec.kind = "Establish" /\ EchoMatches(f.rec)
             /\ helper.phase = "AwaitingEstablish" /\ helper'.phase # "Revoked" =>
                  helper'.drawn = helper.drawn + 1
             /\ (helper.phase # "AwaitingEstablish" /\ helper'.revocation \in PeerReasons) =>
                  Passed(f) /\ Withdrawing(f.rec)
             /\ Withdrawing(f.rec) => helper'.phase = "Revoked"
  <1> DEFINE f == Head(toHelper)
             v == ReadVerdict(f)
             c == Call(helper, dead)
             in == Envelope(c, f.rec)
             r == IF v # "ok" THEN Fail(c, Fault(v, ReadFault(v).reason, ReadFault(v).code))
                  ELSE IF in.h.phase = "AwaitingEstablish" THEN Establish(in, f.rec, env)
                  ELSE Handle(in, f.rec, env)
  <1>1. helper' = r.h /\ toCore' = toCore \o r.out
    BY DEF ReadAndHandle, Done
  <1>2. c \in CallT /\ c.error = "ok" /\ c.out = <<>> /\ c.h = helper
    BY DEF Call, CallT
  <1>3. "none" \notin PeerReasons /\ helper.drawn \in Nat
    BY DEF PeerReasons, HelperT
  <1>4. \A reason \in OwnReasons : reason \in Reasons \ PeerReasons
    BY DEF OwnReasons, Reasons, PeerReasons
  <1> SUFFICES /\ r \in CallT /\ Grown(helper, r.h)
               /\ helper.phase = "AwaitingEstablish" /\ r.h.drawn # helper.drawn =>
                    Passed(f) /\ f.rec.kind = "Establish" /\ EchoMatches(f.rec)
               /\ helper.phase = "AwaitingEstablish" /\ r.h.phase # "Revoked" =>
                    r.h.drawn = helper.drawn + 1
               /\ (helper.phase # "AwaitingEstablish" /\ r.h.revocation \in PeerReasons) =>
                    Passed(f) /\ Withdrawing(f.rec)
               /\ Withdrawing(f.rec) => r.h.phase = "Revoked"
    <2> HIDE DEF r, f
    <2>1. r.h \in HelperT /\ r.out \in Seq(SaidT)
      BY DEF CallT
    <2>2. toCore' \in Seq(SaidT)
      BY <1>1, <2>1
    <2> QED
      BY <1>1, <2>1, <2>2 DEF f
  <1> HIDE DEF f, c
  <1>5. ASSUME NEW g \in HelperT, NEW reason \in OwnReasons, Ended(helper, g, reason)
        PROVE  Grown(helper, g) /\ g.revocation \notin PeerReasons /\ g.phase = "Revoked" /\ g.drawn = helper.drawn
    <2>1. Grown(helper, g) /\ g.revocation \notin PeerReasons
      BY <1>3, <1>4, <1>5, EndedGrows
    <2> QED
      BY <1>5, <2>1 DEF Ended
  <1>6. CASE v # "ok"
    <2> DEFINE fault == Fault(v, ReadFault(v).reason, ReadFault(v).code)
    <2>1. r = Fail(c, fault)
      BY <1>6
    <2>2. IsFault(fault) /\ fault.reason \in OwnReasons
      BY <1>6, ReadRefused
    <2> HIDE DEF fault, r
    <2>3. r \in CallT /\ Ended(helper, r.h, fault.reason)
      BY <1>2, <2>1, <2>2, Fails
    <2>4. r.h \in HelperT
      BY <2>3 DEF CallT
    <2> QED
      BY <1>5, <2>2, <2>3, <2>4 DEF r
  <1>7. ASSUME v = "ok", in.error # "ok"
        PROVE  r = in
    <2>1. in.h.phase = "Revoked"
      <3> HIDE DEF in
      <3>1. Ended(c.h, in.h, "ProtocolViolation")
        BY <1>2, <1>7, Enveloped DEF in
      <3> QED
        BY <3>1 DEF Ended
    <2>2. Handle(in, f.rec, env) = in
      <3> HIDE DEF in
      <3> QED
        BY <1>7 DEF Handle
    <2> HIDE DEF in
    <2> QED
      BY <1>7, <2>1, <2>2
  <1>8. CASE v = "ok" /\ in.error # "ok"
    <2>1. r = in
      BY <1>7, <1>8
    <2>2. in \in CallT /\ Ended(helper, in.h, "ProtocolViolation")
      <3> HIDE DEF in
      <3> QED
        BY <1>2, <1>8, Enveloped DEF in
    <2>3. "ProtocolViolation" \in OwnReasons
      BY DEF OwnReasons, Reasons
    <2> HIDE DEF r, in
    <2>4. r.h \in HelperT
      BY <2>1, <2>2 DEF CallT
    <2> QED
      BY <1>5, <2>1, <2>2, <2>3, <2>4 DEF r, in
  <1>9. CASE v = "ok" /\ in.error = "ok"
    <2>1. in \in CallT /\ Advanced(helper, in.h, f.rec.seq) /\ f.rec.sender = "core" /\ f.rec.session = "launch"
      <3> HIDE DEF in
      <3> QED
        BY <1>2, <1>9, Enveloped DEF in
    <2>2. Passed(f)
      BY <1>9, <2>1 DEF Passed
    <2>3. in.h \in HelperT /\ in.h.phase = helper.phase /\ in.h.revocation = "none" /\ in.h.drawn = helper.drawn
      BY <2>1 DEF Advanced, CallT
    <2>4. f.rec.kind = "Publish" => f.rec.version \in Nat /\ f.rec.bytes \in Bytes
      BY <2>2 DEF PublishTyped, f
    <2> HIDE DEF in
    <2>5. CASE helper.phase = "AwaitingEstablish"
      <3>1. r = Establish(in, f.rec, env)
        BY <1>9, <2>3, <2>5
      <3> HIDE DEF r
      <3>2. /\ r \in CallT
            /\ \/ /\ f.rec.kind = "Establish" /\ EchoMatches(f.rec) /\ r.h.lifetime # {}
                  /\ r.h.phase = "Ready" /\ r.h.revocation = in.h.revocation /\ r.h.drawn = in.h.drawn + 1
               \/ /\ f.rec.kind = "Establish" /\ EchoMatches(f.rec)
                  /\ \E h \in HelperT : h.drawn = in.h.drawn + 1 /\ CutOff(h, r.h)
               \/ \E reason \in OwnReasons : Ended(in.h, r.h, reason)
        BY <1>9, <2>1, <3>1, EstablishHandled
      <3>3. r.h \in HelperT
        BY <3>2 DEF CallT
      <3>4. CASE /\ f.rec.kind = "Establish" /\ EchoMatches(f.rec) /\ r.h.lifetime # {}
                 /\ r.h.phase = "Ready" /\ r.h.revocation = in.h.revocation /\ r.h.drawn = in.h.drawn + 1
        <4>1. ~Withdrawing(f.rec)
          BY <3>4 DEF Withdrawing
        <4> QED
          BY <1>3, <2>2, <2>3, <2>5, <3>2, <3>4, <4>1 DEF Grown, r
      <3>5. CASE /\ f.rec.kind = "Establish" /\ EchoMatches(f.rec)
                 /\ \E h \in HelperT : h.drawn = in.h.drawn + 1 /\ CutOff(h, r.h)
        <4>1. PICK h \in HelperT : h.drawn = in.h.drawn + 1 /\ CutOff(h, r.h)
          BY <3>5
        <4>2. r.h.phase = "Revoked" /\ r.h.lifetime = {} /\ r.h.drawn = helper.drawn + 1
          BY <2>3, <4>1 DEF CutOff, Ended
        <4> QED
          BY <1>3, <2>2, <2>5, <3>2, <3>5, <4>2 DEF Grown, r
      <3>6. CASE \E reason \in OwnReasons : Ended(in.h, r.h, reason)
        <4>1. PICK reason \in OwnReasons : Ended(in.h, r.h, reason)
          BY <3>6
        <4>2. Ended(helper, r.h, reason)
          BY <2>3, <4>1 DEF Ended
        <4> QED
          BY <1>5, <2>5, <3>2, <3>3, <4>1, <4>2 DEF r
      <3> QED
        BY <3>2, <3>4, <3>5, <3>6
    <2>6. CASE helper.phase # "AwaitingEstablish"
      <3>1. r = Handle(in, f.rec, env)
        BY <1>9, <2>3, <2>6
      <3>2. in.h.phase \in {"Ready", "AwaitingBind"} /\ in.h.lifetime # {}
        BY <2>1, <2>3, <2>6 DEF HelperT, Active, Advanced
      <3> HIDE DEF r
      <3>3. /\ r \in CallT /\ Grown(in.h, r.h)
            /\ r.h.revocation \in PeerReasons => Withdrawing(f.rec)
            /\ Withdrawing(f.rec) => r.h.phase = "Revoked"
        BY <1>9, <2>1, <2>3, <2>4, <3>1, <3>2, StepHandled
      <3>4. Grown(helper, r.h)
        BY <2>3, <3>3 DEF Grown
      <3> QED
        BY <2>2, <2>6, <3>3, <3>4 DEF r
    <2> QED
      BY <2>5, <2>6
  <1> QED
    BY <1>6, <1>8, <1>9

\* A call that has failed goes no further.
LEMMA Goes ==
    ASSUME NEW c \in CallT, c.error # "ok", NEW checks, NEW rev, NEW bytes
    PROVE  Rotate(c, checks, rev, bytes) = c
  BY DEF Rotate, Continue

\* Checks whose faults are the helper's own.
OwnChecks(checks) ==
    /\ DOMAIN checks \subseteq Nat
    /\ \A i \in DOMAIN checks : IsFault(checks[i][2]) /\ checks[i][2].reason \in OwnReasons

\* A protocol violation among them.
Violated(checks) ==
    \E i \in DOMAIN checks : checks[i][1] /\ checks[i][2].reason = "ProtocolViolation"

LEMMA InvalidateSaid ==
    ASSUME NEW l \in Life, NEW reason \in {"RegistryMutation", "Reset"}
    PROVE  InvalidateRec(l, reason) \in SaidT
  <1>1. l.id \in Nat /\ l.rev \in Nat
    BY DEF Life
  <1>2. InvalidateRec(l, reason)
          \in [kind : {"Invalidate"}, seq : Nat, id : Nat, rev : Nat, reason : {"RegistryMutation", "Reset"}]
    BY <1>1 DEF InvalidateRec
  <1> QED
    BY <1>2 DEF SaidT

(* registry_mutated and reset: the lifetime is invalidated on the wire, then the
   next one announced; a check that fails, or a stream that gives out, on either
   side of the invalidation ends control. *)
LEMMA Replaced ==
    ASSUME helper \in HelperT, NEW l \in Life, NEW reason \in {"RegistryMutation", "Reset"}, NEW dead \in Int,
           NEW before, OwnChecks(before), NEW after, OwnChecks(after), NEW rev \in Nat, NEW bytes \in Bytes
    PROVE  LET said == Continue(Call(helper, dead), before, DropProof(helper), <<InvalidateRec(l, reason)>>)
               r == Rotate(said, after, rev, bytes)
               next == [id |-> helper.drawn + 1, rev |-> rev]
           IN  /\ said \in CallT /\ r \in CallT
               /\ r.error = "ok" => said.error = "ok"
               /\ \/ /\ r.error = "ok" /\ Failing(before) = {} /\ Failing(after) = {}
                     /\ r.h.phase = "Ready" /\ r.h.lifetime = {next} /\ r.h.predecessor = helper.lifetime
                     /\ r.h.pending = {} /\ r.h.receipt = {} /\ r.h.version = helper.version
                     /\ r.h.in = helper.in /\ r.h.revocation = helper.revocation /\ r.h.drawn = helper.drawn + 1
                     /\ \E o : /\ Spoken(<<>>, <<InvalidateRec(l, reason)>>, o)
                               /\ Spoken(o, <<LifetimeRec("Lifetime", next), ProjectionRec(next, bytes)>>, r.out)
                  \/ /\ r.error # "ok"
                     /\ \E why \in OwnReasons, h \in HelperT :
                          /\ Ended(h, r.h, why) /\ h.drawn \in {helper.drawn, helper.drawn + 1}
                          /\ why = "ProtocolViolation" => Violated(before) \/ Violated(after)
  <1> DEFINE c == Call(helper, dead)
             body == InvalidateRec(l, reason)
             next == DropProof(helper)
             bodies == <<body>>
             said == Continue(c, before, next, bodies)
             r == Rotate(said, after, rev, bytes)
             new == [id |-> helper.drawn + 1, rev |-> rev]
  <1>1. c \in CallT /\ c.error = "ok" /\ c.out = <<>> /\ c.h = helper
    BY DEF Call, CallT
  <1>2. body \in SaidT
    BY InvalidateSaid
  <1>3. /\ next \in HelperT /\ next.pending = {} /\ next.receipt = {} /\ next.in = helper.in
        /\ next.lifetime = helper.lifetime /\ next.version = helper.version
        /\ next.revocation = helper.revocation /\ next.drawn = helper.drawn
    BY ProofDropped
  <1>4. helper.drawn \in Nat
    BY DEF HelperT
  <1>5. "VersionExhausted" \in OwnReasons /\ "ControlTransport" \in OwnReasons
    BY DEF OwnReasons, Reasons
  <1> HIDE DEF c, body, next
  <1>6. bodies \in Seq(SaidT) /\ Len(bodies) <= 2
    BY <1>2
  <1> HIDE DEF bodies
  <1>7. said \in CallT
    <2>1. CASE Failing(before) = {}
      BY <1>1, <1>3, <1>6, <2>1, Speaks
    <2>2. CASE Failing(before) # {}
      BY <1>1, <2>2, Stops DEF OwnChecks
    <2> QED
      BY <2>1, <2>2
  <1>8. CASE said.error # "ok"
    <2>1. r = said
      <3> HIDE DEF said
      <3> QED
        BY <1>7, <1>8, Goes
    <2>2. \E why \in OwnReasons, h \in HelperT :
            /\ Ended(h, said.h, why) /\ h.drawn = helper.drawn
            /\ why = "ProtocolViolation" => Violated(before)
      <3>1. CASE Failing(before) = {}
        <4>1. CutOff(next, said.h)
          <5> HIDE DEF said
          <5> QED
            BY <1>1, <1>3, <1>6, <1>8, <3>1, Speaks DEF said
        <4> HIDE DEF said
        <4> QED
          BY <1>3, <1>5, <4>1 DEF CutOff
      <3>2. CASE Failing(before) # {}
        <4>1. \E i \in DOMAIN before : before[i][1] /\ Ended(c.h, said.h, before[i][2].reason)
          <5> HIDE DEF said
          <5> QED
            BY <1>1, <3>2, Stops DEF OwnChecks, said
        <4>2. PICK i \in DOMAIN before : before[i][1] /\ Ended(c.h, said.h, before[i][2].reason)
          BY <4>1
        <4> HIDE DEF said
        <4> QED
          BY <1>1, <4>2 DEF OwnChecks, Violated
      <3> QED
        BY <3>1, <3>2
    <2> HIDE DEF said, r
    <2> QED
      BY <1>7, <1>8, <2>1, <2>2 DEF said, r, c, body, bodies, next
  <1>9. CASE said.error = "ok"
    <2>1. Failing(before) = {} /\ SameBut(next, said.h) /\ Spoken(<<>>, bodies, said.out)
      <3>1. Failing(before) = {}
        <4> HIDE DEF said
        <4> QED
          BY <1>1, <1>9, Stops DEF OwnChecks, said
      <3> HIDE DEF said
      <3> QED
        BY <1>1, <1>3, <1>6, <1>9, <3>1, Speaks DEF said
    <2> HIDE DEF said
    <2>2. /\ said.h \in HelperT /\ said.h.pending = {} /\ said.h.receipt = {} /\ said.h.in = helper.in
          /\ said.h.lifetime = helper.lifetime /\ said.h.version = helper.version
          /\ said.h.revocation = helper.revocation /\ said.h.drawn = helper.drawn
      BY <1>3, <1>7, <2>1 DEF SameBut, CallT
    <2>3. CASE Failing(after) = {}
      <3>1. LET k == [id |-> said.h.drawn + 1, rev |-> rev] IN
               /\ r \in CallT /\ r.h.drawn = said.h.drawn + 1
               /\ \/ /\ r.error = "ok"
                     /\ r.h.phase = "Ready" /\ r.h.lifetime = {k} /\ r.h.predecessor = said.h.lifetime
                     /\ r.h.pending = said.h.pending /\ r.h.receipt = said.h.receipt /\ r.h.version = said.h.version
                     /\ r.h.in = said.h.in /\ r.h.revocation = said.h.revocation
                     /\ Spoken(said.out, <<LifetimeRec("Lifetime", k), ProjectionRec(k, bytes)>>, r.out)
                  \/ /\ r.error # "ok"
                     /\ \E h \in HelperT : h.drawn = said.h.drawn + 1 /\ CutOff(h, r.h)
        BY <1>7, <1>9, <2>3, Rotated
      <3> HIDE DEF r, new
      <3>2. [id |-> said.h.drawn + 1, rev |-> rev] = new
        BY <2>2 DEF new
      <3>3. CASE r.error = "ok"
        <4>1. /\ r \in CallT
              /\ r.h.phase = "Ready" /\ r.h.lifetime = {new} /\ r.h.predecessor = helper.lifetime
              /\ r.h.pending = {} /\ r.h.receipt = {} /\ r.h.version = helper.version
              /\ r.h.in = helper.in /\ r.h.revocation = helper.revocation /\ r.h.drawn = helper.drawn + 1
              /\ Spoken(said.out, <<LifetimeRec("Lifetime", new), ProjectionRec(new, bytes)>>, r.out)
          BY <2>2, <3>1, <3>2, <3>3
        <4> QED
          BY <1>7, <1>9, <2>1, <2>3, <3>3, <4>1 DEF r, new, said, c, body, bodies, next
      <3>4. CASE r.error # "ok"
        <4>1. r \in CallT /\ \E h \in HelperT : h.drawn = said.h.drawn + 1 /\ CutOff(h, r.h)
          BY <3>1, <3>4
        <4>2. PICK h \in HelperT : h.drawn = helper.drawn + 1 /\ CutOff(h, r.h)
          BY <2>2, <4>1
        <4>3. \E why \in OwnReasons : Ended(h, r.h, why) /\ why # "ProtocolViolation"
          BY <1>5, <4>2 DEF CutOff
        <4> QED
          BY <1>7, <1>9, <3>4, <4>1, <4>2, <4>3 DEF r, said, c, body, bodies, next
      <3> QED
        BY <3>3, <3>4
    <2>4. CASE Failing(after) # {}
      <3>1. r = Continue(said, after,
                  [said.h EXCEPT !.predecessor = said.h.lifetime, !.lifetime = {FreshLifetime(said.h, rev)},
                                 !.drawn = FreshLifetime(said.h, rev).id, !.phase = "Ready"],
                  <<LifetimeRec("Lifetime", FreshLifetime(said.h, rev)),
                    ProjectionRec(FreshLifetime(said.h, rev), bytes)>>)
        BY DEF Rotate
      <3> HIDE DEF r
      <3>2. /\ r \in CallT /\ r.error # "ok"
            /\ \E i \in DOMAIN after : after[i][1] /\ Ended(said.h, r.h, after[i][2].reason)
        BY <1>7, <1>9, <2>4, <3>1, Stops DEF OwnChecks
      <3>3. PICK i \in DOMAIN after : after[i][1] /\ Ended(said.h, r.h, after[i][2].reason)
        BY <3>2
      <3>4. after[i][2].reason \in OwnReasons
            /\ (after[i][2].reason = "ProtocolViolation" => Violated(after))
        BY <3>3 DEF OwnChecks, Violated
      <3> QED
        BY <1>7, <1>9, <2>2, <3>2, <3>3, <3>4 DEF r, said, c, body, bodies, next
    <2> QED
      BY <2>3, <2>4
  <1> QED
    BY <1>8, <1>9

\* g is h under its next lifetime, with nothing pending and nothing bound.
Renewed(h, g, rev) ==
    /\ g.phase = "Ready" /\ g.lifetime = {[id |-> h.drawn + 1, rev |-> rev]} /\ g.predecessor = h.lifetime
    /\ g.pending = {} /\ g.receipt = {} /\ g.version = h.version
    /\ g.in = h.in /\ g.revocation = h.revocation /\ g.drawn = h.drawn + 1

\* The records of a rotation of the helper's own, written to the end.
Announced(l, reason, rev, bytes) ==
    LET next == [id |-> helper.drawn + 1, rev |-> rev] IN
    \E o, said : /\ Spoken(<<>>, <<InvalidateRec(l, reason)>>, o)
                 /\ Spoken(o, <<LifetimeRec("Lifetime", next), ProjectionRec(next, bytes)>>, said)
                 /\ toCore' = toCore \o said

\* Control ends for a reason of the helper's own.
EndsOwn(why) ==
    \E h \in HelperT : Ended(h, helper', why) /\ h.drawn \in {helper.drawn, helper.drawn + 1}

(* registry_mutated: a new lifetime one revision on, or the end of control, which
   is a protocol violation only when the registry moved on its own. *)
LEMMA RegistryMutatedHandled ==
    ASSUME helper \in HelperT, helper.lifetime # {}, toCore \in Seq(SaidT), view \in [rev : Nat, bytes : Bytes],
           NEW bytes \in Payloads, NEW step \in Nat, NEW env, NEW dead \in Int, RegistryMutated(bytes, step, env, dead)
    PROVE  LET l == IdOf(helper) IN
             /\ helper' \in HelperT /\ toCore' \in Seq(SaidT) /\ view' \in [rev : Nat, bytes : Bytes]
             /\ \/ /\ Renewed(helper, helper', l.rev + 1) /\ Announced(l, "RegistryMutation", l.rev + 1, bytes)
                   /\ view.rev = l.rev /\ view' = [rev |-> view.rev + 1, bytes |-> bytes]
                \/ \E why \in OwnReasons :
                     EndsOwn(why) /\ (why = "ProtocolViolation" => view.rev # l.rev)
  <1> DEFINE l == IdOf(helper)
             before == << <<l.rev = MaxFeed, VersionFault>>, <<~env.available, RegistryFault>>,
                          <<view.rev # l.rev, ProtocolFault("StaleAuthority")>> >>
             after == << <<step # 1, RegistryFault>>, <<~env.random, RandomFault>> >>
             said == Continue(Call(helper, dead), before, DropProof(helper), <<InvalidateRec(l, "RegistryMutation")>>)
             r == Rotate(said, after, l.rev + 1, bytes)
             next == [id |-> helper.drawn + 1, rev |-> l.rev + 1]
  <1>1. /\ helper' = r.h /\ toCore' = toCore \o r.out
        /\ view' = IF said.error = "ok" THEN [rev |-> view.rev + step, bytes |-> bytes] ELSE view
    BY DEF RegistryMutated, Done
  <1>2. l \in Life /\ l.rev \in Nat /\ l.rev + 1 \in Nat
    <2>1. l \in helper.lifetime /\ helper.lifetime \subseteq Life
      BY DEF IdOf, HelperT
    <2> HIDE DEF l
    <2> QED
      BY <2>1 DEF Life
  <1> HIDE DEF l
  <1>3. DOMAIN before = 1..3 /\ DOMAIN after = 1..2
    OBVIOUS
  <1>4. /\ before[3][1] <=> view.rev # l.rev
        /\ after[1][1] <=> step # 1
    OBVIOUS
  <1>5. "StaleAuthority" \in Errors
    BY DEF Errors
  <1>6. /\ \A i \in 1..3 : IsFault(before[i][2])
        /\ \A i \in 1..2 : IsFault(after[i][2])
        /\ before[1][2].reason = "VersionExhausted" /\ before[2][2].reason = "RegistryUnavailable"
        /\ before[3][2].reason = "ProtocolViolation"
        /\ after[1][2].reason = "RegistryUnavailable" /\ after[2][2].reason = "RandomUnavailable"
    BY <1>5, FaultsKnown
  <1> HIDE DEF before, after
  <1>7. \A i \in DOMAIN before : IsFault(before[i][2]) /\ before[i][2].reason \in OwnReasons
    <2>1. \A i \in 1..3 : i = 1 \/ i = 2 \/ i = 3
      OBVIOUS
    <2> QED
      BY <1>3, <1>6, <2>1 DEF OwnReasons, Reasons
  <1>8. \A i \in DOMAIN after : IsFault(after[i][2]) /\ after[i][2].reason \in OwnReasons
    <2>1. \A i \in 1..2 : i = 1 \/ i = 2
      OBVIOUS
    <2> QED
      BY <1>3, <1>6, <2>1 DEF OwnReasons, Reasons
  <1>9. OwnChecks(before) /\ OwnChecks(after)
    BY <1>3, <1>7, <1>8 DEF OwnChecks
  <1>10. Violated(before) => view.rev # l.rev
    <2>1. \A i \in 1..3 : i = 1 \/ i = 2 \/ i = 3
      OBVIOUS
    <2> QED
      BY <1>3, <1>4, <1>6, <2>1 DEF Violated
  <1>11. ~Violated(after)
    <2>1. \A i \in 1..2 : i = 1 \/ i = 2
      OBVIOUS
    <2> QED
      BY <1>3, <1>6, <2>1 DEF Violated
  <1>12. bytes \in Bytes /\ view.rev \in Nat
    BY DEF Bytes
  <1>a. /\ said \in CallT /\ r \in CallT
        /\ r.error = "ok" => said.error = "ok"
        /\ \/ /\ r.error = "ok" /\ Failing(before) = {} /\ Failing(after) = {}
              /\ r.h.phase = "Ready" /\ r.h.lifetime = {next} /\ r.h.predecessor = helper.lifetime
              /\ r.h.pending = {} /\ r.h.receipt = {} /\ r.h.version = helper.version
              /\ r.h.in = helper.in /\ r.h.revocation = helper.revocation /\ r.h.drawn = helper.drawn + 1
              /\ \E o : /\ Spoken(<<>>, <<InvalidateRec(l, "RegistryMutation")>>, o)
                        /\ Spoken(o, <<LifetimeRec("Lifetime", next), ProjectionRec(next, bytes)>>, r.out)
           \/ /\ r.error # "ok"
              /\ \E why \in OwnReasons, h \in HelperT :
                   /\ Ended(h, r.h, why) /\ h.drawn \in {helper.drawn, helper.drawn + 1}
                   /\ why = "ProtocolViolation" => Violated(before) \/ Violated(after)
    BY <1>2, <1>9, <1>12, Replaced
  <1> HIDE DEF said, r
  <1>13. /\ said \in CallT /\ r \in CallT
         /\ r.error = "ok" => said.error = "ok"
         /\ \/ /\ r.error = "ok" /\ Failing(before) = {} /\ Failing(after) = {}
               /\ Renewed(helper, r.h, l.rev + 1)
               /\ \E o : /\ Spoken(<<>>, <<InvalidateRec(l, "RegistryMutation")>>, o)
                         /\ Spoken(o, <<LifetimeRec("Lifetime", next), ProjectionRec(next, bytes)>>, r.out)
            \/ /\ r.error # "ok"
               /\ \E why \in OwnReasons, h \in HelperT :
                    /\ Ended(h, r.h, why) /\ h.drawn \in {helper.drawn, helper.drawn + 1}
                    /\ why = "ProtocolViolation" => Violated(before) \/ Violated(after)
    BY <1>a DEF Renewed
  <1> HIDE DEF next
  <1>14. r.h \in HelperT /\ r.out \in Seq(SaidT)
    BY <1>13 DEF CallT
  <1>15. helper' \in HelperT /\ toCore' \in Seq(SaidT)
    BY <1>1, <1>14
  <1>16. view' \in [rev : Nat, bytes : Bytes]
    BY <1>1, <1>12
  <1>17. CASE r.error = "ok"
    <2>1. /\ Failing(before) = {} /\ Failing(after) = {} /\ Renewed(helper, helper', l.rev + 1)
          /\ said.error = "ok"
      BY <1>1, <1>13, <1>17
    <2>2. Announced(l, "RegistryMutation", l.rev + 1, bytes)
      BY <1>1, <1>13, <1>17 DEF Announced, next
    <2>3. view.rev = l.rev /\ step = 1
      BY <1>3, <1>4, <2>1, Passes
    <2>4. view' = [rev |-> view.rev + 1, bytes |-> bytes]
      BY <1>1, <2>1, <2>3
    <2> QED
      BY <1>15, <1>16, <2>1, <2>2, <2>3, <2>4 DEF l
  <1>18. CASE r.error # "ok"
    <2>1. \E why \in OwnReasons, h \in HelperT :
             /\ Ended(h, helper', why) /\ h.drawn \in {helper.drawn, helper.drawn + 1}
             /\ why = "ProtocolViolation" => view.rev # l.rev
      BY <1>1, <1>10, <1>11, <1>13, <1>18
    <2> QED
      BY <1>15, <1>16, <2>1 DEF EndsOwn, l
  <1> QED
    BY <1>17, <1>18

(* reset: a new lifetime at the same revision, or the end of control. *)
LEMMA ResetHandled ==
    ASSUME helper \in HelperT, helper.lifetime # {}, toCore \in Seq(SaidT), view \in [rev : Nat, bytes : Bytes],
           NEW env, NEW dead \in Int, HelperReset(env, dead)
    PROVE  LET l == IdOf(helper) IN
             /\ helper' \in HelperT /\ toCore' \in Seq(SaidT)
             /\ \/ /\ Renewed(helper, helper', l.rev) /\ Announced(l, "Reset", l.rev, view.bytes)
                   /\ view.rev = l.rev
                \/ \E why \in OwnReasons :
                     EndsOwn(why) /\ (why = "ProtocolViolation" => view.rev # l.rev)
  <1> DEFINE l == IdOf(helper)
             before == <<>>
             after == << <<~env.available, RegistryFault>>, <<view.rev # l.rev, ProtocolFault("StaleAuthority")>>,
                         <<~env.random, RandomFault>> >>
             said == Continue(Call(helper, dead), before, DropProof(helper), <<InvalidateRec(l, "Reset")>>)
             r == Rotate(said, after, l.rev, view.bytes)
             next == [id |-> helper.drawn + 1, rev |-> l.rev]
  <1>1. helper' = r.h /\ toCore' = toCore \o r.out
    BY DEF HelperReset, Done
  <1>2. l \in Life /\ l.rev \in Nat
    <2>1. l \in helper.lifetime /\ helper.lifetime \subseteq Life
      BY DEF IdOf, HelperT
    <2> HIDE DEF l
    <2> QED
      BY <2>1 DEF Life
  <1> HIDE DEF l
  <1>3. DOMAIN before = {} /\ DOMAIN after = 1..3
    OBVIOUS
  <1>4. after[2][1] <=> view.rev # l.rev
    OBVIOUS
  <1>5. "StaleAuthority" \in Errors
    BY DEF Errors
  <1>6. /\ \A i \in 1..3 : IsFault(after[i][2])
        /\ after[1][2].reason = "RegistryUnavailable" /\ after[2][2].reason = "ProtocolViolation"
        /\ after[3][2].reason = "RandomUnavailable"
    BY <1>5, FaultsKnown
  <1> HIDE DEF before, after
  <1>7. \A i \in 1..3 : i = 1 \/ i = 2 \/ i = 3
    OBVIOUS
  <1>8. \A i \in DOMAIN after : IsFault(after[i][2]) /\ after[i][2].reason \in OwnReasons
    BY <1>3, <1>6, <1>7 DEF OwnReasons, Reasons
  <1>9. OwnChecks(before) /\ OwnChecks(after)
    BY <1>3, <1>8 DEF OwnChecks
  <1>10. Violated(after) => view.rev # l.rev
    BY <1>3, <1>4, <1>6, <1>7 DEF Violated
  <1>11. ~Violated(before)
    BY <1>3 DEF Violated
  <1>12. view.rev \in Nat /\ view.bytes \in Bytes
    OBVIOUS
  <1>a. /\ said \in CallT /\ r \in CallT
        /\ r.error = "ok" => said.error = "ok"
        /\ \/ /\ r.error = "ok" /\ Failing(before) = {} /\ Failing(after) = {}
              /\ r.h.phase = "Ready" /\ r.h.lifetime = {next} /\ r.h.predecessor = helper.lifetime
              /\ r.h.pending = {} /\ r.h.receipt = {} /\ r.h.version = helper.version
              /\ r.h.in = helper.in /\ r.h.revocation = helper.revocation /\ r.h.drawn = helper.drawn + 1
              /\ \E o : /\ Spoken(<<>>, <<InvalidateRec(l, "Reset")>>, o)
                        /\ Spoken(o, <<LifetimeRec("Lifetime", next), ProjectionRec(next, view.bytes)>>, r.out)
           \/ /\ r.error # "ok"
              /\ \E why \in OwnReasons, h \in HelperT :
                   /\ Ended(h, r.h, why) /\ h.drawn \in {helper.drawn, helper.drawn + 1}
                   /\ why = "ProtocolViolation" => Violated(before) \/ Violated(after)
    BY <1>2, <1>9, <1>12, Replaced
  <1> HIDE DEF said, r
  <1>13. /\ r \in CallT
         /\ \/ /\ r.error = "ok" /\ Failing(after) = {}
               /\ Renewed(helper, r.h, l.rev)
               /\ \E o : /\ Spoken(<<>>, <<InvalidateRec(l, "Reset")>>, o)
                         /\ Spoken(o, <<LifetimeRec("Lifetime", next), ProjectionRec(next, view.bytes)>>, r.out)
            \/ /\ r.error # "ok"
               /\ \E why \in OwnReasons, h \in HelperT :
                    /\ Ended(h, r.h, why) /\ h.drawn \in {helper.drawn, helper.drawn + 1}
                    /\ why = "ProtocolViolation" => Violated(before) \/ Violated(after)
    BY <1>a DEF Renewed
  <1> HIDE DEF next
  <1>14. r.h \in HelperT /\ r.out \in Seq(SaidT)
    BY <1>13 DEF CallT
  <1>15. helper' \in HelperT /\ toCore' \in Seq(SaidT)
    BY <1>1, <1>14
  <1>17. CASE r.error = "ok"
    <2>1. Failing(after) = {} /\ Renewed(helper, helper', l.rev)
      BY <1>1, <1>13, <1>17
    <2>2. Announced(l, "Reset", l.rev, view.bytes)
      BY <1>1, <1>13, <1>17 DEF Announced, next
    <2>3. view.rev = l.rev
      BY <1>3, <1>4, <2>1, Passes
    <2> QED
      BY <1>15, <2>1, <2>2, <2>3 DEF l
  <1>18. CASE r.error # "ok"
    <2>1. \E why \in OwnReasons, h \in HelperT :
             /\ Ended(h, helper', why) /\ h.drawn \in {helper.drawn, helper.drawn + 1}
             /\ why = "ProtocolViolation" => view.rev # l.rev
      BY <1>1, <1>10, <1>11, <1>13, <1>18
    <2> QED
      BY <1>15, <2>1 DEF EndsOwn, l
  <1> QED
    BY <1>17, <1>18

-----------------------------------------------------------------------------
(* Core and the frames it writes. *)
CoreT ==
    [seq : Nat, lifetime : SUBSET Life, bytes : SUBSET Bytes, version : Nat, sent : SUBSET AckT,
     acked : SUBSET AckT, receipt : SUBSET AckT, echoed : BOOLEAN, withdrawn : BOOLEAN, rogue : BOOLEAN,
     drifted : BOOLEAN]

CoreSays ==
    UNION {[kind : {"Establish"}, seq : Nat, sender : {"core"}, session : {"launch"}, echo : BOOLEAN],
           [kind : {"Publish"}, seq : Nat, sender : {"core"}, session : {"launch"}, id : Nat, rev : Nat,
            version : Nat, ours : {TRUE}, bytes : Bytes],
           [kind : {"Bind"}, seq : Nat, sender : {"core"}, session : {"launch"}, ack : AckT],
           [kind : {"Invalidate"}, seq : Nat, sender : {"core"}, session : {"launch"}, id : Nat, rev : Nat,
            reason : {"SourceMutation", "GrantLoss"}],
           [kind : {"Error"}, seq : Nat, sender : {"core"}, session : {"launch"}]}

FrameT == BadFrames \cup {FrameOf(rec) : rec \in CoreSays}

\* What a frame on its way claims of Core is so.
FrameTrue(f) ==
    /\ PublishTyped(f)
    /\ Passed(f) => /\ (f.rec.kind = "Establish" /\ EchoMatches(f.rec)) => core.echoed
                    /\ Withdrawing(f.rec) => core.withdrawn

FramesTrue == toHelper \in Seq(FrameT) /\ \A i \in DOMAIN toHelper : FrameTrue(toHelper[i])

\* What Core has said of the launch and of its grant it does not unsay.
Said == (core.echoed => core'.echoed) /\ (core.withdrawn => core'.withdrawn)

LEMMA FramesKept ==
    ASSUME FramesTrue, Said, toHelper' = toHelper \/ (toHelper # <<>> /\ toHelper' = Tail(toHelper))
    PROVE  FramesTrue'
  <1>1. toHelper' \in Seq(FrameT)
    BY DEF FramesTrue
  <1>3. ASSUME NEW f, FrameTrue(f)
        PROVE  /\ PublishTyped(f)
               /\ Passed(f) => /\ (f.rec.kind = "Establish" /\ EchoMatches(f.rec)) => core'.echoed
                               /\ Withdrawing(f.rec) => core'.withdrawn
    BY <1>3 DEF FrameTrue, Said
  <1>4. ASSUME NEW i \in DOMAIN toHelper'
        PROVE  \E j \in DOMAIN toHelper : toHelper'[i] = toHelper[j]
    BY <1>4 DEF FramesTrue
  <1>5. ASSUME NEW i \in DOMAIN toHelper'
        PROVE  FrameTrue(toHelper[i])'
    <2>1. PICK j \in DOMAIN toHelper : toHelper'[i] = toHelper[j]
      BY <1>4
    <2>2. FrameTrue(toHelper[j])
      BY DEF FramesTrue
    <2> DEFINE f == toHelper[j]
    <2>3. FrameTrue(f)
      BY <2>2
    <2>4. toHelper'[i] = f
      BY <2>1
    <2> HIDE DEF f
    <2>5. /\ PublishTyped(f)
          /\ Passed(f) => /\ (f.rec.kind = "Establish" /\ EchoMatches(f.rec)) => core'.echoed
                          /\ Withdrawing(f.rec) => core'.withdrawn
      BY <1>3, <2>3
    <2> QED
      BY <2>4, <2>5 DEF FrameTrue
  <1> QED
    BY <1>1, <1>5 DEF FramesTrue

LEMMA FrameSent ==
    ASSUME FramesTrue, Said, NEW f \in FrameT, toHelper' = Append(toHelper, f), PublishTyped(f),
           Passed(f) => /\ (f.rec.kind = "Establish" /\ EchoMatches(f.rec)) => core'.echoed
                        /\ Withdrawing(f.rec) => core'.withdrawn
    PROVE  FramesTrue'
  <1>1. toHelper' \in Seq(FrameT)
    BY DEF FramesTrue
  <1>2. ASSUME NEW i \in DOMAIN toHelper'
        PROVE  FrameTrue(toHelper[i])'
    <2>1. toHelper'[i] = f \/ \E j \in DOMAIN toHelper : toHelper'[i] = toHelper[j]
      BY <1>2 DEF FramesTrue
    <2>2. CASE toHelper'[i] = f
      BY <2>2 DEF FrameTrue
    <2>3. CASE \E j \in DOMAIN toHelper : toHelper'[i] = toHelper[j]
      <3>1. PICK j \in DOMAIN toHelper : toHelper'[i] = toHelper[j]
        BY <2>3
      <3> DEFINE g == toHelper[j]
      <3>2. FrameTrue(g) /\ toHelper'[i] = g
        BY <3>1 DEF FramesTrue
      <3> HIDE DEF g
      <3> QED
        BY <3>2 DEF FrameTrue, Said
    <2> QED
      BY <2>1, <2>2, <2>3
  <1> QED
    BY <1>1, <1>2 DEF FramesTrue

(* What Core makes of a record of the helper's. *)
LEMMA Learns ==
    ASSUME core \in CoreT, NEW rec \in SaidT
    PROVE  LET k == CoreLearn(rec) IN
             /\ k \in CoreT /\ k.seq = core.seq /\ k.version = core.version /\ k.echoed = core.echoed
             /\ k.rogue = core.rogue /\ k.drifted = core.drifted
             /\ core.withdrawn => k.withdrawn
  <1> DEFINE k == CoreLearn(rec)
  <1>1. CASE rec.kind \in {"Established", "Lifetime"}
    <2> DEFINE l == [id |-> rec.id, rev |-> rec.rev]
    <2>1. l \in Life
      BY <1>1 DEF SaidT, Life
    <2>2. k = [core EXCEPT !.lifetime = {l}, !.bytes = {}]
      BY <1>1 DEF CoreLearn
    <2> HIDE DEF k, l
    <2>3. /\ k \in CoreT /\ k.seq = core.seq /\ k.version = core.version /\ k.echoed = core.echoed
          /\ k.rogue = core.rogue /\ k.drifted = core.drifted
          /\ k.withdrawn = core.withdrawn
      BY <2>1, <2>2 DEF CoreT
    <2> QED
      BY <2>3 DEF k
  <1>2. CASE rec.kind = "Projection"
    <2>1. rec.bytes \in Bytes
      BY <1>2 DEF SaidT
    <2>2. k = [core EXCEPT !.bytes = {rec.bytes}]
      BY <1>2 DEF CoreLearn
    <2> HIDE DEF k
    <2> QED
      BY <2>1, <2>2 DEF CoreT, k
  <1>3. CASE rec.kind = "Ack"
    <2>1. rec.ack \in AckT
      BY <1>3 DEF SaidT
    <2>2. k = IF core.sent = {rec.ack} THEN [core EXCEPT !.acked = {rec.ack}] ELSE core
      BY <1>3 DEF CoreLearn
    <2> HIDE DEF k
    <2> QED
      BY <2>1, <2>2 DEF CoreT, k
  <1>4. CASE rec.kind = "Bound"
    <2>1. rec.ack \in AckT
      BY <1>4 DEF SaidT
    <2>2. k = IF core.sent = {rec.ack} THEN [core EXCEPT !.receipt = {rec.ack}, !.sent = {}] ELSE core
      BY <1>4 DEF CoreLearn
    <2> HIDE DEF k
    <2> QED
      BY <2>1, <2>2 DEF CoreT, k
  <1>5. CASE rec.kind = "Invalidate"
    <2>2. k = [core EXCEPT !.lifetime = {}, !.bytes = {}, !.sent = {}, !.acked = {}, !.receipt = {}]
      BY <1>5 DEF CoreLearn
    <2> HIDE DEF k
    <2> QED
      BY <2>2 DEF CoreT, k
  <1>6. CASE rec.kind = "Error"
    <2>2. k = [core EXCEPT !.lifetime = {}, !.bytes = {}, !.sent = {}, !.acked = {}, !.receipt = {},
                           !.withdrawn = TRUE]
      BY <1>6 DEF CoreLearn
    <2> HIDE DEF k
    <2> QED
      BY <2>2 DEF CoreT, k
  <1>7. rec.kind \in {"Established", "Lifetime", "Projection", "Ack", "Bound", "Invalidate", "Error"}
    BY DEF SaidT
  <1> QED
    BY <1>1, <1>2, <1>3, <1>4, <1>5, <1>6, <1>7

(* Core's moves: it grows more definite about the launch and its grant, and its
   frames say no more than it does. *)
LEMMA CoreMoved ==
    ASSUME core \in CoreT, core.seq = 0 => ~core.echoed, toCore \in Seq(SaidT), view \in [rev : Nat, bytes : Bytes],
           FramesTrue, CoreMoves
    PROVE  /\ core' \in CoreT /\ (core'.seq = 0 => ~core'.echoed) /\ toCore' \in Seq(SaidT)
           /\ view' \in [rev : Nat, bytes : Bytes] /\ helper' = helper
           /\ FramesTrue' /\ Said
  <1> DEFINE Goal == /\ core' \in CoreT /\ (core'.seq = 0 => ~core'.echoed) /\ toCore' \in Seq(SaidT)
                     /\ view' \in [rev : Nat, bytes : Bytes] /\ helper' = helper
                     /\ FramesTrue' /\ Said
  <1>1. core.seq \in Nat /\ core.version \in Nat
    BY DEF CoreT
  <1>2. ASSUME NEW rec \in CoreSays
        PROVE  FrameOf(rec) \in FrameT /\ FrameOf(rec).rec = rec
    BY DEF FrameT, FrameOf
  <1>3. ASSUME NEW rec \in CoreSays, NEW next \in CoreT, CoreSend(rec, next), core.echoed => next.echoed,
               core.withdrawn => next.withdrawn,
               rec.kind = "Publish" => rec.version \in Nat /\ rec.bytes \in Bytes,
               rec.kind = "Establish" /\ EchoMatches(rec) => next.echoed,
               Withdrawing(rec) => next.withdrawn
        PROVE  Goal
    <2> DEFINE f == FrameOf(rec)
               n == next.seq + 1
    <2>a. n \in Nat /\ n # 0
      BY DEF CoreT
    <2>1. core' = [next EXCEPT !.seq = n]
      BY <1>3 DEF CoreSend
    <2> HIDE DEF n
    <2>2. core' \in CoreT /\ core'.seq = n /\ core'.echoed = next.echoed /\ core'.withdrawn = next.withdrawn
      BY <2>1, <2>a DEF CoreT
    <2>3. UNCHANGED <<helper, view, toCore>> /\ toHelper' = Append(toHelper, f)
      BY <1>3 DEF CoreSend
    <2>4. f \in FrameT /\ f.rec = rec
      BY <1>2
    <2>5. core'.seq # 0
      BY <2>2, <2>a
    <2> HIDE DEF f
    <2>6. Said /\ PublishTyped(f)
      BY <1>3, <2>2, <2>4 DEF Said, PublishTyped
    <2>7. Passed(f) => /\ (f.rec.kind = "Establish" /\ EchoMatches(f.rec)) => core'.echoed
                       /\ Withdrawing(f.rec) => core'.withdrawn
      BY <1>3, <2>2, <2>4
    <2>8. FramesTrue'
      BY <2>3, <2>4, <2>6, <2>7, FrameSent
    <2> QED
      BY <2>2, <2>3, <2>5, <2>6, <2>8
  <1>4. ASSUME NEW echo \in BOOLEAN, CoreEstablish(echo)
        PROVE  Goal
    <2> DEFINE rec == [kind |-> "Establish", seq |-> 1, sender |-> "core", session |-> "launch", echo |-> echo]
               next == [core EXCEPT !.echoed = echo, !.rogue = @ \/ ~echo]
    <2>1. rec \in CoreSays /\ rec.kind = "Establish" /\ (EchoMatches(rec) <=> echo)
      BY DEF CoreSays, EchoMatches
    <2>2. next \in CoreT /\ next.echoed = echo /\ next.withdrawn = core.withdrawn
      BY <1>4 DEF CoreT
    <2>3. CoreSend(rec, next) /\ ~core.echoed
      BY <1>4 DEF CoreEstablish
    <2>4. ~Withdrawing(rec)
      BY <2>1 DEF Withdrawing
    <2> HIDE DEF rec, next
    <2> QED
      BY <1>3, <2>1, <2>2, <2>3, <2>4
  <1>5. ASSUME NEW bytes \in Payloads, CorePublish(bytes)
        PROVE  Goal
    <2>1. PICK l \in core.lifetime :
            CoreSend([kind |-> "Publish", seq |-> core.seq + 1, sender |-> "core", session |-> "launch",
                      id |-> l.id, rev |-> l.rev, version |-> core.version + 1, ours |-> TRUE, bytes |-> bytes],
                     [core EXCEPT !.version = @ + 1, !.receipt = {},
                                  !.sent = {[id |-> l.id, rev |-> l.rev, version |-> core.version + 1]},
                                  !.rogue = @ \/ {bytes} # core.bytes])
      BY <1>5 DEF CorePublish
    <2> DEFINE rec == [kind |-> "Publish", seq |-> core.seq + 1, sender |-> "core", session |-> "launch",
                       id |-> l.id, rev |-> l.rev, version |-> core.version + 1, ours |-> TRUE, bytes |-> bytes]
               next == [core EXCEPT !.version = @ + 1, !.receipt = {},
                                    !.sent = {[id |-> l.id, rev |-> l.rev, version |-> core.version + 1]},
                                    !.rogue = @ \/ {bytes} # core.bytes]
    <2>2. l.id \in Nat /\ l.rev \in Nat
      BY DEF CoreT, Life
    <2>3. bytes \in Bytes
      BY DEF Bytes
    <2>4. rec \in CoreSays
      BY <1>1, <2>2, <2>3 DEF CoreSays
    <2>5. [id |-> l.id, rev |-> l.rev, version |-> core.version + 1] \in AckT
      BY <1>1, <2>2 DEF AckT
    <2>6. next \in CoreT /\ next.echoed = core.echoed /\ next.withdrawn = core.withdrawn
      <3> DEFINE ack == [id |-> l.id, rev |-> l.rev, version |-> core.version + 1]
                 n == core.version + 1
                 b == core.rogue \/ {bytes} # core.bytes
      <3>1. ack \in AckT /\ n \in Nat /\ b \in BOOLEAN
        BY <1>1, <2>5
      <3>2. next = [core EXCEPT !.version = n, !.receipt = {}, !.sent = {ack}, !.rogue = b]
        OBVIOUS
      <3> HIDE DEF ack, n, b, next
      <3> QED
        BY <3>1, <3>2 DEF CoreT
    <2>7. rec.kind = "Publish" /\ rec.version \in Nat /\ rec.bytes \in Bytes /\ ~Withdrawing(rec)
      BY <1>1, <2>3 DEF Withdrawing
    <2>8. CoreSend(rec, next)
      BY <2>1
    <2> HIDE DEF rec, next
    <2> QED
      BY <1>3, <2>4, <2>6, <2>7, <2>8
  <1>6. CASE CoreBind
    <2>1. PICK ack \in core.acked :
            CoreSend([kind |-> "Bind", seq |-> core.seq + 1, sender |-> "core", session |-> "launch", ack |-> ack],
                     [core EXCEPT !.acked = {}])
      BY <1>6 DEF CoreBind
    <2> DEFINE rec == [kind |-> "Bind", seq |-> core.seq + 1, sender |-> "core", session |-> "launch", ack |-> ack]
               next == [core EXCEPT !.acked = {}]
    <2>2. ack \in AckT
      BY DEF CoreT
    <2>3. rec \in CoreSays
      <3>1. rec \in [kind : {"Bind"}, seq : Nat, sender : {"core"}, session : {"launch"}, ack : AckT]
        BY <1>1, <2>2
      <3> QED
        BY <3>1 DEF CoreSays
    <2>4. next \in CoreT /\ next.echoed = core.echoed /\ next.withdrawn = core.withdrawn
      BY DEF CoreT
    <2>5. rec.kind = "Bind" /\ ~Withdrawing(rec)
      BY DEF Withdrawing
    <2>6. CoreSend(rec, next)
      BY <2>1
    <2> HIDE DEF rec, next
    <2> QED
      BY <1>3, <2>3, <2>4, <2>5, <2>6
  <1>7. ASSUME NEW reason \in {"SourceMutation", "GrantLoss"}, CoreInvalidate(reason)
        PROVE  Goal
    <2>1. PICK l \in core.lifetime :
            /\ ~core.withdrawn
            /\ CoreSend([kind |-> "Invalidate", seq |-> core.seq + 1, sender |-> "core", session |-> "launch",
                         id |-> l.id, rev |-> l.rev, reason |-> reason],
                        [core EXCEPT !.lifetime = {}, !.sent = {}, !.acked = {}, !.receipt = {},
                                     !.withdrawn = Withdraws(reason)])
      BY <1>7 DEF CoreInvalidate
    <2> DEFINE rec == [kind |-> "Invalidate", seq |-> core.seq + 1, sender |-> "core", session |-> "launch",
                       id |-> l.id, rev |-> l.rev, reason |-> reason]
               next == [core EXCEPT !.lifetime = {}, !.sent = {}, !.acked = {}, !.receipt = {},
                                    !.withdrawn = Withdraws(reason)]
    <2>2. l.id \in Nat /\ l.rev \in Nat
      BY DEF CoreT, Life
    <2>3. rec \in CoreSays
      <3>1. rec \in [kind : {"Invalidate"}, seq : Nat, sender : {"core"}, session : {"launch"}, id : Nat, rev : Nat,
                     reason : {"SourceMutation", "GrantLoss"}]
        BY <1>1, <1>7, <2>2
      <3> QED
        BY <3>1 DEF CoreSays
    <2>4. Withdraws(reason) \in BOOLEAN
      BY DEF Withdraws
    <2>5. next \in CoreT /\ next.echoed = core.echoed /\ next.withdrawn = Withdraws(reason)
      BY <2>4 DEF CoreT
    <2>6. rec.kind = "Invalidate" /\ (Withdrawing(rec) => Withdraws(reason))
      BY DEF Withdrawing
    <2>7. CoreSend(rec, next)
      BY <2>1
    <2> HIDE DEF rec, next
    <2> QED
      BY <1>3, <2>1, <2>3, <2>5, <2>6, <2>7
  <1>8. CASE CoreError
    <2> DEFINE rec == [kind |-> "Error", seq |-> core.seq + 1, sender |-> "core", session |-> "launch"]
               next == [core EXCEPT !.withdrawn = TRUE]
    <2>1. CoreSend(rec, next)
      BY <1>8 DEF CoreError
    <2>2. rec \in CoreSays /\ rec.kind = "Error"
      <3>1. rec \in [kind : {"Error"}, seq : Nat, sender : {"core"}, session : {"launch"}]
        BY <1>1
      <3> QED
        BY <3>1 DEF CoreSays
    <2>3. next \in CoreT /\ next.echoed = core.echoed /\ next.withdrawn = TRUE
      BY DEF CoreT
    <2> HIDE DEF rec, next
    <2> QED
      BY <1>3, <2>1, <2>2, <2>3
  <1>9. CASE CoreRogue
    <2>1. PICK f \in BadFrames : toHelper' = Append(toHelper, f)
      BY <1>9 DEF CoreRogue
    <2>2. core' = [core EXCEPT !.rogue = TRUE] /\ core.seq > 0 /\ UNCHANGED <<helper, view, toCore>>
      BY <1>9 DEF CoreRogue
    <2>3. core' \in CoreT /\ core'.seq = core.seq /\ Said
      BY <2>2 DEF CoreT, Said
    <2>4. f.rec.bytes \in Bytes
      BY DEF Bytes
    <2>5. Passed(f) => /\ f.rec.kind \notin {"Establish", "Error"}
                       /\ f.rec.kind = "Invalidate" => ~Withdraws(f.rec.reason)
                       /\ f.rec.kind = "Publish" => f.rec.version \in Nat
      BY LaunchAssumption DEF Passed
    <2>6. PublishTyped(f) /\ (Passed(f) => f.rec.kind # "Establish" /\ ~Withdrawing(f.rec))
      BY <2>4, <2>5 DEF PublishTyped, Withdrawing
    <2>7. f \in FrameT
      BY DEF FrameT
    <2>8. FramesTrue'
      BY <2>1, <2>3, <2>6, <2>7, FrameSent
    <2>9. core'.seq # 0
      BY <1>1, <2>2, <2>3
    <2> QED
      BY <2>2, <2>3, <2>8, <2>9
  <1>10. CASE CoreReceive
    <2> DEFINE rec == Head(toCore)
    <2>1. /\ toCore # <<>> /\ core' = CoreLearn(rec) /\ toCore' = Tail(toCore)
          /\ UNCHANGED <<helper, view, toHelper>>
      BY <1>10 DEF CoreReceive
    <2>2. rec \in SaidT /\ toCore' \in Seq(SaidT)
      BY <2>1
    <2> HIDE DEF rec
    <2>3. core' \in CoreT /\ core'.seq = core.seq /\ core'.echoed = core.echoed
          /\ (core.withdrawn => core'.withdrawn)
      BY <2>1, <2>2, Learns
    <2>4. Said
      BY <2>3 DEF Said
    <2>5. FramesTrue'
      BY <2>1, <2>4, FramesKept
    <2> QED
      BY <2>1, <2>2, <2>3, <2>4, <2>5
  <1>11. CASE Drift
    <2>1. /\ core' = [core EXCEPT !.drifted = TRUE] /\ UNCHANGED <<helper, toHelper, toCore>>
          /\ \E bytes \in Payloads : view' = [rev |-> view.rev + 1, bytes |-> bytes]
      BY <1>11 DEF Drift
    <2>2. core' \in CoreT /\ core'.seq = core.seq /\ core'.echoed = core.echoed /\ Said
      BY <2>1 DEF CoreT, Said
    <2>3. view' \in [rev : Nat, bytes : Bytes]
      BY <2>1 DEF Bytes
    <2>4. FramesTrue'
      BY <2>1, <2>2, FramesKept
    <2> QED
      BY <2>1, <2>2, <2>3, <2>4
  <1> QED
    BY <1>4, <1>5, <1>6, <1>7, <1>8, <1>9, <1>10, <1>11 DEF CoreMoves

-----------------------------------------------------------------------------
(***************************************************************************)
(* The launch.  Each stage has passed the gates of those before it, and    *)
(* the first lifetime is drawn in the last one only, for a launch echoed.  *)
(***************************************************************************)
LaunchTypes ==
    /\ helper \in HelperT /\ core \in CoreT /\ view \in [rev : Nat, bytes : Bytes] /\ toCore \in Seq(SaidT)
    /\ shake.steps \in 0..StepsMax /\ shake.read \in 0..WireMax /\ shake.written \in 0..WireMax
    /\ stage \in {"bootstrap", "handshake", "control", "exited"}

Authority ==
    /\ helper.phase # "Revoked" => helper.revocation = "none"
    /\ Active => helper.lifetime # {} /\ helper.drawn > 0
    /\ core.seq = 0 => ~core.echoed

Gates == ReadManifest(manifest) = "ok" /\ Verified(peer) /\ EstablishedPeer(peer) = "ok" /\ shake.read >= 1

Staged ==
    /\ stage \in {"bootstrap", "handshake"} => helper.drawn = 0
    /\ stage = "handshake" => ReadManifest(manifest) = "ok"
    /\ stage = "control" => Gates
    /\ helper.drawn > 0 => Gates /\ core.echoed
    /\ stage # "exited" => exit = "none"
    /\ exit \in {"AuthorityClosed", "PeerClosed"} => core.withdrawn /\ helper.drawn > 0 /\ helper.lifetime = {}

LaunchInv == LaunchTypes /\ FramesTrue /\ Authority /\ Staged

\* Any call of the helper's.
LEMMA HelperMoved ==
    ASSUME LaunchInv, HelperStep \/ HelperMoves
    PROVE  /\ helper' \in HelperT /\ toCore' \in Seq(SaidT) /\ view' \in [rev : Nat, bytes : Bytes]
           /\ core' = core /\ FramesTrue' /\ Grown(helper, helper')
           /\ helper.drawn = 0 /\ helper'.drawn > 0 => core.echoed
           /\ helper'.phase # "Revoked" => helper'.drawn > 0
           /\ (helper.phase # "AwaitingEstablish" /\ helper'.revocation \in PeerReasons) => core.withdrawn
           /\ helper.phase # "Revoked"
  <1> DEFINE Goal == /\ helper' \in HelperT /\ toCore' \in Seq(SaidT) /\ view' \in [rev : Nat, bytes : Bytes]
                     /\ core' = core /\ FramesTrue' /\ Grown(helper, helper')
                     /\ helper.drawn = 0 /\ helper'.drawn > 0 => core.echoed
                     /\ helper'.phase # "Revoked" => helper'.drawn > 0
                     /\ (helper.phase # "AwaitingEstablish" /\ helper'.revocation \in PeerReasons) => core.withdrawn
                     /\ helper.phase # "Revoked"
  <1>1. /\ helper \in HelperT /\ toCore \in Seq(SaidT) /\ view \in [rev : Nat, bytes : Bytes]
        /\ view.rev \in Nat /\ view.bytes \in Bytes /\ helper.drawn \in Nat
    BY DEF LaunchInv, LaunchTypes, HelperT
  <1>2. /\ helper.phase # "Revoked" => helper.revocation = "none"
        /\ Active => helper.lifetime # {} /\ helper.drawn > 0
    BY DEF LaunchInv, Authority
  <1>3. helper.phase \notin {"AwaitingEstablish", "Revoked"} => Active
    BY <1>1 DEF Active, HelperT
  <1>4. FramesTrue
    BY DEF LaunchInv
  <1>5. "none" \notin PeerReasons /\ "LocalClose" \notin PeerReasons /\ OwnReasons \subseteq Reasons \ PeerReasons
    BY DEF PeerReasons, OwnReasons, Reasons
  <1>6. ASSUME NEW env, NEW dead \in Int, ReadAndHandle(env, dead)
        PROVE  Goal
    <2> DEFINE f == Head(toHelper)
    <2>1. /\ toHelper # <<>> /\ helper.phase # "Revoked" /\ toHelper' = Tail(toHelper) /\ UNCHANGED <<view, core>>
      BY <1>6 DEF ReadAndHandle
    <2>2. FrameTrue(f)
      <3>1. 1 \in DOMAIN toHelper /\ f = toHelper[1]
        BY <1>4, <2>1 DEF FramesTrue
      <3> HIDE DEF f
      <3> QED
        BY <1>4, <3>1 DEF FramesTrue
    <2>3. PublishTyped(f)
      BY <2>2 DEF FrameTrue
    <2>4. /\ helper' \in HelperT /\ toCore' \in Seq(SaidT) /\ Grown(helper, helper')
          /\ helper.phase = "AwaitingEstablish" /\ helper'.drawn # helper.drawn =>
               Passed(f) /\ f.rec.kind = "Establish" /\ EchoMatches(f.rec)
          /\ helper.phase = "AwaitingEstablish" /\ helper'.phase # "Revoked" =>
               helper'.drawn = helper.drawn + 1
          /\ (helper.phase # "AwaitingEstablish" /\ helper'.revocation \in PeerReasons) =>
               Passed(f) /\ Withdrawing(f.rec)
      BY <1>1, <1>2, <1>6, <2>1, <2>3, FrameHandled
    <2>5. FramesTrue'
      <3>1. Said
        BY <2>1 DEF Said
      <3> QED
        BY <1>4, <2>1, <3>1, FramesKept
    <2> HIDE DEF f
    <2>6. helper.drawn = 0 /\ helper'.drawn > 0 => core.echoed
      BY <1>2, <1>3, <2>1, <2>2, <2>4 DEF FrameTrue
    <2>7. helper'.phase # "Revoked" => helper'.drawn > 0
      BY <1>1, <1>2, <1>3, <2>1, <2>4 DEF Grown, HelperT
    <2>8. (helper.phase # "AwaitingEstablish" /\ helper'.revocation \in PeerReasons) => core.withdrawn
      BY <2>2, <2>4 DEF FrameTrue
    <2> QED
      BY <1>1, <2>1, <2>4, <2>5, <2>6, <2>7, <2>8
  <1>7. ASSUME helper' \in HelperT, toCore' \in Seq(SaidT), view' \in [rev : Nat, bytes : Bytes], Active,
               core' = core, toHelper' = toHelper,
               \/ \E rev : Renewed(helper, helper', rev)
               \/ \E why \in OwnReasons : EndsOwn(why)
        PROVE  Goal
    <2>1. Said
      BY <1>7 DEF Said
    <2>2. FramesTrue'
      BY <1>4, <1>7, <2>1, FramesKept
    <2>3. helper.drawn > 0 /\ helper.phase # "Revoked" /\ helper.revocation = "none"
      BY <1>2, <1>7 DEF Active
    <2>4. CASE \E rev : Renewed(helper, helper', rev)
      <3>1. /\ helper'.phase = "Ready" /\ helper'.lifetime # {} /\ helper'.drawn = helper.drawn + 1
            /\ helper'.revocation = "none"
        BY <2>3, <2>4 DEF Renewed
      <3> QED
        BY <1>1, <1>5, <1>7, <2>2, <2>3, <3>1 DEF Grown
    <2>5. CASE \E why \in OwnReasons : EndsOwn(why)
      <3>1. PICK why \in OwnReasons, h \in HelperT : Ended(h, helper', why) /\ h.drawn \in {helper.drawn, helper.drawn + 1}
        BY <2>5 DEF EndsOwn
      <3>2. /\ helper'.phase = "Revoked" /\ helper'.lifetime = {} /\ helper'.revocation = why
            /\ helper'.drawn \in {helper.drawn, helper.drawn + 1}
        BY <3>1 DEF Ended
      <3> QED
        BY <1>1, <1>5, <1>7, <2>2, <2>3, <3>2 DEF Grown
    <2> QED
      BY <1>7, <2>4, <2>5
  <1>8. ASSUME NEW bytes \in Payloads, NEW step \in Nat, NEW env, NEW dead \in Int,
               RegistryMutated(bytes, step, env, dead)
        PROVE  Goal
    <2>1. Active /\ core' = core /\ toHelper' = toHelper
      BY <1>8 DEF RegistryMutated
    <2>2. helper.lifetime # {}
      BY <1>2, <2>1
    <2>3. /\ helper' \in HelperT /\ toCore' \in Seq(SaidT) /\ view' \in [rev : Nat, bytes : Bytes]
          /\ \/ Renewed(helper, helper', IdOf(helper).rev + 1)
             \/ \E why \in OwnReasons : EndsOwn(why)
      BY <1>1, <1>8, <2>2, RegistryMutatedHandled
    <2> QED
      BY <1>7, <2>1, <2>3
  <1>9. ASSUME NEW env, NEW dead \in Int, HelperReset(env, dead)
        PROVE  Goal
    <2>1. Active /\ core' = core /\ toHelper' = toHelper /\ view' = view
      BY <1>9 DEF HelperReset
    <2>2. helper.lifetime # {}
      BY <1>2, <2>1
    <2>3. /\ helper' \in HelperT /\ toCore' \in Seq(SaidT)
          /\ \/ Renewed(helper, helper', IdOf(helper).rev)
             \/ \E why \in OwnReasons : EndsOwn(why)
      BY <1>1, <1>9, <2>2, ResetHandled
    <2> QED
      BY <1>1, <1>7, <2>1, <2>3
  <1>10. CASE EstablishAgain
    <2> DEFINE c == Call(helper, -1)
               r == Fail(c, ProtocolFault("AlreadyEstablished"))
    <2>1. Active /\ helper' = r.h /\ toCore' = toCore \o r.out /\ UNCHANGED <<view, core, toHelper>>
      BY <1>10 DEF EstablishAgain, Done
    <2>2. c \in CallT /\ c.h = helper
      BY <1>1 DEF Call, CallT
    <2>3. "AlreadyEstablished" \in Errors
      BY DEF Errors
    <2>4. IsFault(ProtocolFault("AlreadyEstablished"))
          /\ ProtocolFault("AlreadyEstablished").reason = "ProtocolViolation"
      BY <2>3, FaultsKnown
    <2> HIDE DEF c
    <2>5. r \in CallT /\ Ended(helper, r.h, "ProtocolViolation")
      BY <2>2, <2>4, Fails
    <2> HIDE DEF r
    <2>6. helper' \in HelperT /\ toCore' \in Seq(SaidT)
      BY <1>1, <2>1, <2>5 DEF CallT
    <2>7. "ProtocolViolation" \in OwnReasons
      BY DEF OwnReasons, Reasons
    <2>8. EndsOwn("ProtocolViolation")
      BY <1>1, <2>1, <2>5 DEF EndsOwn
    <2> QED
      BY <1>1, <1>7, <2>1, <2>6, <2>7, <2>8
  <1>11. CASE Close
    <2>1. /\ helper.phase # "Revoked"
          /\ helper' = ClearAuthority([helper EXCEPT !.phase = "Revoked", !.revocation = "LocalClose"])
          /\ UNCHANGED <<view, core, toHelper, toCore>>
      BY <1>11 DEF Close
    <2>2. "LocalClose" \in Reasons
      BY DEF Reasons
    <2>3. helper' \in HelperT /\ helper'.phase = "Revoked" /\ helper'.lifetime = {} /\ helper'.drawn = helper.drawn
          /\ helper'.revocation = "LocalClose"
      BY <1>1, <2>1, <2>2 DEF ClearAuthority, HelperT
    <2>4. Said
      BY <2>1 DEF Said
    <2>5. FramesTrue'
      BY <1>4, <2>1, <2>4, FramesKept
    <2> QED
      BY <1>1, <1>5, <2>1, <2>3, <2>5 DEF Grown
  <1>12. 0 \in Nat /\ 1 \in Nat /\ 2 \in Nat /\ -1 \in Int /\ 0..2 \subseteq Int /\ 0..1 \subseteq Int /\ 0..2 \subseteq Nat
    OBVIOUS
  <1>13. CASE HelperStep
    BY <1>6, <1>12, <1>13 DEF HelperStep
  <1>14. CASE HelperFaultyStep
    BY <1>6, <1>12, <1>14 DEF HelperFaultyStep
  <1>15. CASE HelperMoves
    BY <1>8, <1>9, <1>10, <1>11, <1>12, <1>14, <1>15 DEF HelperMoves
  <1> QED
    BY <1>13, <1>15


\* The process starts with nothing drawn and nothing said.
LEMMA LaunchStarts ==
    ASSUME HelperInit
    PROVE  LaunchInv
  <1>1. helper \in HelperT
    <2>1. NewHelper.revocation \in Reasons
      BY DEF NewHelper, Reasons
    <2> QED
      BY <2>1 DEF HelperInit, NewHelper, HelperT
  <1>2. core \in CoreT
    BY DEF HelperInit, NewCore, CoreT
  <1>3. view \in [rev : Nat, bytes : Bytes]
    BY DEF HelperInit, Bytes
  <1>4. /\ shake.steps = 0 /\ shake.read = 0 /\ shake.written = 0
        /\ stage = "bootstrap" /\ exit = "none"
    BY DEF HelperInit, NewShake
  <1>5. helper.phase = "AwaitingEstablish" /\ helper.revocation = "none" /\ helper.drawn = 0
    BY DEF HelperInit, NewHelper
  <1>6. ~core.echoed
    BY DEF HelperInit, NewCore
  <1>7. toHelper = <<>> /\ toCore = <<>>
    BY DEF HelperInit
  <1>8. LaunchTypes
    BY <1>1, <1>2, <1>3, <1>4, <1>7, LaunchAssumption DEF LaunchTypes
  <1>9. FramesTrue
    BY <1>7 DEF FramesTrue
  <1>10. Authority
    BY <1>5, <1>6 DEF Authority, Active
  <1>11. Staged
    BY <1>4, <1>5 DEF Staged
  <1> QED
    BY <1>8, <1>9, <1>10, <1>11 DEF LaunchInv

\* What neither the manifest nor the handshake touches.
LEMMA ControlKept ==
    ASSUME FramesTrue, Authority, UNCHANGED controlVars
    PROVE  FramesTrue' /\ Authority'
  <1>1. UNCHANGED <<helper, core, toHelper>>
    BY DEF controlVars
  <1>2. Said
    BY <1>1 DEF Said
  <1>3. FramesTrue'
    BY <1>1, <1>2, FramesKept
  <1>4. Authority'
    BY <1>1 DEF Authority, Active
  <1> QED
    BY <1>3, <1>4

\* A manifest refused is refused for its own reason.
LEMMA ManifestRefused ==
    ASSUME NEW m, ReadManifest(m) # "ok"
    PROVE  ReadManifest(m) \notin {"AuthorityClosed", "PeerClosed"}
  <1> DEFINE checks == << <<m.channel = "io", "BootstrapIo">>,
                          <<m.size > MaxBootstrap, "BootstrapManifest">>,
                          <<~FieldsWhole(m), "BootstrapManifest">>,
                          <<~ValuesValid(m), "BootstrapManifest">>,
                          <<~KeyValid(m), "BootstrapManifest">>,
                          <<m.channel = "trailing", "BootstrapTrailingData">>,
                          <<m.channel = "probe io", "BootstrapIo">> >>
  <1>1. ReadManifest(m) = Verdict(checks)
    BY DEF ReadManifest
  <1>2. DOMAIN checks = 1..7
    OBVIOUS
  <1>3. \A i \in 1..7 : checks[i][2] \notin {"AuthorityClosed", "PeerClosed"}
    <2>1. checks[1][2] = "BootstrapIo"
      OBVIOUS
    <2>2. checks[2][2] = "BootstrapManifest"
      OBVIOUS
    <2>3. checks[3][2] = "BootstrapManifest"
      OBVIOUS
    <2>4. checks[4][2] = "BootstrapManifest"
      OBVIOUS
    <2>5. checks[5][2] = "BootstrapManifest"
      OBVIOUS
    <2>6. checks[6][2] = "BootstrapTrailingData"
      OBVIOUS
    <2>7. checks[7][2] = "BootstrapIo"
      OBVIOUS
    <2> HIDE DEF checks
    <2> QED
      BY <2>1, <2>2, <2>3, <2>4, <2>5, <2>6, <2>7
  <1> HIDE DEF checks
  <1>4. Failing(checks) \in SUBSET Nat /\ Failing(checks) \subseteq DOMAIN checks
    BY <1>2 DEF Failing
  <1> QED
    BY <1>1, <1>2, <1>3, <1>4, LeastCheck DEF Verdict

LEMMA Bootstraps ==
    ASSUME LaunchInv, Bootstrap
    PROVE  LaunchInv'
  <1>1. /\ LaunchTypes /\ FramesTrue /\ Authority /\ Staged
    BY DEF LaunchInv
  <1>2. stage = "bootstrap" /\ UNCHANGED <<controlVars, manifest, peer, shake>>
    BY DEF Bootstrap
  <1>3. UNCHANGED <<helper, core, view, toCore>>
    BY <1>2 DEF controlVars
  <1>4. helper.drawn = 0 /\ exit = "none"
    BY <1>1, <1>2 DEF Staged
  <1>5. \/ ReadManifest(manifest) = "ok" /\ stage' = "handshake" /\ exit' = exit
        \/ stage' = "exited" /\ exit' \notin {"AuthorityClosed", "PeerClosed"}
    BY ManifestRefused DEF Bootstrap, Exit
  <1>6. LaunchTypes'
    BY <1>1, <1>2, <1>3, <1>5 DEF LaunchTypes
  <1>7. Staged'
    BY <1>2, <1>3, <1>4, <1>5 DEF Staged
  <1> QED
    BY <1>1, <1>2, <1>6, <1>7, ControlKept DEF LaunchInv

LEMMA Shakes ==
    ASSUME LaunchInv, NEW n \in 0..WireMax, NEW w \in 0..WireMax, Shake(n, w)
    PROVE  LaunchInv'
  <1> DEFINE flown == shake.flights + 1
             last  == flown >= peer.flights
             least == Min({w, Allowed(shake.written)})
             next  == [steps |-> shake.steps + 1, read |-> shake.read + n,
                       written |-> shake.written + least, flights |-> flown]
  <1>1. /\ LaunchTypes /\ FramesTrue /\ Authority /\ Staged
    BY DEF LaunchInv
  <1>2. /\ shake.steps \in 0..StepsMax /\ shake.read \in 0..WireMax /\ shake.written \in 0..WireMax
        /\ WireMax \in Nat /\ StepsMax \in Nat
    BY <1>1, LaunchAssumption DEF LaunchTypes
  <1>3. /\ stage = "handshake" /\ shake.steps < StepsMax /\ n <= Allowed(shake.read)
        /\ shake' = next /\ UNCHANGED <<controlVars, manifest, peer>>
    BY DEF Shake
  <1>4. \/ stage' = "exited" /\ exit' = "Handshake"
        \/ /\ ~ShakeFails(n, w, next, last)
           /\ stage' = (IF last THEN "control" ELSE stage) /\ exit' = exit
    BY DEF Shake, Exit
  <1>5. least \in {w, Allowed(shake.written)} /\ least <= Allowed(shake.written)
    <2>1. {w, Allowed(shake.written)} \in SUBSET Nat
      BY <1>2 DEF Allowed
    <2> QED
      BY <2>1, LeastCheck
  <1> HIDE DEF least
  <1>6. least \in 0..(WireMax - shake.written)
    BY <1>2, <1>5 DEF Allowed
  <1>7. shake'.steps = shake.steps + 1 /\ shake'.read = shake.read + n /\ shake'.written = shake.written + least
    BY <1>3
  <1>8. shake'.steps \in 0..StepsMax /\ shake'.read \in 0..WireMax /\ shake'.written \in 0..WireMax
    BY <1>2, <1>3, <1>6, <1>7 DEF Allowed
  <1>9. UNCHANGED <<helper, core, view, toCore>>
    BY <1>3 DEF controlVars
  <1>10. helper.drawn = 0 /\ exit = "none" /\ ReadManifest(manifest) = "ok"
    BY <1>1, <1>3 DEF Staged
  <1> HIDE DEF next
  <1>11. stage' = "control" => n # 0 /\ Verified(peer) /\ EstablishedPeer(peer) = "ok"
    <2>1. ~ShakeFails(n, w, next, last) => n # 0 /\ (last => Verified(peer) /\ EstablishedPeer(peer) = "ok")
      BY DEF ShakeFails
    <2> HIDE DEF last
    <2> QED
      BY <1>3, <1>4, <2>1
  <1> HIDE DEF last
  <1>12. stage' \in {"handshake", "control", "exited"} /\ exit' \in {"none", "Handshake"}
         /\ (stage' # "exited" => exit' = "none")
    BY <1>3, <1>4, <1>10
  <1>13. LaunchTypes'
    BY <1>1, <1>8, <1>9, <1>12 DEF LaunchTypes
  <1>14. stage' = "control" => Gates'
    BY <1>2, <1>3, <1>7, <1>10, <1>11 DEF Gates
  <1>15. Staged'
    BY <1>3, <1>9, <1>10, <1>12, <1>14 DEF Staged
  <1> QED
    BY <1>1, <1>3, <1>13, <1>15, ControlKept DEF LaunchInv

\* run_helper's loop: a call, and the exit it asks for.
LEMMA Drives ==
    ASSUME LaunchInv, stage = "control", HelperStep \/ HelperMoves, Driven
    PROVE  LaunchInv'
  <1>1. /\ LaunchTypes /\ FramesTrue /\ Authority /\ Staged
    BY DEF LaunchInv
  <1>2. /\ helper' \in HelperT /\ toCore' \in Seq(SaidT) /\ view' \in [rev : Nat, bytes : Bytes]
        /\ core' = core /\ FramesTrue' /\ Grown(helper, helper')
        /\ helper.drawn = 0 /\ helper'.drawn > 0 => core.echoed
        /\ helper'.phase # "Revoked" => helper'.drawn > 0
        /\ (helper.phase # "AwaitingEstablish" /\ helper'.revocation \in PeerReasons) => core.withdrawn
        /\ helper.phase # "Revoked"
    BY HelperMoved
  <1>3. UNCHANGED <<manifest, peer, shake>>
    BY DEF Driven
  <1>4. helper \in HelperT /\ helper.drawn \in Nat /\ helper'.drawn \in Nat
    BY <1>1, <1>2 DEF LaunchTypes, HelperT
  <1>5. Gates /\ exit = "none"
    BY <1>1 DEF Staged
  <1>6. Gates'
    BY <1>3, <1>5 DEF Gates
  <1>7. /\ stage' \in {"control", "exited"}
        /\ stage' # "exited" => exit' = "none"
        /\ exit' \in {"AuthorityClosed", "PeerClosed"} =>
             /\ helper'.phase = "Revoked" /\ helper.phase # "AwaitingEstablish"
             /\ helper'.revocation \in PeerReasons
    <2> DEFINE e == ExitOf(helper, helper')
    <2>1. \/ e = "none" /\ UNCHANGED <<stage, exit>>
          \/ e # "none" /\ stage' = "exited" /\ exit' = e
      BY DEF Driven, Exit
    <2>2. e \in {"AuthorityClosed", "PeerClosed"} =>
             /\ helper'.phase = "Revoked" /\ helper.phase # "AwaitingEstablish"
             /\ helper'.revocation \in PeerReasons
      BY DEF ExitOf, PeerReasons
    <2> HIDE DEF e
    <2> QED
      BY <1>5, <2>1, <2>2
  <1>8. LaunchTypes'
    BY <1>1, <1>2, <1>3, <1>7 DEF LaunchTypes
  <1>9. Authority'
    <2>1. helper'.phase # "Revoked" => helper'.revocation = "none" /\ helper'.lifetime # {} /\ helper'.drawn > 0
      BY <1>1, <1>2 DEF Grown, Authority
    <2>2. core'.seq = 0 => ~core'.echoed
      BY <1>1, <1>2 DEF Authority
    <2>3. Active' => helper'.phase # "Revoked"
      BY DEF Active
    <2> QED
      BY <2>1, <2>2, <2>3 DEF Authority
  <1>10. helper'.drawn > 0 => core.echoed
    <2>1. helper.drawn > 0 => core.echoed
      BY <1>1 DEF Staged
    <2> QED
      BY <1>2, <1>4, <2>1
  <1>11. exit' \in {"AuthorityClosed", "PeerClosed"} => core.withdrawn /\ helper'.drawn > 0 /\ helper'.lifetime = {}
    <2>1. helper.phase \notin {"AwaitingEstablish", "Revoked"} => helper.drawn > 0
      BY <1>1, <1>4 DEF Authority, Active, HelperT
    <2> QED
      BY <1>2, <1>4, <1>7, <2>1 DEF Grown
  <1>12. Staged'
    BY <1>2, <1>6, <1>7, <1>10, <1>11 DEF Staged
  <1> QED
    BY <1>2, <1>8, <1>9, <1>12 DEF LaunchInv

LEMMA CoreKeeps ==
    ASSUME LaunchInv, stage = "control", CoreMoves, UNCHANGED launchVars
    PROVE  LaunchInv'
  <1>1. /\ LaunchTypes /\ FramesTrue /\ Authority /\ Staged
    BY DEF LaunchInv
  <1>2. /\ core \in CoreT /\ toCore \in Seq(SaidT) /\ view \in [rev : Nat, bytes : Bytes]
        /\ core.seq = 0 => ~core.echoed
    BY <1>1 DEF LaunchTypes, Authority
  <1>3. /\ core' \in CoreT /\ (core'.seq = 0 => ~core'.echoed) /\ toCore' \in Seq(SaidT)
        /\ view' \in [rev : Nat, bytes : Bytes] /\ helper' = helper
        /\ FramesTrue' /\ Said
    BY <1>1, <1>2, CoreMoved
  <1>4. UNCHANGED <<stage, exit, manifest, peer, shake>>
    BY DEF launchVars
  <1>5. LaunchTypes'
    BY <1>1, <1>3, <1>4 DEF LaunchTypes
  <1>6. Authority'
    BY <1>1, <1>3 DEF Authority, Active
  <1>7. Staged'
    BY <1>1, <1>3, <1>4 DEF Staged, Said, Gates
  <1> QED
    BY <1>3, <1>5, <1>6, <1>7 DEF LaunchInv

(* Nothing is said to a peer, no lifetime is drawn, before the manifest was read
   whole, the one pinned leaf came over TLS 1.3 and the control protocol within
   the wire and step budgets, and Core echoed the launch; and the process exits
   well only when Core withdrew its grant or reported an error, with every
   authority cleared.  For manifests, peers, payloads and budgets of any size,
   and a Core that may write any of BadFrames (entrypoint.rs run_helper,
   server.rs establish and accept, endpoint.rs step). *)
THEOREM NothingSaidBeforeTheLaunch == HelperSpec => []LaunchGated
  <1>1. HelperInit => LaunchInv
    BY LaunchStarts
  <1>2. LaunchInv /\ [HelperNext]_helperVars => LaunchInv'
    <2> SUFFICES ASSUME LaunchInv, [HelperNext]_helperVars
                 PROVE  LaunchInv'
      OBVIOUS
    <2>1. CASE UNCHANGED helperVars
      <3>1. UNCHANGED <<controlVars, stage, exit, manifest, peer, shake>>
        BY <2>1 DEF helperVars, launchVars
      <3>2. UNCHANGED <<helper, core, view, toCore>>
        BY <3>1 DEF controlVars
      <3>3. LaunchTypes'
        BY <3>1, <3>2 DEF LaunchInv, LaunchTypes
      <3>4. Staged'
        BY <3>1, <3>2 DEF LaunchInv, Staged, Gates
      <3> QED
        BY <3>1, <3>3, <3>4, ControlKept DEF LaunchInv
    <2>2. CASE \E n \in 0..WireMax, w \in 0..WireMax : Shake(n, w)
      BY <2>2, Shakes
    <2>3. CASE stage = "control" /\ (HelperStep \/ HelperMoves) /\ Driven
      BY <2>3, Drives
    <2>4. CASE stage = "control" /\ CoreMoves /\ UNCHANGED launchVars
      BY <2>4, CoreKeeps
    <2> QED
      BY <2>1, <2>2, <2>3, <2>4, Bootstraps DEF HelperNext
  <1>3. LaunchInv => LaunchGated
    <2> SUFFICES ASSUME LaunchInv PROVE LaunchGated
      OBVIOUS
    <2>1. /\ shake.steps \in 0..StepsMax /\ shake.read \in 0..WireMax /\ shake.written \in 0..WireMax
          /\ WireMax \in Nat /\ StepsMax \in Nat
      BY LaunchAssumption DEF LaunchInv, LaunchTypes
    <2>2. shake.read <= WireMax /\ shake.written <= WireMax /\ shake.steps <= StepsMax
      BY <2>1
    <2>3. Gates => shake.read \in 1..WireMax
      BY <2>1 DEF Gates
    <2> QED
      BY <2>2, <2>3 DEF LaunchInv, Staged, LaunchGated, Gates
  <1> QED
    BY <1>1, <1>2, <1>3, PTL DEF HelperSpec

-----------------------------------------------------------------------------
(***************************************************************************)
(* The two streams.  While Core conforms and control stands, what is on    *)
(* its way either way is bound to what the two ends hold: every record is  *)
(* the next in number, every lifetime has one holder (its announcement,    *)
(* Core, or Core's invalidation of it), and every publication of the       *)
(* current lifetime is at one place of its round.  h and k are the helper  *)
(* and Core, up and down the streams to the helper and to Core.            *)
(***************************************************************************)
Ups(up, kind) == {i \in DOMAIN up : up[i].rec.kind = kind}

Downs(down, kind) == {i \in DOMAIN down : down[i].kind = kind}

News(down) == Downs(down, "Established") \cup Downs(down, "Lifetime")

LifeOf(r) == [id |-> r.id, rev |-> r.rev]

AckOf(r) == [id |-> r.id, rev |-> r.rev, version |-> r.version]

\* Records are numbered without a gap; the first, and no other, establishes.
InStep(h, k, up) ==
    /\ k.seq = h.in + Len(up)
    /\ h.phase = "AwaitingEstablish" <=> h.in = 0
    /\ \A i \in DOMAIN up :
         /\ up[i] = FrameOf(up[i].rec) /\ up[i].rec \in CoreSays
         /\ up[i].rec.seq = h.in + i
         /\ up[i].rec.kind = "Establish" <=> h.in + i = 1
         /\ up[i].rec.kind = "Establish" => up[i].rec.echo

\* The helper holds one lifetime, the last it drew, and proofs of no other.
Current(h) ==
    /\ h.phase = "AwaitingEstablish" => h.drawn = 0 /\ h.lifetime = {} /\ h.pending = {} /\ h.receipt = {}
    /\ h.phase # "AwaitingEstablish" => h.drawn >= 1 /\ \E l \in h.lifetime : h.lifetime = {l} /\ l.id = h.drawn
    /\ \A p, q \in h.pending : p = q /\ p.ack.id = h.drawn
    /\ \A p, q \in h.receipt : p = q /\ p.ack.id = h.drawn

\* A lifetime Core may still invalidate: the helper remembers the last two.
Proper(h, l) ==
    /\ l.id \in 1..h.drawn
    /\ l.id = h.drawn => h.lifetime = {l}
    /\ l.id + 1 = h.drawn => h.predecessor = {l}

Lives(h, k, up, down) ==
    /\ \A i \in Ups(up, "Invalidate") : Proper(h, LifeOf(up[i].rec))
    /\ \A l \in k.lifetime : Proper(h, l)
    /\ \A j \in News(down) : Proper(h, LifeOf(down[j]))

\* One holder each: invalidations, then Core, then announcements, in order of age.
OneHolder(k, up, down) ==
    /\ \A i, j \in Ups(up, "Invalidate") : i < j => up[i].rec.id < up[j].rec.id
    /\ \A i \in Ups(up, "Invalidate"), l \in k.lifetime : up[i].rec.id < l.id
    /\ \A i \in Ups(up, "Invalidate"), j \in News(down) : up[i].rec.id < down[j].id
    /\ \A l, m \in k.lifetime : l = m
    /\ \A l \in k.lifetime, j \in News(down) : l.id < down[j].id
    /\ \A i, j \in News(down) : i < j => down[i].id < down[j].id

\* Core is told of a lifetime when it has none, or has just been told to drop it.
Turns(k, down) ==
    \A j \in News(down) :
      \/ j - 1 \in Downs(down, "Invalidate")
      \/ k.lifetime = {} /\ \A i \in News(down) : j <= i

\* What Core keeps of a publication is of the lifetime it knows; no receipt
\* while one is under way.
CoreTidy(k) ==
    /\ k.sent # {} => k.receipt = {}
    /\ k.lifetime = {} => k.sent = {} /\ k.acked = {} /\ k.receipt = {}
    /\ \A l \in k.lifetime, a \in k.sent \cup k.acked \cup k.receipt : a.id = l.id

\* Publications carry growing versions, under a lifetime the helper knows.
Versions(h, k, up) ==
    /\ h.version <= k.version
    /\ \A i \in Ups(up, "Publish") :
         /\ up[i].rec.version \in (h.version + 1)..k.version
         /\ up[i].rec.id \in 1..h.drawn
         /\ up[i].rec.id = h.drawn => h.lifetime = {LifeOf(up[i].rec)}
    /\ \A i, j \in Ups(up, "Publish") : i < j => up[i].rec.version < up[j].rec.version

\* Answers and binds are of lifetimes already drawn, and learnt by Core.
Learnt(h, a, down) == a.id \in 1..h.drawn /\ \A j \in News(down) : a.id < down[j].id

AcksLearnt(h, k, up, down) ==
    /\ \A i \in Ups(up, "Publish") : \A j \in News(down) : up[i].rec.id < down[j].id
    /\ \A i \in Ups(up, "Bind") : Learnt(h, up[i].rec.ack, down)
    /\ \A j \in Downs(down, "Ack") \cup Downs(down, "Bound") : Learnt(h, down[j].ack, down)
    /\ \A p \in h.pending \cup h.receipt : Learnt(h, p.ack, down)

\* The publication of the current lifetime: on its way, pending, or bound and
\* not yet known to be; one of these, and Core counts it as sent.
CurPubs(h, up) == {i \in Ups(up, "Publish") : up[i].rec.id = h.drawn}
CurAcks(h, down) == {i \in Downs(down, "Ack") : down[i].ack.id = h.drawn}
CurBounds(h, down) == {i \in Downs(down, "Bound") : down[i].ack.id = h.drawn}
CurBinds(h, up) == {i \in Ups(up, "Bind") : up[i].rec.ack.id = h.drawn}

SentIs(h, k, a) == (\E l \in k.lifetime : l.id = h.drawn) => k.sent = {a}

OneRound(h, k, up, down) ==
    /\ \A i \in CurPubs(h, up) :
         /\ h.pending = {} /\ CurBounds(h, down) = {} /\ SentIs(h, k, AckOf(up[i].rec))
         /\ \A j \in CurPubs(h, up) : i = j
         /\ \A a \in k.receipt : a.id # h.drawn
    /\ \A p \in h.pending : CurBounds(h, down) = {} /\ SentIs(h, k, p.ack)
    /\ \A i \in CurBounds(h, down) :
         /\ SentIs(h, k, down[i].ack)
         /\ \A j \in CurBounds(h, down) : i = j
         /\ \E r \in h.receipt : r.ack = down[i].ack

\* Its acknowledgement: on its way to Core, with Core, or on its way back in a
\* bind; one of these, and the helper has it pending.
PendingIs(h, a) == \E p \in h.pending : p.ack = a

OneProof(h, k, up, down) ==
    /\ \A i \in CurAcks(h, down) :
         /\ PendingIs(h, down[i].ack) /\ CurBinds(h, up) = {} /\ \A a \in k.acked : a.id # h.drawn
         /\ \A j \in CurAcks(h, down) : i = j
    /\ \A a \in k.acked : a.id = h.drawn => PendingIs(h, a) /\ CurBinds(h, up) = {}
    /\ \A i \in CurBinds(h, up) :
         /\ PendingIs(h, up[i].rec.ack)
         /\ \A j \in CurBinds(h, up) : i = j

\* The current lifetime has a holder, and its receipt is known to Core or on its way.
Invalidating(h, up) == \E i \in Ups(up, "Invalidate") : up[i].rec.id = h.drawn

CurrentHeld(h, k, up, down) ==
    /\ h.phase # "AwaitingEstablish" =>
         \/ \E j \in News(down) : down[j].id = h.drawn
         \/ \E l \in k.lifetime : l.id = h.drawn
         \/ Invalidating(h, up)
    /\ \A i \in Downs(down, "Invalidate") : \E j \in News(down) : i < j /\ down[j].id = h.drawn

Receipts(h, k, up, down) ==
    /\ \A r \in h.receipt :
         \/ \E i \in CurBounds(h, down) : down[i].ack = r.ack
         \/ r.ack \in k.receipt \/ CurPubs(h, up) # {} \/ Invalidating(h, up)
    /\ \A a \in k.receipt : a.id = h.drawn => \E r \in h.receipt : r.ack = a

Talk(h, k, up, down) ==
    /\ InStep(h, k, up) /\ Current(h) /\ Lives(h, k, up, down) /\ OneHolder(k, up, down)
    /\ Turns(k, down) /\ CoreTidy(k) /\ Versions(h, k, up) /\ AcksLearnt(h, k, up, down)
    /\ OneRound(h, k, up, down) /\ OneProof(h, k, up, down)
    /\ CurrentHeld(h, k, up, down) /\ Receipts(h, k, up, down)

\* The registry is as the helper announced it, unless it moved on its own.
ViewTrue(h, k, v) ==
    ~k.drifted => /\ \A l \in h.lifetime : l.rev = v.rev
                  /\ \A r \in h.receipt : r.bytes = v.bytes /\ r.ack.rev = v.rev

Conforming == ~core.rogue /\ helper.phase # "Revoked"

TalkInv == Conforming => Talk(helper, core, toHelper, toCore) /\ ViewTrue(helper, core, view)

WithdrawnInv ==
    /\ core.withdrawn => helper.phase = "Revoked" \/ \E i \in DOMAIN toHelper : Withdrawing(toHelper[i].rec)
    /\ \A j \in Downs(toCore, "Error") : helper.phase = "Revoked"

-----------------------------------------------------------------------------
(* What a step of either end does to the streams. *)
IsSeq(s) == Len(s) \in Nat /\ DOMAIN s = 1..Len(s)

\* t is s without its first d records.
Skips(s, t, d) == IsSeq(s) /\ IsSeq(t) /\ Len(s) = Len(t) + d /\ \A i \in 1..Len(t) : t[i] = s[i + d]

\* t is s and one record more.
Adds(s, t, f) == IsSeq(s) /\ IsSeq(t) /\ Len(t) = Len(s) + 1 /\ t[Len(t)] = f /\ \A i \in 1..Len(s) : t[i] = s[i]

\* t is s and the records of a new lifetime, announced at m.
Announces(s, t, m, l) ==
    /\ IsSeq(s) /\ IsSeq(t) /\ m \in {Len(s) + 1, Len(s) + 2} /\ Len(t) = m + 1
    /\ \A i \in 1..Len(s) : t[i] = s[i]
    /\ t[m].kind \in {"Established", "Lifetime"} /\ LifeOf(t[m]) = l /\ t[m].id = l.id
    /\ t[m + 1].kind = "Projection"
    /\ m = Len(s) + 2 => t[m - 1].kind = "Invalidate"

\* g is h under its next lifetime l.
Follows(h, g, l) ==
    /\ g.phase = "Ready" /\ g.drawn = h.drawn + 1 /\ g.lifetime = {l} /\ l.id = g.drawn
    /\ h.drawn >= 1 => g.predecessor = h.lifetime
    /\ g.pending = {} /\ g.receipt = {} /\ g.version = h.version

LEMMA AnnouncedAt ==
    ASSUME NEW s, NEW t, NEW m, NEW l, Announces(s, t, m, l)
    PROVE  /\ News(t) = News(s) \cup {m} /\ News(s) \subseteq 1..Len(s) /\ m \in Nat /\ m > Len(s)
           /\ Downs(t, "Ack") = Downs(s, "Ack") /\ Downs(t, "Bound") = Downs(s, "Bound")
           /\ Downs(s, "Invalidate") \subseteq Downs(t, "Invalidate")
           /\ Downs(t, "Invalidate") \subseteq Downs(s, "Invalidate") \cup {m - 1}
           /\ m = Len(s) + 2 => m - 1 \in Downs(t, "Invalidate")
           /\ \A i \in DOMAIN s : t[i] = s[i]
  <1>1. /\ Len(s) \in Nat /\ DOMAIN s = 1..Len(s) /\ DOMAIN t = 1..(m + 1)
        /\ m = Len(s) + 1 \/ m = Len(s) + 2
        /\ \A i \in 1..Len(s) : t[i] = s[i]
        /\ t[m].kind \in {"Established", "Lifetime"} /\ t[m + 1].kind = "Projection"
        /\ m = Len(s) + 2 => t[m - 1].kind = "Invalidate"
    BY DEF Announces, IsSeq
  <1>2. \A i \in DOMAIN t : i \in DOMAIN s \/ i = m \/ i = m + 1 \/ (i = m - 1 /\ m = Len(s) + 2)
    BY <1>1
  <1>3. m \in DOMAIN t /\ m + 1 \in DOMAIN t /\ DOMAIN s \subseteq DOMAIN t /\ (m = Len(s) + 2 => m - 1 \in DOMAIN t)
    BY <1>1
  <1>4. News(t) = News(s) \cup {m}
    BY <1>1, <1>2, <1>3 DEF News, Downs
  <1>5. Downs(t, "Ack") = Downs(s, "Ack")
    BY <1>1, <1>2, <1>3 DEF Downs
  <1>6. Downs(t, "Bound") = Downs(s, "Bound")
    BY <1>1, <1>2, <1>3 DEF Downs
  <1>7. Downs(s, "Invalidate") \subseteq Downs(t, "Invalidate")
        /\ Downs(t, "Invalidate") \subseteq Downs(s, "Invalidate") \cup {m - 1}
    BY <1>1, <1>2, <1>3 DEF Downs
  <1>8. m = Len(s) + 2 => m - 1 \in Downs(t, "Invalidate")
    BY <1>1, <1>3 DEF Downs
  <1> QED
    BY <1>1, <1>4, <1>5, <1>6, <1>7, <1>8 DEF News, Downs

\* What was at i is at i - d.
LEMMA Skipped ==
    ASSUME NEW s, NEW t, NEW d \in 0..1, Skips(s, t, d)
    PROVE  /\ \A i \in DOMAIN t : i \in Nat /\ i >= 1 /\ i + d \in DOMAIN s /\ t[i] = s[i + d]
           /\ \A kind : \A i \in Ups(t, kind) : i + d \in Ups(s, kind) /\ t[i] = s[i + d] /\ i \in Nat
           /\ \A kind : \A i \in Ups(s, kind) : i \in Nat /\ (i # d => i - d \in Ups(t, kind) /\ t[i - d] = s[i])
  <1>1. /\ Len(s) \in Nat /\ DOMAIN s = 1..Len(s) /\ DOMAIN t = 1..Len(t) /\ Len(s) = Len(t) + d /\ Len(t) \in Nat
        /\ \A i \in 1..Len(t) : t[i] = s[i + d]
    BY DEF Skips, IsSeq
  <1>2. \A i \in DOMAIN t : i \in Nat /\ i >= 1 /\ i + d \in DOMAIN s /\ t[i] = s[i + d]
    BY <1>1
  <1>3. \A i \in DOMAIN s : i \in Nat /\ (i # d => i - d \in DOMAIN t /\ t[i - d] = s[i])
    BY <1>1
  <1> QED
    BY <1>2, <1>3 DEF Ups

(* A new lifetime: nothing on either stream is of it but its announcement. *)
LEMMA Renews ==
    ASSUME NEW h \in HelperT, NEW g \in HelperT, NEW k \in CoreT, NEW up, NEW up2, NEW down, NEW down2,
           NEW d \in 0..1, NEW m, NEW l,
           Talk(h, k, up, down), Follows(h, g, l), Skips(up, up2, d), g.in = h.in + d,
           d = 0 => h.phase # "AwaitingEstablish", d = 1 => up # <<>>,
           Announces(down, down2, m, l), m = Len(down) + 1 => k.lifetime = {} /\ News(down) = {}
    PROVE  Talk(g, k, up2, down2)
  <1>1. /\ g.phase = "Ready" /\ g.drawn = h.drawn + 1 /\ g.lifetime = {l} /\ l.id = g.drawn
        /\ h.drawn >= 1 => g.predecessor = h.lifetime
        /\ g.pending = {} /\ g.receipt = {} /\ g.version = h.version
    BY DEF Follows
  <1>2. h.drawn \in Nat /\ h.in \in Nat /\ g.in \in Nat /\ h.version \in Nat /\ k.version \in Nat /\ k.seq \in Nat
    BY DEF HelperT, CoreT
  <1>3. /\ \A i \in DOMAIN up2 : i \in Nat /\ i >= 1 /\ i + d \in DOMAIN up /\ up2[i] = up[i + d]
        /\ \A kind : \A i \in Ups(up2, kind) : i + d \in Ups(up, kind) /\ up2[i] = up[i + d] /\ i \in Nat
    BY Skipped
  <1>4. /\ News(down2) = News(down) \cup {m} /\ News(down) \subseteq 1..Len(down) /\ m \in Nat /\ m > Len(down)
        /\ Downs(down2, "Ack") = Downs(down, "Ack") /\ Downs(down2, "Bound") = Downs(down, "Bound")
        /\ Downs(down, "Invalidate") \subseteq Downs(down2, "Invalidate")
        /\ Downs(down2, "Invalidate") \subseteq Downs(down, "Invalidate") \cup {m - 1}
        /\ m = Len(down) + 2 => m - 1 \in Downs(down2, "Invalidate")
        /\ \A i \in DOMAIN down : down2[i] = down[i]
    BY AnnouncedAt
  <1>5. LifeOf(down2[m]) = l /\ down2[m].id = h.drawn + 1 /\ Len(down) \in Nat /\ DOMAIN down = 1..Len(down)
        /\ m \in {Len(down) + 1, Len(down) + 2}
    BY <1>1 DEF Announces, IsSeq
  <1>6. Len(up) = Len(up2) + d /\ Len(up2) \in Nat /\ Len(up) \in Nat
    BY DEF Skips, IsSeq
  <1>7. /\ InStep(h, k, up) /\ Current(h) /\ Lives(h, k, up, down) /\ OneHolder(k, up, down)
        /\ Turns(k, down) /\ CoreTidy(k) /\ Versions(h, k, up) /\ AcksLearnt(h, k, up, down)
        /\ OneRound(h, k, up, down) /\ OneProof(h, k, up, down)
        /\ CurrentHeld(h, k, up, down) /\ Receipts(h, k, up, down)
    BY DEF Talk
  <1>8. InStep(g, k, up2)
    <2>1. k.seq = g.in + Len(up2)
      BY <1>2, <1>6, <1>7 DEF InStep
    <2>2. g.in # 0
      BY <1>2, <1>7 DEF InStep
    <2>3. ASSUME NEW i \in DOMAIN up2
          PROVE  /\ up2[i] = FrameOf(up2[i].rec) /\ up2[i].rec \in CoreSays
                 /\ up2[i].rec.seq = g.in + i
                 /\ up2[i].rec.kind = "Establish" <=> g.in + i = 1
                 /\ up2[i].rec.kind = "Establish" => up2[i].rec.echo
      <3>1. i \in Nat /\ i + d \in DOMAIN up /\ up2[i] = up[i + d] /\ h.in + (i + d) = g.in + i
        BY <1>2, <1>3
      <3> QED
        BY <1>7, <3>1 DEF InStep
    <2> QED
      BY <1>1, <2>1, <2>2, <2>3 DEF InStep
  <1>9. Current(g)
    BY <1>1, <1>2 DEF Current
  <1>10. ASSUME NEW x, Proper(h, x)
         PROVE  Proper(g, x) /\ x.id \in 1..h.drawn
    BY <1>1, <1>2, <1>10 DEF Proper
  <1>11. Lives(g, k, up2, down2)
    <2>1. Proper(g, l)
      BY <1>1, <1>2 DEF Proper
    <2>2. \A i \in Ups(up2, "Invalidate") : Proper(g, LifeOf(up2[i].rec))
      BY <1>3, <1>7, <1>10 DEF Lives
    <2>3. \A x \in k.lifetime : Proper(g, x)
      BY <1>7, <1>10 DEF Lives
    <2>4. \A j \in News(down2) : Proper(g, LifeOf(down2[j]))
      BY <1>4, <1>5, <1>7, <1>10, <2>1 DEF Lives
    <2> QED
      BY <2>2, <2>3, <2>4 DEF Lives
  <1>12. /\ \A i \in Ups(up, "Invalidate") : up[i].rec.id \in 1..h.drawn
         /\ \A x \in k.lifetime : x.id \in 1..h.drawn
         /\ \A j \in News(down) : down[j].id \in 1..h.drawn
    BY <1>7 DEF Lives, Proper, LifeOf
  <1>13. OneHolder(k, up2, down2)
    <2>1. \A i, j \in Ups(up2, "Invalidate") : i < j => up2[i].rec.id < up2[j].rec.id
      BY <1>3, <1>7 DEF OneHolder
    <2>2. \A i \in Ups(up2, "Invalidate"), x \in k.lifetime : up2[i].rec.id < x.id
      BY <1>3, <1>7 DEF OneHolder
    <2>3. ASSUME NEW i \in Ups(up2, "Invalidate"), NEW j \in News(down2)
          PROVE  up2[i].rec.id < down2[j].id
      <3>1. i + d \in Ups(up, "Invalidate") /\ up2[i] = up[i + d] /\ up[i + d].rec.id \in 1..h.drawn
        BY <1>3, <1>12
      <3>2. CASE j = m
        BY <1>2, <1>5, <3>1, <3>2
      <3>3. CASE j \in News(down)
        <4>1. down2[j] = down[j] /\ up[i + d].rec.id < down[j].id
          BY <1>4, <1>7, <3>1, <3>3 DEF OneHolder, News, Downs
        <4> QED
          BY <3>1, <4>1
      <3> QED
        BY <1>4, <3>2, <3>3
    <2>4. ASSUME NEW x \in k.lifetime, NEW j \in News(down2)
          PROVE  x.id < down2[j].id
      <3>2. CASE j = m
        BY <1>2, <1>5, <1>12, <3>2
      <3>3. CASE j \in News(down)
        <4>1. down2[j] = down[j]
          BY <1>4, <3>3 DEF News, Downs
        <4> QED
          BY <1>7, <4>1, <3>3 DEF OneHolder
      <3> QED
        BY <1>4, <3>2, <3>3
    <2>5. ASSUME NEW i \in News(down2), NEW j \in News(down2), i < j
          PROVE  down2[i].id < down2[j].id
      <3>1. i \in News(down)
        BY <1>4, <2>5
      <3>2. down2[i] = down[i] /\ down[i].id \in 1..h.drawn
        BY <1>4, <1>12, <3>1 DEF News, Downs
      <3>3. CASE j = m
        BY <1>2, <1>5, <3>2, <3>3
      <3>4. CASE j \in News(down)
        <4>1. down2[j] = down[j]
          BY <1>4, <3>4 DEF News, Downs
        <4> QED
          BY <1>7, <2>5, <3>1, <3>2, <3>4, <4>1 DEF OneHolder
      <3> QED
        BY <1>4, <3>3, <3>4
    <2> QED
      BY <1>7, <2>1, <2>2, <2>3, <2>4, <2>5 DEF OneHolder
  <1>14. Turns(k, down2)
    <2>1. ASSUME NEW j \in News(down2)
          PROVE  \/ j - 1 \in Downs(down2, "Invalidate")
                 \/ k.lifetime = {} /\ \A i \in News(down2) : j <= i
      <3>1. CASE j = m /\ m = Len(down) + 2
        BY <1>4, <3>1
      <3>2. CASE j = m /\ m = Len(down) + 1
        BY <1>4, <3>2
      <3>3. CASE j \in News(down)
        <4>1. CASE j - 1 \in Downs(down, "Invalidate")
          BY <1>4, <4>1
        <4>2. CASE k.lifetime = {} /\ \A i \in News(down) : j <= i
          BY <1>4, <1>5, <3>3, <4>2
        <4> QED
          BY <1>7, <3>3, <4>1, <4>2 DEF Turns
      <3> QED
        BY <1>4, <1>5, <3>1, <3>2, <3>3
    <2> QED
      BY <2>1 DEF Turns
  <1>15. Versions(g, k, up2)
    <2>1. ASSUME NEW i \in Ups(up2, "Publish")
          PROVE  /\ up2[i].rec.version \in (g.version + 1)..k.version
                 /\ up2[i].rec.id \in 1..g.drawn /\ up2[i].rec.id # g.drawn
      <3>1. i + d \in Ups(up, "Publish") /\ up2[i] = up[i + d]
        BY <1>3
      <3>2. up[i + d].rec.version \in (h.version + 1)..k.version /\ up[i + d].rec.id \in 1..h.drawn
        BY <1>7, <3>1 DEF Versions
      <3> QED
        BY <1>1, <1>2, <3>1, <3>2
    <2>2. \A i, j \in Ups(up2, "Publish") : i < j => up2[i].rec.version < up2[j].rec.version
      BY <1>3, <1>7 DEF Versions
    <2> QED
      BY <1>1, <1>7, <2>1, <2>2 DEF Versions
  <1>16. ASSUME NEW a, Learnt(h, a, down)
         PROVE  Learnt(g, a, down2) /\ a.id # g.drawn
    BY <1>1, <1>2, <1>4, <1>5, <1>16 DEF Learnt
  <1>17. AcksLearnt(g, k, up2, down2)
    <2>1. ASSUME NEW i \in Ups(up2, "Publish"), NEW j \in News(down2)
          PROVE  up2[i].rec.id < down2[j].id
      <3>1. i + d \in Ups(up, "Publish") /\ up2[i] = up[i + d] /\ up[i + d].rec.id \in 1..h.drawn
        BY <1>3, <1>7 DEF Versions
      <3> QED
        BY <1>2, <1>4, <1>5, <1>7, <3>1 DEF AcksLearnt
    <2>2. \A i \in Ups(up2, "Bind") : Learnt(g, up2[i].rec.ack, down2)
      BY <1>3, <1>7, <1>16 DEF AcksLearnt
    <2>3. \A j \in Downs(down2, "Ack") \cup Downs(down2, "Bound") : Learnt(g, down2[j].ack, down2)
      BY <1>4, <1>7, <1>16 DEF AcksLearnt, Downs
    <2> QED
      BY <1>1, <2>1, <2>2, <2>3 DEF AcksLearnt
  <1>18. CurPubs(g, up2) = {} /\ CurBinds(g, up2) = {} /\ CurAcks(g, down2) = {} /\ CurBounds(g, down2) = {}
    <2>1. CurPubs(g, up2) = {}
      BY <1>1, <1>2, <1>3, <1>7 DEF Versions, CurPubs
    <2>2. CurBinds(g, up2) = {}
      BY <1>3, <1>7, <1>16 DEF AcksLearnt, CurBinds
    <2>3. CurAcks(g, down2) = {} /\ CurBounds(g, down2) = {}
      BY <1>4, <1>7, <1>16 DEF AcksLearnt, CurAcks, CurBounds, Downs
    <2> QED
      BY <2>1, <2>2, <2>3
  <1>19. \A a \in k.sent \cup k.acked \cup k.receipt : a.id # g.drawn
    BY <1>1, <1>2, <1>7, <1>12 DEF CoreTidy
  <1>20. OneRound(g, k, up2, down2)
    BY <1>1, <1>18 DEF OneRound
  <1>21. OneProof(g, k, up2, down2)
    BY <1>18, <1>19 DEF OneProof
  <1>22. CurrentHeld(g, k, up2, down2)
    BY <1>1, <1>4, <1>5, <1>7 DEF CurrentHeld, Downs
  <1>23. Receipts(g, k, up2, down2)
    BY <1>1, <1>19 DEF Receipts
  <1> QED
    BY <1>7, <1>8, <1>9, <1>11, <1>13, <1>14, <1>15, <1>17, <1>20, <1>21, <1>22, <1>23 DEF Talk

LEMMA SkippedDown ==
    ASSUME NEW s, NEW t, NEW d \in 0..1, Skips(s, t, d)
    PROVE  /\ \A kind : \A i \in Downs(t, kind) : i + d \in Downs(s, kind) /\ t[i] = s[i + d] /\ i \in Nat /\ i >= 1
           /\ \A kind : \A i \in Downs(s, kind) :
                i \in Nat /\ i >= 1 /\ (i # d => i - d \in Downs(t, kind) /\ t[i - d] = s[i])
           /\ \A i \in News(t) : i + d \in News(s) /\ t[i] = s[i + d] /\ i \in Nat /\ i >= 1
           /\ \A i \in News(s) : i \in Nat /\ i >= 1 /\ (i # d => i - d \in News(t) /\ t[i - d] = s[i])
  <1>1. /\ Len(s) \in Nat /\ DOMAIN s = 1..Len(s) /\ DOMAIN t = 1..Len(t) /\ Len(s) = Len(t) + d /\ Len(t) \in Nat
        /\ \A i \in 1..Len(t) : t[i] = s[i + d]
    BY DEF Skips, IsSeq
  <1>2. \A i \in DOMAIN t : i \in Nat /\ i >= 1 /\ i + d \in DOMAIN s /\ t[i] = s[i + d]
    BY <1>1
  <1>3. \A i \in DOMAIN s : i \in Nat /\ i >= 1 /\ (i # d => i - d \in DOMAIN t /\ t[i - d] = s[i])
    BY <1>1
  <1>4. \A kind : \A i \in Downs(t, kind) : i + d \in Downs(s, kind) /\ t[i] = s[i + d] /\ i \in Nat /\ i >= 1
    BY <1>2 DEF Downs
  <1>5. \A kind : \A i \in Downs(s, kind) :
          i \in Nat /\ i >= 1 /\ (i # d => i - d \in Downs(t, kind) /\ t[i - d] = s[i])
    BY <1>3 DEF Downs
  <1> QED
    BY <1>4, <1>5 DEF News

LEMMA AddedUp ==
    ASSUME NEW s, NEW t, NEW f, Adds(s, t, f)
    PROVE  /\ \A kind : f.rec.kind = kind => Ups(t, kind) = Ups(s, kind) \cup {Len(t)}
           /\ \A kind : f.rec.kind # kind => Ups(t, kind) = Ups(s, kind)
           /\ \A kind : \A i \in Ups(s, kind) : t[i] = s[i] /\ i \in Nat /\ i < Len(t)
           /\ t[Len(t)] = f /\ Len(t) \in Nat
  <1>1. /\ Len(s) \in Nat /\ DOMAIN s = 1..Len(s) /\ DOMAIN t = 1..Len(t) /\ Len(t) = Len(s) + 1
        /\ t[Len(t)] = f /\ \A i \in 1..Len(s) : t[i] = s[i]
    BY DEF Adds, IsSeq
  <1>2. DOMAIN t = DOMAIN s \cup {Len(t)} /\ Len(t) \notin DOMAIN s
    BY <1>1
  <1>3. \A i \in DOMAIN s : t[i] = s[i] /\ i \in Nat /\ i < Len(t)
    BY <1>1
  <1>4. ASSUME NEW kind
        PROVE  /\ f.rec.kind = kind => Ups(t, kind) = Ups(s, kind) \cup {Len(t)}
               /\ f.rec.kind # kind => Ups(t, kind) = Ups(s, kind)
    BY <1>1, <1>2, <1>3 DEF Ups
  <1>5. \A kind : \A i \in Ups(s, kind) : t[i] = s[i] /\ i \in Nat /\ i < Len(t)
    BY <1>3 DEF Ups
  <1> QED
    BY <1>1, <1>4, <1>5

LEMMA AddedDomain ==
    ASSUME NEW s, NEW t, NEW f, Adds(s, t, f)
    PROVE  /\ \A i \in DOMAIN t : i = Len(t) \/ i \in DOMAIN s
           /\ \A i \in DOMAIN s : t[i] = s[i]
           /\ Len(t) = Len(s) + 1 /\ Len(s) \in Nat /\ t[Len(t)] = f
  BY DEF Adds, IsSeq

LEMMA AddedDown ==
    ASSUME NEW s, NEW t, NEW f, Adds(s, t, f)
    PROVE  /\ \A kind : f.kind = kind => Downs(t, kind) = Downs(s, kind) \cup {Len(t)}
           /\ \A kind : f.kind # kind => Downs(t, kind) = Downs(s, kind)
           /\ \A kind : \A i \in Downs(s, kind) : t[i] = s[i] /\ i \in Nat /\ i < Len(t)
           /\ t[Len(t)] = f /\ Len(t) \in Nat
  <1>1. /\ Len(s) \in Nat /\ DOMAIN s = 1..Len(s) /\ DOMAIN t = 1..Len(t) /\ Len(t) = Len(s) + 1
        /\ t[Len(t)] = f /\ \A i \in 1..Len(s) : t[i] = s[i]
    BY DEF Adds, IsSeq
  <1>2. DOMAIN t = DOMAIN s \cup {Len(t)} /\ Len(t) \notin DOMAIN s
    BY <1>1
  <1>3. \A i \in DOMAIN s : t[i] = s[i] /\ i \in Nat /\ i < Len(t)
    BY <1>1
  <1>4. ASSUME NEW kind
        PROVE  /\ f.kind = kind => Downs(t, kind) = Downs(s, kind) \cup {Len(t)}
               /\ f.kind # kind => Downs(t, kind) = Downs(s, kind)
    BY <1>1, <1>2, <1>3 DEF Downs
  <1>5. \A kind : \A i \in Downs(s, kind) : t[i] = s[i] /\ i \in Nat /\ i < Len(t)
    BY <1>3 DEF Downs
  <1> QED
    BY <1>1, <1>4, <1>5

(* What says something of every record on a stream is kept when one is read. *)
LEMMA Fewer ==
    ASSUME NEW h, NEW k, NEW up, NEW up2, NEW down, NEW down2, NEW d \in 0..1, NEW e \in 0..1,
           Lives(h, k, up, down), OneHolder(k, up, down), Versions(h, k, up), AcksLearnt(h, k, up, down),
           Skips(up, up2, d), Skips(down, down2, e)
    PROVE  Lives(h, k, up2, down2) /\ OneHolder(k, up2, down2) /\ Versions(h, k, up2) /\ AcksLearnt(h, k, up2, down2)
  <1>1. \A kind : \A i \in Ups(up2, kind) : i + d \in Ups(up, kind) /\ up2[i] = up[i + d] /\ i \in Nat
    BY Skipped
  <1>2. /\ \A kind : \A i \in Downs(down2, kind) : i + e \in Downs(down, kind) /\ down2[i] = down[i + e]
        /\ \A i \in News(down2) : i + e \in News(down) /\ down2[i] = down[i + e] /\ i \in Nat
    BY SkippedDown
  <1>3. Lives(h, k, up2, down2)
    BY <1>1, <1>2 DEF Lives
  <1>4. OneHolder(k, up2, down2)
    <2>1. \A i, j \in Ups(up2, "Invalidate") : i < j => up2[i].rec.id < up2[j].rec.id
      BY <1>1 DEF OneHolder
    <2>2. \A i \in Ups(up2, "Invalidate"), x \in k.lifetime : up2[i].rec.id < x.id
      BY <1>1 DEF OneHolder
    <2>3. \A i \in Ups(up2, "Invalidate"), j \in News(down2) : up2[i].rec.id < down2[j].id
      BY <1>1, <1>2 DEF OneHolder
    <2>4. \A x \in k.lifetime, j \in News(down2) : x.id < down2[j].id
      BY <1>2 DEF OneHolder
    <2>5. \A i, j \in News(down2) : i < j => down2[i].id < down2[j].id
      BY <1>2 DEF OneHolder
    <2> QED
      BY <2>1, <2>2, <2>3, <2>4, <2>5 DEF OneHolder
  <1>5. Versions(h, k, up2)
    BY <1>1 DEF Versions
  <1>6. ASSUME NEW a, Learnt(h, a, down) PROVE Learnt(h, a, down2)
    BY <1>2, <1>6 DEF Learnt
  <1>7. AcksLearnt(h, k, up2, down2)
    <2>1. \A i \in Ups(up2, "Publish") : \A j \in News(down2) : up2[i].rec.id < down2[j].id
      BY <1>1, <1>2 DEF AcksLearnt
    <2>2. \A i \in Ups(up2, "Bind") : Learnt(h, up2[i].rec.ack, down2)
      BY <1>1, <1>6 DEF AcksLearnt
    <2>3. \A j \in Downs(down2, "Ack") \cup Downs(down2, "Bound") : Learnt(h, down2[j].ack, down2)
      BY <1>2, <1>6 DEF AcksLearnt
    <2>4. \A p \in h.pending \cup h.receipt : Learnt(h, p.ack, down2)
      BY <1>6 DEF AcksLearnt
    <2> QED
      BY <2>1, <2>2, <2>3, <2>4 DEF AcksLearnt
  <1> QED
    BY <1>3, <1>4, <1>5, <1>7

\* The announcements and invalidations on the way to Core are the same.
Beside(down, down2) ==
    /\ News(down2) = News(down) /\ Downs(down2, "Invalidate") = Downs(down, "Invalidate")
    /\ \A i \in News(down) : down2[i] = down[i]

\* g is h after a record that leaves the lifetime alone.
SameLife(h, g) ==
    /\ g.in = h.in + 1 /\ g.drawn = h.drawn /\ g.lifetime = h.lifetime
    /\ h.phase # "AwaitingEstablish" /\ g.phase # "AwaitingEstablish"

(* A record read that leaves the lifetime alone: what both streams say of lifetimes stays true. *)
LEMMA Reads ==
    ASSUME NEW h \in HelperT, NEW g \in HelperT, NEW k \in CoreT, NEW up, NEW up2, NEW down, NEW down2,
           Talk(h, k, up, down), Skips(up, up2, 1), SameLife(h, g), Beside(down, down2),
           up[1].rec.kind = "Invalidate" => up[1].rec.id # h.drawn,
           \/ g.predecessor = h.predecessor
           \/ up[1].rec.kind = "Invalidate" /\ h.predecessor = {LifeOf(up[1].rec)}
    PROVE  /\ InStep(g, k, up2) /\ Lives(g, k, up2, down2) /\ OneHolder(k, up2, down2)
           /\ Turns(k, down2) /\ CoreTidy(k) /\ CurrentHeld(g, k, up2, down2)
           /\ Invalidating(h, up) => Invalidating(g, up2)
  <1>1. /\ g.in = h.in + 1 /\ g.drawn = h.drawn /\ g.lifetime = h.lifetime
        /\ h.phase # "AwaitingEstablish" /\ g.phase # "AwaitingEstablish" /\ h.in \in Nat /\ h.drawn \in Nat
    BY DEF SameLife, HelperT
  <1>2. /\ InStep(h, k, up) /\ Current(h) /\ Lives(h, k, up, down) /\ OneHolder(k, up, down)
        /\ Turns(k, down) /\ CoreTidy(k) /\ CurrentHeld(h, k, up, down)
    BY DEF Talk
  <1>3. /\ \A i \in DOMAIN up2 : i \in Nat /\ i >= 1 /\ i + 1 \in DOMAIN up /\ up2[i] = up[i + 1]
        /\ \A kind : \A i \in Ups(up2, kind) : i + 1 \in Ups(up, kind) /\ up2[i] = up[i + 1] /\ i \in Nat
        /\ \A kind : \A i \in Ups(up, kind) : i \in Nat /\ (i # 1 => i - 1 \in Ups(up2, kind) /\ up2[i - 1] = up[i])
    BY Skipped
  <1>4. Len(up) = Len(up2) + 1 /\ Len(up2) \in Nat /\ DOMAIN up = 1..Len(up)
    BY DEF Skips, IsSeq
  <1>5. /\ News(down2) = News(down) /\ Downs(down2, "Invalidate") = Downs(down, "Invalidate")
        /\ \A i \in News(down) : down2[i] = down[i]
    BY DEF Beside
  <1>6. InStep(g, k, up2)
    <2>0. k.seq = h.in + Len(up)
      BY <1>2 DEF InStep
    <2>1. k.seq = g.in + Len(up2)
      BY <1>1, <1>4, <2>0
    <2>2. ASSUME NEW i \in DOMAIN up2
          PROVE  /\ up2[i] = FrameOf(up2[i].rec) /\ up2[i].rec \in CoreSays
                 /\ up2[i].rec.seq = g.in + i
                 /\ up2[i].rec.kind = "Establish" <=> g.in + i = 1
                 /\ up2[i].rec.kind = "Establish" => up2[i].rec.echo
      <3>1. i + 1 \in DOMAIN up /\ up2[i] = up[i + 1] /\ h.in + (i + 1) = g.in + i
        BY <1>1, <1>3
      <3> QED
        BY <1>2, <3>1 DEF InStep
    <2>3. g.in # 0
      BY <1>1
    <2> QED
      BY <1>1, <2>1, <2>2, <2>3 DEF InStep
  <1>7. 1 \in DOMAIN up /\ (up[1].rec.kind = "Invalidate" => 1 \in Ups(up, "Invalidate"))
    BY <1>4 DEF Ups
  <1>8. ASSUME NEW x, Proper(h, x), up[1].rec.kind = "Invalidate" => up[1].rec.id < x.id
        PROVE  Proper(g, x)
    <2>1. CASE g.predecessor = h.predecessor
      BY <1>1, <1>8, <2>1 DEF Proper
    <2>2. CASE up[1].rec.kind = "Invalidate" /\ h.predecessor = {LifeOf(up[1].rec)}
      <3>1. x.id \in 1..h.drawn /\ up[1].rec.id < x.id
        BY <1>8, <2>2 DEF Proper
      <3>2. LifeOf(up[1].rec).id = up[1].rec.id
        BY DEF LifeOf
      <3>3. up[1].rec.id \in 1..h.drawn
        BY <1>2, <1>7, <2>2, <3>2 DEF Lives, Proper
      <3>4. x.id + 1 # h.drawn
        BY <1>8, <2>2, <3>1, <3>2, <3>3 DEF Proper
      <3> QED
        BY <1>1, <1>8, <3>4 DEF Proper
    <2> QED
      BY <2>1, <2>2
  <1>9. Lives(g, k, up2, down2)
    <2>1. ASSUME NEW i \in Ups(up2, "Invalidate") PROVE Proper(g, LifeOf(up2[i].rec))
      <3>1. i + 1 \in Ups(up, "Invalidate") /\ up2[i] = up[i + 1] /\ 1 < i + 1
        BY <1>3 DEF Ups
      <3>2. up[1].rec.kind = "Invalidate" => up[1].rec.id < up[i + 1].rec.id
        BY <1>2, <1>7, <3>1 DEF OneHolder
      <3>3. LifeOf(up2[i].rec).id = up[i + 1].rec.id /\ Proper(h, LifeOf(up2[i].rec))
        BY <1>2, <3>1 DEF Lives, LifeOf
      <3> QED
        BY <1>8, <3>2, <3>3
    <2>2. \A x \in k.lifetime : Proper(g, x)
      BY <1>2, <1>7, <1>8 DEF Lives, OneHolder
    <2>3. ASSUME NEW j \in News(down2) PROVE Proper(g, LifeOf(down2[j]))
      <3>1. LifeOf(down2[j]).id = down[j].id /\ Proper(h, LifeOf(down2[j]))
        BY <1>2, <1>5 DEF Lives, LifeOf
      <3> QED
        BY <1>2, <1>5, <1>7, <1>8, <3>1 DEF OneHolder
    <2> QED
      BY <2>1, <2>2, <2>3 DEF Lives
  <1>10. OneHolder(k, up2, down2)
    <2>1. \A i, j \in Ups(up2, "Invalidate") : i < j => up2[i].rec.id < up2[j].rec.id
      BY <1>2, <1>3 DEF OneHolder
    <2>2. \A i \in Ups(up2, "Invalidate"), x \in k.lifetime : up2[i].rec.id < x.id
      BY <1>2, <1>3 DEF OneHolder
    <2>3. \A i \in Ups(up2, "Invalidate"), j \in News(down2) : up2[i].rec.id < down2[j].id
      BY <1>2, <1>3, <1>5 DEF OneHolder
    <2>4. \A x \in k.lifetime, j \in News(down2) : x.id < down2[j].id
      BY <1>2, <1>5 DEF OneHolder
    <2>5. \A i, j \in News(down2) : i < j => down2[i].id < down2[j].id
      BY <1>2, <1>5 DEF OneHolder
    <2> QED
      BY <1>2, <2>1, <2>2, <2>3, <2>4, <2>5 DEF OneHolder
  <1>11. Turns(k, down2)
    BY <1>2, <1>5 DEF Turns
  <1>12. Invalidating(h, up) => Invalidating(g, up2)
    <2>1. ASSUME NEW i \in Ups(up, "Invalidate"), up[i].rec.id = h.drawn PROVE Invalidating(g, up2)
      <3>1. i # 1
        BY <2>1 DEF Ups
      <3> QED
        BY <1>1, <1>3, <2>1, <3>1 DEF Invalidating
    <2> QED
      BY <2>1 DEF Invalidating
  <1>13. CurrentHeld(g, k, up2, down2)
    <2>1. \/ \E j \in News(down2) : down2[j].id = g.drawn
          \/ \E l \in k.lifetime : l.id = g.drawn
          \/ Invalidating(g, up2)
      BY <1>1, <1>2, <1>5, <1>12 DEF CurrentHeld
    <2>2. \A i \in Downs(down2, "Invalidate") : \E j \in News(down2) : i < j /\ down2[j].id = g.drawn
      BY <1>1, <1>2, <1>5 DEF CurrentHeld
    <2> QED
      BY <2>1, <2>2 DEF CurrentHeld
  <1> QED
    BY <1>2, <1>6, <1>9, <1>10, <1>11, <1>12, <1>13

(* Publish -> Ack: nothing of the current lifetime was under way but the publication read. *)
LEMMA TakesPublish ==
    ASSUME NEW h \in HelperT, NEW g \in HelperT, NEW k \in CoreT, NEW up, NEW up2, NEW down, NEW down2, NEW f,
           Talk(h, k, up, down), Skips(up, up2, 1), SameLife(h, g), Adds(down, down2, f),
           up[1].rec.kind = "Publish", h.lifetime = {LifeOf(up[1].rec)}, f.kind = "Ack", f.ack = AckOf(up[1].rec),
           g.predecessor = h.predecessor, g.receipt = {}, g.version = up[1].rec.version,
           \E p : g.pending = {p} /\ p.ack = AckOf(up[1].rec)
    PROVE  Talk(g, k, up2, down2)
  <1> DEFINE rec == up[1].rec
  <1>1. /\ g.in = h.in + 1 /\ g.drawn = h.drawn /\ g.lifetime = h.lifetime
        /\ h.phase # "AwaitingEstablish" /\ g.phase # "AwaitingEstablish" /\ h.in \in Nat /\ h.drawn \in Nat
    BY DEF SameLife, HelperT
  <1>2. /\ InStep(h, k, up) /\ Current(h) /\ Lives(h, k, up, down) /\ OneHolder(k, up, down)
        /\ Turns(k, down) /\ CoreTidy(k) /\ Versions(h, k, up) /\ AcksLearnt(h, k, up, down)
        /\ OneRound(h, k, up, down) /\ OneProof(h, k, up, down)
        /\ CurrentHeld(h, k, up, down) /\ Receipts(h, k, up, down)
    BY DEF Talk
  <1>3. /\ \A kind : \A i \in Ups(up2, kind) : i + 1 \in Ups(up, kind) /\ up2[i] = up[i + 1] /\ i \in Nat /\ i >= 1
    BY Skipped DEF Ups
  <1>4. /\ \A kind : f.kind = kind => Downs(down2, kind) = Downs(down, kind) \cup {Len(down2)}
        /\ \A kind : f.kind # kind => Downs(down2, kind) = Downs(down, kind)
        /\ \A kind : \A i \in Downs(down, kind) : down2[i] = down[i] /\ i \in Nat /\ i < Len(down2)
        /\ down2[Len(down2)] = f
    BY AddedDown
  <1>5. /\ Downs(down2, "Established") = Downs(down, "Established") /\ Downs(down2, "Lifetime") = Downs(down, "Lifetime")
        /\ Downs(down2, "Invalidate") = Downs(down, "Invalidate") /\ Downs(down2, "Bound") = Downs(down, "Bound")
        /\ Downs(down2, "Ack") = Downs(down, "Ack") \cup {Len(down2)}
    BY <1>4
  <1>6. Beside(down, down2)
    BY <1>4, <1>5 DEF Beside, News
  <1>7. /\ InStep(g, k, up2) /\ Lives(g, k, up2, down2) /\ OneHolder(k, up2, down2)
        /\ Turns(k, down2) /\ CoreTidy(k) /\ CurrentHeld(g, k, up2, down2)
    BY <1>6, Reads
  <1>8. /\ rec.id = h.drawn /\ rec.id >= 1 /\ AckOf(rec).id = h.drawn
    BY <1>1, <1>2 DEF Current, LifeOf, AckOf
  <1>9. 1 \in Ups(up, "Publish") /\ 1 \in CurPubs(h, up)
    BY <1>8 DEF CurPubs, Ups, Skips, IsSeq
  <1>10. /\ h.pending = {} /\ CurBounds(h, down) = {} /\ SentIs(h, k, AckOf(rec))
         /\ \A j \in CurPubs(h, up) : j = 1
         /\ \A a \in k.receipt : a.id # h.drawn
    BY <1>2, <1>9 DEF OneRound
  <1>11. CurAcks(h, down) = {} /\ CurBinds(h, up) = {} /\ \A a \in k.acked : a.id # h.drawn
    BY <1>2, <1>10 DEF OneProof, PendingIs
  <1>12. CurPubs(g, up2) = {}
    BY <1>1, <1>3, <1>10 DEF CurPubs
  <1>13. CurBounds(g, down2) = {}
    BY <1>1, <1>4, <1>5, <1>10 DEF CurBounds
  <1>14. CurBinds(g, up2) = {}
    BY <1>1, <1>3, <1>11 DEF CurBinds
  <1>15. CurAcks(g, down2) \subseteq {Len(down2)}
    BY <1>1, <1>4, <1>5, <1>11 DEF CurAcks
  <1>16. PICK p : g.pending = {p} /\ p.ack = AckOf(rec)
    OBVIOUS
  <1>17. Current(g)
    BY <1>1, <1>2, <1>8, <1>16 DEF Current
  <1>18. Versions(g, k, up2)
    <2>1. rec.version \in (h.version + 1)..k.version /\ h.version \in Nat /\ k.version \in Nat
      BY <1>2, <1>9 DEF Versions, HelperT, CoreT
    <2>2. ASSUME NEW i \in Ups(up2, "Publish")
          PROVE  /\ up2[i].rec.version \in (g.version + 1)..k.version
                 /\ up2[i].rec.id \in 1..g.drawn
                 /\ up2[i].rec.id = g.drawn => g.lifetime = {LifeOf(up2[i].rec)}
      <3>1. i + 1 \in Ups(up, "Publish") /\ up2[i] = up[i + 1] /\ 1 < i + 1
        BY <1>3
      <3>2. rec.version < up[i + 1].rec.version
        BY <1>2, <1>9, <3>1 DEF Versions
      <3>3. /\ up[i + 1].rec.version \in (h.version + 1)..k.version
            /\ up[i + 1].rec.id \in 1..h.drawn
            /\ up[i + 1].rec.id = h.drawn => h.lifetime = {LifeOf(up[i + 1].rec)}
        BY <1>2, <3>1 DEF Versions
      <3> QED
        BY <1>1, <2>1, <3>1, <3>2, <3>3
    <2>3. \A i, j \in Ups(up2, "Publish") : i < j => up2[i].rec.version < up2[j].rec.version
      BY <1>2, <1>3 DEF Versions
    <2> QED
      BY <2>1, <2>2, <2>3 DEF Versions
  <1>19. AcksLearnt(g, k, up2, down2)
    <2>1. News(down2) = News(down) /\ \A i \in News(down) : down2[i] = down[i]
      BY <1>6 DEF Beside
    <2>2. ASSUME NEW a, Learnt(h, a, down) PROVE Learnt(g, a, down2)
      BY <1>1, <2>1, <2>2 DEF Learnt
    <2>3. Learnt(h, AckOf(rec), down)
      BY <1>1, <1>2, <1>8, <1>9 DEF AcksLearnt, Learnt, AckOf
    <2>4. \A i \in Ups(up2, "Publish") : \A j \in News(down2) : up2[i].rec.id < down2[j].id
      BY <1>2, <1>3, <2>1 DEF AcksLearnt
    <2>5. \A i \in Ups(up2, "Bind") : Learnt(g, up2[i].rec.ack, down2)
      BY <1>2, <1>3, <2>2 DEF AcksLearnt
    <2>6. \A j \in Downs(down2, "Ack") \cup Downs(down2, "Bound") : Learnt(g, down2[j].ack, down2)
      BY <1>2, <1>4, <1>5, <2>2, <2>3 DEF AcksLearnt
    <2>7. \A q \in g.pending \cup g.receipt : Learnt(g, q.ack, down2)
      BY <1>16, <2>2, <2>3
    <2> QED
      BY <2>4, <2>5, <2>6, <2>7 DEF AcksLearnt
  <1>20. OneRound(g, k, up2, down2)
    BY <1>1, <1>10, <1>12, <1>13, <1>16 DEF OneRound, SentIs
  <1>21. OneProof(g, k, up2, down2)
    BY <1>1, <1>4, <1>11, <1>14, <1>15, <1>16 DEF OneProof, PendingIs
  <1>22. Receipts(g, k, up2, down2)
    BY <1>1, <1>10 DEF Receipts
  <1> QED
    BY <1>7, <1>17, <1>18, <1>19, <1>20, <1>21, <1>22 DEF Talk

(* Bind -> Bound: the pending publication is used up, its receipt is on its way. *)
LEMMA TakesBind ==
    ASSUME NEW h \in HelperT, NEW g \in HelperT, NEW k \in CoreT, NEW up, NEW up2, NEW down, NEW down2, NEW f,
           Talk(h, k, up, down), Skips(up, up2, 1), SameLife(h, g), Adds(down, down2, f),
           up[1].rec.kind = "Bind", \E p \in h.pending : p.ack = up[1].rec.ack, f.kind = "Bound", f.ack = up[1].rec.ack,
           g.predecessor = h.predecessor, g.receipt = h.pending, g.version = h.version, g.pending = {}
    PROVE  Talk(g, k, up2, down2)
  <1> DEFINE rec == up[1].rec
  <1>1. /\ g.in = h.in + 1 /\ g.drawn = h.drawn /\ g.lifetime = h.lifetime
        /\ h.phase # "AwaitingEstablish" /\ g.phase # "AwaitingEstablish" /\ h.in \in Nat /\ h.drawn \in Nat
    BY DEF SameLife, HelperT
  <1>2. /\ InStep(h, k, up) /\ Current(h) /\ Lives(h, k, up, down) /\ OneHolder(k, up, down)
        /\ Turns(k, down) /\ CoreTidy(k) /\ Versions(h, k, up) /\ AcksLearnt(h, k, up, down)
        /\ OneRound(h, k, up, down) /\ OneProof(h, k, up, down)
        /\ CurrentHeld(h, k, up, down) /\ Receipts(h, k, up, down)
    BY DEF Talk
  <1>3. /\ \A kind : \A i \in Ups(up2, kind) : i + 1 \in Ups(up, kind) /\ up2[i] = up[i + 1] /\ i \in Nat /\ i >= 1
    BY Skipped DEF Ups
  <1>4. /\ \A kind : f.kind = kind => Downs(down2, kind) = Downs(down, kind) \cup {Len(down2)}
        /\ \A kind : f.kind # kind => Downs(down2, kind) = Downs(down, kind)
        /\ \A kind : \A i \in Downs(down, kind) : down2[i] = down[i] /\ i \in Nat /\ i < Len(down2)
        /\ down2[Len(down2)] = f
    BY AddedDown
  <1>5. /\ Downs(down2, "Established") = Downs(down, "Established") /\ Downs(down2, "Lifetime") = Downs(down, "Lifetime")
        /\ Downs(down2, "Invalidate") = Downs(down, "Invalidate") /\ Downs(down2, "Ack") = Downs(down, "Ack")
        /\ Downs(down2, "Bound") = Downs(down, "Bound") \cup {Len(down2)}
    BY <1>4
  <1>6. Beside(down, down2)
    BY <1>4, <1>5 DEF Beside, News
  <1>7. /\ InStep(g, k, up2) /\ Lives(g, k, up2, down2) /\ OneHolder(k, up2, down2)
        /\ Turns(k, down2) /\ CoreTidy(k) /\ CurrentHeld(g, k, up2, down2)
    BY <1>6, Reads
  <1>8. PICK p \in h.pending : p.ack = rec.ack
    OBVIOUS
  <1>9. rec.ack.id = h.drawn /\ h.pending = {p}
    BY <1>2, <1>8 DEF Current
  <1>10. 1 \in Ups(up, "Bind") /\ 1 \in CurBinds(h, up)
    BY <1>9 DEF CurBinds, Ups, Skips, IsSeq
  <1>11. /\ CurPubs(h, up) = {} /\ CurBounds(h, down) = {} /\ SentIs(h, k, rec.ack)
    BY <1>2, <1>8 DEF OneRound
  <1>12. /\ CurAcks(h, down) = {} /\ \A a \in k.acked : a.id # h.drawn
         /\ \A j \in CurBinds(h, up) : j = 1
    BY <1>2, <1>10 DEF OneProof
  <1>13. CurPubs(g, up2) = {}
    BY <1>1, <1>3, <1>11 DEF CurPubs
  <1>14. CurBinds(g, up2) = {}
    BY <1>1, <1>3, <1>12 DEF CurBinds
  <1>15. CurAcks(g, down2) = {}
    BY <1>1, <1>4, <1>5, <1>12 DEF CurAcks
  <1>16. CurBounds(g, down2) = {Len(down2)}
    BY <1>1, <1>4, <1>5, <1>9, <1>11 DEF CurBounds
  <1>17. Current(g)
    BY <1>1, <1>2, <1>9 DEF Current
  <1>18. Versions(g, k, up2)
    BY <1>1, <1>2, <1>3 DEF Versions
  <1>19. AcksLearnt(g, k, up2, down2)
    <2>1. News(down2) = News(down) /\ \A i \in News(down) : down2[i] = down[i]
      BY <1>6 DEF Beside
    <2>2. ASSUME NEW a, Learnt(h, a, down) PROVE Learnt(g, a, down2)
      BY <1>1, <2>1, <2>2 DEF Learnt
    <2>4. \A i \in Ups(up2, "Publish") : \A j \in News(down2) : up2[i].rec.id < down2[j].id
      BY <1>2, <1>3, <2>1 DEF AcksLearnt
    <2>5. \A i \in Ups(up2, "Bind") : Learnt(g, up2[i].rec.ack, down2)
      BY <1>2, <1>3, <2>2 DEF AcksLearnt
    <2>6. \A j \in Downs(down2, "Ack") \cup Downs(down2, "Bound") : Learnt(g, down2[j].ack, down2)
      BY <1>2, <1>4, <1>5, <1>10, <2>2 DEF AcksLearnt
    <2>7. \A q \in g.pending \cup g.receipt : Learnt(g, q.ack, down2)
      BY <1>2, <2>2 DEF AcksLearnt
    <2> QED
      BY <2>4, <2>5, <2>6, <2>7 DEF AcksLearnt
  <1>20. OneRound(g, k, up2, down2)
    BY <1>1, <1>4, <1>8, <1>11, <1>13, <1>16 DEF OneRound, SentIs
  <1>21. OneProof(g, k, up2, down2)
    BY <1>1, <1>12, <1>14, <1>15 DEF OneProof
  <1>22. Receipts(g, k, up2, down2)
    <2>1. \A a \in k.receipt : a.id # h.drawn
      BY <1>2, <1>11 DEF CoreTidy, SentIs
    <2> QED
      BY <1>1, <1>4, <1>8, <1>9, <1>16, <2>1 DEF Receipts
  <1> QED
    BY <1>7, <1>17, <1>18, <1>19, <1>20, <1>21, <1>22 DEF Talk

(* An invalidation our own rotation overtook: it is used up. *)
LEMMA TakesCrossed ==
    ASSUME NEW h \in HelperT, NEW g \in HelperT, NEW k \in CoreT, NEW up, NEW up2, NEW down,
           Talk(h, k, up, down), Skips(up, up2, 1), IsSeq(down), SameLife(h, g),
           up[1].rec.kind = "Invalidate", h.predecessor = {LifeOf(up[1].rec)}, h.lifetime # {LifeOf(up[1].rec)},
           g.receipt = h.receipt, g.version = h.version, g.pending = h.pending
    PROVE  Talk(g, k, up2, down)
  <1>1. /\ g.in = h.in + 1 /\ g.drawn = h.drawn /\ g.lifetime = h.lifetime
        /\ h.phase # "AwaitingEstablish" /\ g.phase # "AwaitingEstablish" /\ h.in \in Nat /\ h.drawn \in Nat
    BY DEF SameLife, HelperT
  <1>2. /\ InStep(h, k, up) /\ Current(h) /\ Lives(h, k, up, down) /\ OneHolder(k, up, down)
        /\ Turns(k, down) /\ CoreTidy(k) /\ Versions(h, k, up) /\ AcksLearnt(h, k, up, down)
        /\ OneRound(h, k, up, down) /\ OneProof(h, k, up, down)
        /\ CurrentHeld(h, k, up, down) /\ Receipts(h, k, up, down)
    BY DEF Talk
  <1>3. /\ \A kind : \A i \in Ups(up2, kind) : i + 1 \in Ups(up, kind) /\ up2[i] = up[i + 1] /\ i \in Nat
        /\ \A kind : \A i \in Ups(up, kind) : i \in Nat /\ (i # 1 => i - 1 \in Ups(up2, kind) /\ up2[i - 1] = up[i])
    BY Skipped
  <1>4. 1 \in Ups(up, "Invalidate") /\ 1 \notin Ups(up, "Publish")
    BY DEF Ups, Skips, IsSeq
  <1>5. up[1].rec.id # h.drawn
    BY <1>2, <1>4 DEF Lives, Proper, LifeOf
  <1>6. Beside(down, down)
    BY DEF Beside
  <1>7. /\ InStep(g, k, up2) /\ Lives(g, k, up2, down) /\ OneHolder(k, up2, down)
        /\ Turns(k, down) /\ CoreTidy(k) /\ CurrentHeld(g, k, up2, down)
        /\ Invalidating(h, up) => Invalidating(g, up2)
    BY <1>5, <1>6, Reads
  <1>8. Skips(down, down, 0)
    BY DEF Skips, IsSeq
  <1>9. Versions(h, k, up2) /\ AcksLearnt(h, k, up2, down)
    BY <1>2, <1>8, Fewer
  <1>10. Versions(g, k, up2) /\ AcksLearnt(g, k, up2, down) /\ Current(g)
    BY <1>1, <1>2, <1>9 DEF Versions, AcksLearnt, Learnt, Current
  <1>11. /\ \A i \in CurPubs(g, up2) : i + 1 \in CurPubs(h, up) /\ up2[i] = up[i + 1] /\ i \in Nat
         /\ \A i \in CurBinds(g, up2) : i + 1 \in CurBinds(h, up) /\ up2[i] = up[i + 1] /\ i \in Nat
         /\ CurAcks(g, down) = CurAcks(h, down) /\ CurBounds(g, down) = CurBounds(h, down)
    BY <1>1, <1>3 DEF CurPubs, CurBinds, CurAcks, CurBounds
  <1>12. CurPubs(h, up) # {} => CurPubs(g, up2) # {}
    <2>1. ASSUME NEW i \in CurPubs(h, up) PROVE i - 1 \in CurPubs(g, up2)
      BY <1>1, <1>3, <1>4 DEF CurPubs
    <2> QED
      BY <2>1
  <1>13. OneRound(g, k, up2, down)
    BY <1>1, <1>2, <1>11 DEF OneRound, SentIs
  <1>14. OneProof(g, k, up2, down)
    BY <1>1, <1>2, <1>11 DEF OneProof, PendingIs
  <1>15. Receipts(g, k, up2, down)
    BY <1>1, <1>2, <1>7, <1>11, <1>12 DEF Receipts
  <1> QED
    BY <1>7, <1>10, <1>13, <1>14, <1>15 DEF Talk

\* f frames the record.
Framed(f, rec) == f.rec = rec /\ f = FrameOf(rec)

(* Core writes the next record in number. *)
LEMMA Writes ==
    ASSUME NEW h \in HelperT, NEW k \in CoreT, NEW k2, NEW up, NEW up2, NEW f, NEW rec \in CoreSays,
           InStep(h, k, up), Adds(up, up2, f), Framed(f, rec), rec.seq = k.seq + 1, k2.seq = k.seq + 1,
           rec.kind = "Establish" <=> k.seq = 0, rec.kind = "Establish" => rec.echo
    PROVE  InStep(h, k2, up2)
  <1>1. f.rec = rec /\ f = FrameOf(f.rec)
    BY DEF Framed
  <1>2. /\ \A i \in DOMAIN up2 : i = Len(up2) \/ i \in DOMAIN up
        /\ \A i \in DOMAIN up : up2[i] = up[i]
        /\ Len(up2) = Len(up) + 1 /\ Len(up) \in Nat /\ up2[Len(up2)] = f
    BY AddedDomain
  <1>3. k.seq = h.in + Len(up) /\ h.in \in Nat /\ k.seq \in Nat
    BY DEF InStep, HelperT, CoreT
  <1>6. k.seq + 1 = h.in + Len(up2)
    <2>1. Len(up2) = Len(up) + 1 /\ Len(up) \in Nat
      BY <1>2
    <2> QED
      BY <1>3, <2>1
  <1>4. k2.seq = h.in + Len(up2)
    BY <1>6
  <1>5. ASSUME NEW i \in DOMAIN up2
        PROVE  /\ up2[i] = FrameOf(up2[i].rec) /\ up2[i].rec \in CoreSays
               /\ up2[i].rec.seq = h.in + i
               /\ up2[i].rec.kind = "Establish" <=> h.in + i = 1
               /\ up2[i].rec.kind = "Establish" => up2[i].rec.echo
    <2>1. CASE i \in DOMAIN up
      BY <1>2, <2>1 DEF InStep
    <2>2. CASE i = Len(up2)
      <3>1. up2[i] = f /\ h.in + i = k.seq + 1 /\ (h.in + i = 1 <=> k.seq = 0)
        BY <1>2, <1>3, <1>6, <2>2
      <3> QED
        BY <1>1, <3>1
    <2> QED
      BY <1>2, <2>1, <2>2
  <1> QED
    BY <1>1, <1>4, <1>5 DEF InStep

\* A Core that knows a lifetime has established.
LEMMA Spoke ==
    ASSUME NEW h \in HelperT, NEW k \in CoreT, NEW up, NEW down, Talk(h, k, up, down), IsSeq(up), k.lifetime # {}
    PROVE  k.seq # 0 /\ h.phase # "AwaitingEstablish"
  <1>1. PICK l \in k.lifetime : Proper(h, l)
    BY DEF Talk, Lives
  <1>2. h.drawn # 0 /\ h.drawn \in Nat
    BY <1>1 DEF Proper, HelperT
  <1>3. h.phase # "AwaitingEstablish"
    BY <1>2 DEF Talk, Current
  <1>4. h.in # 0 /\ k.seq = h.in + Len(up) /\ h.in \in Nat /\ k.seq \in Nat
    BY <1>3 DEF Talk, InStep, HelperT, CoreT
  <1> QED
    BY <1>3, <1>4 DEF IsSeq

(* Core establishes, or reports an error. *)
LEMMA CoreAnnounces ==
    ASSUME NEW h \in HelperT, NEW k \in CoreT, NEW k2, NEW up, NEW up2, NEW down, NEW f, NEW rec \in CoreSays,
           Talk(h, k, up, down), Adds(up, up2, f), Framed(f, rec), rec.seq = k.seq + 1, k2.seq = k.seq + 1,
           rec.kind \in {"Establish", "Error"}, rec.kind = "Establish" <=> k.seq = 0, rec.kind = "Establish" => rec.echo,
           k2.lifetime = k.lifetime, k2.sent = k.sent, k2.acked = k.acked, k2.receipt = k.receipt,
           k2.version = k.version
    PROVE  Talk(h, k2, up2, down)
  <1>2. /\ InStep(h, k, up) /\ Current(h) /\ Lives(h, k, up, down) /\ OneHolder(k, up, down)
        /\ Turns(k, down) /\ CoreTidy(k) /\ Versions(h, k, up) /\ AcksLearnt(h, k, up, down)
        /\ OneRound(h, k, up, down) /\ OneProof(h, k, up, down)
        /\ CurrentHeld(h, k, up, down) /\ Receipts(h, k, up, down)
    BY DEF Talk
  <1>1. InStep(h, k2, up2) /\ f.rec = rec
    BY <1>2, Writes DEF Framed
  <1>3. /\ \A kind : f.rec.kind # kind => Ups(up2, kind) = Ups(up, kind)
        /\ \A kind : \A i \in Ups(up, kind) : up2[i] = up[i]
    BY AddedUp
  <1>4. /\ Ups(up2, "Publish") = Ups(up, "Publish") /\ Ups(up2, "Bind") = Ups(up, "Bind")
        /\ Ups(up2, "Invalidate") = Ups(up, "Invalidate")
    BY <1>1, <1>3
  <1>5. Lives(h, k2, up2, down) /\ OneHolder(k2, up2, down) /\ Turns(k2, down) /\ CoreTidy(k2)
    BY <1>2, <1>3, <1>4 DEF Lives, OneHolder, Turns, CoreTidy
  <1>6. Versions(h, k2, up2) /\ AcksLearnt(h, k2, up2, down)
    BY <1>2, <1>3, <1>4 DEF Versions, AcksLearnt
  <1>7. CurPubs(h, up2) = CurPubs(h, up) /\ CurBinds(h, up2) = CurBinds(h, up)
    BY <1>3, <1>4 DEF CurPubs, CurBinds
  <1>8. \A i \in CurPubs(h, up) \cup CurBinds(h, up) : up2[i] = up[i]
    BY <1>3 DEF CurPubs, CurBinds
  <1>9. OneRound(h, k2, up2, down) /\ OneProof(h, k2, up2, down)
    BY <1>2, <1>7, <1>8 DEF OneRound, OneProof, SentIs
  <1>10. Invalidating(h, up2) <=> Invalidating(h, up)
    BY <1>3, <1>4 DEF Invalidating
  <1>11. CurrentHeld(h, k2, up2, down) /\ Receipts(h, k2, up2, down)
    BY <1>2, <1>7, <1>10 DEF CurrentHeld, Receipts
  <1> QED
    BY <1>1, <1>2, <1>5, <1>6, <1>9, <1>11 DEF Talk

(* Core publishes what it was projected, once at a time. *)
LEMMA CorePublishes ==
    ASSUME NEW h \in HelperT, NEW k \in CoreT, NEW k2, NEW up, NEW up2, NEW down, NEW f, NEW rec \in CoreSays, NEW l \in k.lifetime,
           Talk(h, k, up, down), Adds(up, up2, f), Framed(f, rec), rec.seq = k.seq + 1, k2.seq = k.seq + 1,
           rec.kind = "Publish", LifeOf(rec) = l, rec.id = l.id, rec.version = k.version + 1, k.sent = {},
           k2.lifetime = k.lifetime, k2.sent = {AckOf(rec)}, k2.acked = k.acked, k2.receipt = {},
           k2.version = k.version + 1
    PROVE  Talk(h, k2, up2, down)
  <1>2. /\ InStep(h, k, up) /\ Current(h) /\ Lives(h, k, up, down) /\ OneHolder(k, up, down)
        /\ Turns(k, down) /\ CoreTidy(k) /\ Versions(h, k, up) /\ AcksLearnt(h, k, up, down)
        /\ OneRound(h, k, up, down) /\ OneProof(h, k, up, down)
        /\ CurrentHeld(h, k, up, down) /\ Receipts(h, k, up, down)
    BY DEF Talk
  <1>0. k.seq # 0 /\ h.phase # "AwaitingEstablish"
    BY Spoke DEF Adds
  <1>1. InStep(h, k2, up2) /\ f.rec = rec
    BY <1>0, <1>2, Writes DEF Framed
  <1>3. /\ \A kind : f.rec.kind # kind => Ups(up2, kind) = Ups(up, kind)
        /\ \A kind : f.rec.kind = kind => Ups(up2, kind) = Ups(up, kind) \cup {Len(up2)}
        /\ \A kind : \A i \in Ups(up, kind) : up2[i] = up[i] /\ i \in Nat /\ i < Len(up2)
        /\ up2[Len(up2)] = f /\ Len(up2) \in Nat
    BY AddedUp
  <1>4. /\ Ups(up2, "Publish") = Ups(up, "Publish") \cup {Len(up2)} /\ Ups(up2, "Bind") = Ups(up, "Bind")
        /\ Ups(up2, "Invalidate") = Ups(up, "Invalidate")
    BY <1>1, <1>3
  <1>5. AckOf(rec).id = l.id /\ \A m \in k.lifetime : m = l
    BY <1>2 DEF AckOf, OneHolder
  <1>6. Lives(h, k2, up2, down) /\ OneHolder(k2, up2, down) /\ Turns(k2, down)
    BY <1>2, <1>3, <1>4 DEF Lives, OneHolder, Turns
  <1>7. CoreTidy(k2)
    BY <1>2, <1>5 DEF CoreTidy
  <1>8. l.id \in 1..h.drawn /\ (l.id = h.drawn => h.lifetime = {LifeOf(rec)})
    BY <1>2 DEF Lives, Proper
  <1>9. Versions(h, k2, up2)
    <2>1. h.version \in Nat /\ k.version \in Nat /\ h.version <= k.version
      BY <1>2 DEF Versions, HelperT, CoreT
    <2>2. ASSUME NEW i \in Ups(up2, "Publish")
          PROVE  /\ up2[i].rec.version \in (h.version + 1)..k2.version
                 /\ up2[i].rec.id \in 1..h.drawn
                 /\ up2[i].rec.id = h.drawn => h.lifetime = {LifeOf(up2[i].rec)}
      <3>1. CASE i = Len(up2)
        BY <1>1, <1>3, <1>8, <2>1, <3>1
      <3>2. CASE i \in Ups(up, "Publish")
        <4>1. /\ up[i].rec.version \in (h.version + 1)..k.version
              /\ up[i].rec.id \in 1..h.drawn
              /\ up[i].rec.id = h.drawn => h.lifetime = {LifeOf(up[i].rec)}
          BY <1>2, <3>2 DEF Versions
        <4> QED
          BY <1>3, <2>1, <3>2, <4>1
      <3> QED
        BY <1>4, <3>1, <3>2
    <2>3. ASSUME NEW i \in Ups(up2, "Publish"), NEW j \in Ups(up2, "Publish"), i < j
          PROVE  up2[i].rec.version < up2[j].rec.version
      <3>1. i \in Ups(up, "Publish") /\ up2[i] = up[i]
        BY <1>3, <1>4, <2>3
      <3>2. CASE j = Len(up2)
        <4>1. up[i].rec.version \in (h.version + 1)..k.version
          BY <1>2, <3>1 DEF Versions
        <4> QED
          BY <1>1, <1>3, <2>1, <3>1, <3>2, <4>1
      <3>3. CASE j \in Ups(up, "Publish")
        BY <1>2, <1>3, <2>3, <3>1, <3>3 DEF Versions
      <3> QED
        BY <1>4, <3>2, <3>3
    <2> QED
      BY <2>1, <2>2, <2>3 DEF Versions
  <1>10. AcksLearnt(h, k2, up2, down)
    <2>1. \A i \in Ups(up2, "Publish") : \A j \in News(down) : up2[i].rec.id < down[j].id
      BY <1>1, <1>2, <1>3, <1>4 DEF AcksLearnt, OneHolder
    <2> QED
      BY <1>2, <1>3, <1>4, <2>1 DEF AcksLearnt
  <1>11. CurBinds(h, up2) = CurBinds(h, up) /\ \A i \in CurBinds(h, up) : up2[i] = up[i]
    BY <1>3, <1>4 DEF CurBinds
  <1>12. OneProof(h, k2, up2, down)
    BY <1>2, <1>11 DEF OneProof
  <1>13. Invalidating(h, up2) <=> Invalidating(h, up)
    BY <1>3, <1>4 DEF Invalidating
  <1>14. CurrentHeld(h, k2, up2, down)
    BY <1>2, <1>13 DEF CurrentHeld
  <1>15. CASE l.id = h.drawn
    <2>1. CurPubs(h, up) = {} /\ h.pending = {} /\ CurBounds(h, down) = {}
      BY <1>2, <1>15 DEF OneRound, SentIs
    <2>2. CurPubs(h, up2) = {Len(up2)}
      BY <1>1, <1>3, <1>4, <1>15, <2>1 DEF CurPubs
    <2>3. OneRound(h, k2, up2, down)
      BY <1>1, <1>3, <2>1, <2>2 DEF OneRound, SentIs
    <2>4. Receipts(h, k2, up2, down)
      BY <2>2 DEF Receipts
    <2> QED
      BY <1>1, <1>2, <1>6, <1>7, <1>9, <1>10, <1>12, <1>14, <2>3, <2>4 DEF Talk
  <1>16. CASE l.id # h.drawn
    <2>1. CurPubs(h, up2) = CurPubs(h, up) /\ \A i \in CurPubs(h, up) : up2[i] = up[i]
      BY <1>1, <1>3, <1>4, <1>16 DEF CurPubs
    <2>2. \A a : SentIs(h, k2, a)
      BY <1>5, <1>16 DEF SentIs
    <2>3. OneRound(h, k2, up2, down)
      BY <1>2, <2>1, <2>2 DEF OneRound
    <2>4. ASSUME NEW r \in h.receipt PROVE r.ack \notin k.receipt
      BY <1>2, <1>16 DEF CoreTidy, Current
    <2>5. Receipts(h, k2, up2, down)
      BY <1>2, <1>13, <2>1, <2>4 DEF Receipts
    <2> QED
      BY <1>1, <1>2, <1>6, <1>7, <1>9, <1>10, <1>12, <1>14, <2>3, <2>5 DEF Talk
  <1> QED
    BY <1>15, <1>16

(* Core binds what was acknowledged. *)
LEMMA CoreBinds ==
    ASSUME NEW h \in HelperT, NEW k \in CoreT, NEW k2, NEW up, NEW up2, NEW down, NEW f, NEW rec \in CoreSays,
           Talk(h, k, up, down), Adds(up, up2, f), Framed(f, rec), rec.seq = k.seq + 1, k2.seq = k.seq + 1,
           rec.kind = "Bind", rec.ack \in k.acked,
           k2.lifetime = k.lifetime, k2.sent = k.sent, k2.acked = {}, k2.receipt = k.receipt, k2.version = k.version
    PROVE  Talk(h, k2, up2, down)
  <1>2. /\ InStep(h, k, up) /\ Current(h) /\ Lives(h, k, up, down) /\ OneHolder(k, up, down)
        /\ Turns(k, down) /\ CoreTidy(k) /\ Versions(h, k, up) /\ AcksLearnt(h, k, up, down)
        /\ OneRound(h, k, up, down) /\ OneProof(h, k, up, down)
        /\ CurrentHeld(h, k, up, down) /\ Receipts(h, k, up, down)
    BY DEF Talk
  <1>0. PICK l \in k.lifetime : rec.ack.id = l.id
    BY <1>2 DEF CoreTidy
  <1>00. k.seq # 0
    BY <1>0, Spoke DEF Adds
  <1>1. InStep(h, k2, up2) /\ f.rec = rec
    BY <1>00, <1>2, Writes DEF Framed
  <1>3. /\ \A kind : f.rec.kind # kind => Ups(up2, kind) = Ups(up, kind)
        /\ \A kind : f.rec.kind = kind => Ups(up2, kind) = Ups(up, kind) \cup {Len(up2)}
        /\ \A kind : \A i \in Ups(up, kind) : up2[i] = up[i] /\ i \in Nat /\ i < Len(up2)
        /\ up2[Len(up2)] = f /\ Len(up2) \in Nat
    BY AddedUp
  <1>4. /\ Ups(up2, "Bind") = Ups(up, "Bind") \cup {Len(up2)} /\ Ups(up2, "Publish") = Ups(up, "Publish")
        /\ Ups(up2, "Invalidate") = Ups(up, "Invalidate")
    BY <1>1, <1>3
  <1>5. Lives(h, k2, up2, down) /\ OneHolder(k2, up2, down) /\ Turns(k2, down) /\ CoreTidy(k2) /\ Versions(h, k2, up2)
    BY <1>2, <1>3, <1>4 DEF Lives, OneHolder, Turns, CoreTidy, Versions
  <1>6. Learnt(h, rec.ack, down)
    BY <1>0, <1>2 DEF Learnt, OneHolder, Lives, Proper
  <1>7. AcksLearnt(h, k2, up2, down)
    <2>1. \A i \in Ups(up2, "Bind") : Learnt(h, up2[i].rec.ack, down)
      BY <1>1, <1>2, <1>3, <1>4, <1>6 DEF AcksLearnt
    <2> QED
      BY <1>2, <1>3, <1>4, <2>1 DEF AcksLearnt
  <1>8. CurPubs(h, up2) = CurPubs(h, up) /\ \A i \in CurPubs(h, up) : up2[i] = up[i]
    BY <1>3, <1>4 DEF CurPubs
  <1>9. OneRound(h, k2, up2, down)
    BY <1>2, <1>8 DEF OneRound, SentIs
  <1>10. Invalidating(h, up2) <=> Invalidating(h, up)
    BY <1>3, <1>4 DEF Invalidating
  <1>11. CurrentHeld(h, k2, up2, down) /\ Receipts(h, k2, up2, down)
    BY <1>2, <1>8, <1>10 DEF CurrentHeld, Receipts
  <1>12. OneProof(h, k2, up2, down)
    <2>1. CASE rec.ack.id = h.drawn
      <3>1. CurAcks(h, down) = {} /\ CurBinds(h, up) = {} /\ PendingIs(h, rec.ack)
        BY <1>2, <2>1 DEF OneProof
      <3>2. CurBinds(h, up2) \subseteq {Len(up2)}
        BY <1>3, <1>4, <3>1 DEF CurBinds
      <3> QED
        BY <1>1, <1>3, <3>1, <3>2 DEF OneProof
    <2>2. CASE rec.ack.id # h.drawn
      <3>1. CurBinds(h, up2) = CurBinds(h, up) /\ \A i \in CurBinds(h, up) : up2[i] = up[i]
        BY <1>1, <1>3, <1>4, <2>2 DEF CurBinds
      <3> QED
        BY <1>2, <3>1 DEF OneProof
    <2> QED
      BY <2>1, <2>2
  <1> QED
    BY <1>1, <1>2, <1>5, <1>7, <1>9, <1>11, <1>12 DEF Talk

(* Core invalidates the lifetime it knows, and forgets all of it. *)
LEMMA CoreInvalidates ==
    ASSUME NEW h \in HelperT, NEW k \in CoreT, NEW k2, NEW up, NEW up2, NEW down, NEW f, NEW rec \in CoreSays,
           NEW l \in k.lifetime,
           Talk(h, k, up, down), Adds(up, up2, f), Framed(f, rec), rec.seq = k.seq + 1, k2.seq = k.seq + 1,
           rec.kind = "Invalidate", LifeOf(rec) = l, rec.id = l.id,
           k2.lifetime = {}, k2.sent = {}, k2.acked = {}, k2.receipt = {}, k2.version = k.version
    PROVE  Talk(h, k2, up2, down)
  <1>2. /\ InStep(h, k, up) /\ Current(h) /\ Lives(h, k, up, down) /\ OneHolder(k, up, down)
        /\ Turns(k, down) /\ CoreTidy(k) /\ Versions(h, k, up) /\ AcksLearnt(h, k, up, down)
        /\ OneRound(h, k, up, down) /\ OneProof(h, k, up, down)
        /\ CurrentHeld(h, k, up, down) /\ Receipts(h, k, up, down)
    BY DEF Talk
  <1>0. k.seq # 0
    BY Spoke DEF Adds
  <1>1. InStep(h, k2, up2) /\ f.rec = rec
    BY <1>0, <1>2, Writes DEF Framed
  <1>3. /\ \A kind : f.rec.kind # kind => Ups(up2, kind) = Ups(up, kind)
        /\ \A kind : f.rec.kind = kind => Ups(up2, kind) = Ups(up, kind) \cup {Len(up2)}
        /\ \A kind : \A i \in Ups(up, kind) : up2[i] = up[i] /\ i \in Nat /\ i < Len(up2)
        /\ up2[Len(up2)] = f /\ Len(up2) \in Nat
    BY AddedUp
  <1>4. /\ Ups(up2, "Bind") = Ups(up, "Bind") /\ Ups(up2, "Publish") = Ups(up, "Publish")
        /\ Ups(up2, "Invalidate") = Ups(up, "Invalidate") \cup {Len(up2)}
    BY <1>1, <1>3
  <1>5. Lives(h, k2, up2, down)
    BY <1>1, <1>2, <1>3, <1>4 DEF Lives
  <1>6. OneHolder(k2, up2, down)
    <2>1. ASSUME NEW i \in Ups(up2, "Invalidate"), NEW j \in Ups(up2, "Invalidate"), i < j
          PROVE  up2[i].rec.id < up2[j].rec.id
      <3>1. i \in Ups(up, "Invalidate") /\ up2[i] = up[i]
        BY <1>3, <1>4, <2>1
      <3>2. CASE j = Len(up2)
        BY <1>1, <1>2, <1>3, <3>1, <3>2 DEF OneHolder
      <3>3. CASE j \in Ups(up, "Invalidate")
        BY <1>2, <1>3, <2>1, <3>1, <3>3 DEF OneHolder
      <3> QED
        BY <1>4, <3>2, <3>3
    <2>2. \A i \in Ups(up2, "Invalidate"), j \in News(down) : up2[i].rec.id < down[j].id
      BY <1>1, <1>2, <1>3, <1>4 DEF OneHolder
    <2> QED
      BY <1>2, <2>1, <2>2 DEF OneHolder
  <1>7. Turns(k2, down) /\ CoreTidy(k2) /\ Versions(h, k2, up2)
    BY <1>2, <1>3, <1>4 DEF Turns, CoreTidy, Versions
  <1>8. AcksLearnt(h, k2, up2, down)
    BY <1>2, <1>3, <1>4 DEF AcksLearnt
  <1>9. /\ CurPubs(h, up2) = CurPubs(h, up) /\ \A i \in CurPubs(h, up) : up2[i] = up[i]
        /\ CurBinds(h, up2) = CurBinds(h, up) /\ \A i \in CurBinds(h, up) : up2[i] = up[i]
    BY <1>3, <1>4 DEF CurPubs, CurBinds
  <1>10. OneRound(h, k2, up2, down) /\ OneProof(h, k2, up2, down)
    BY <1>2, <1>9 DEF OneRound, OneProof, SentIs
  <1>11. Invalidating(h, up) => Invalidating(h, up2)
    BY <1>3, <1>4 DEF Invalidating
  <1>12. l.id = h.drawn => Invalidating(h, up2)
    BY <1>1, <1>3, <1>4 DEF Invalidating
  <1>13. CurrentHeld(h, k2, up2, down)
    <2>1. \A m \in k.lifetime : m = l
      BY <1>2 DEF OneHolder
    <2> QED
      BY <1>2, <1>11, <1>12, <2>1 DEF CurrentHeld
  <1>14. Receipts(h, k2, up2, down)
    <2>1. ASSUME NEW r \in h.receipt, r.ack \in k.receipt PROVE l.id = h.drawn
      BY <1>2, <2>1 DEF CoreTidy, Current
    <2> QED
      BY <1>2, <1>9, <1>11, <1>12, <2>1 DEF Receipts
  <1> QED
    BY <1>1, <1>2, <1>5, <1>6, <1>7, <1>8, <1>10, <1>13, <1>14 DEF Talk

-----------------------------------------------------------------------------
(* Core reads a record. *)

\* The answers of the current lifetime are those of down, one place on.
OnePlaceOn(h, down, down2) ==
    /\ \A i \in CurAcks(h, down2) : i + 1 \in CurAcks(h, down) /\ down2[i] = down[i + 1] /\ i \in Nat /\ i >= 1
    /\ \A i \in CurBounds(h, down2) : i + 1 \in CurBounds(h, down) /\ down2[i] = down[i + 1] /\ i \in Nat /\ i >= 1
    /\ \A i \in CurBounds(h, down) : i # 1 => i - 1 \in CurBounds(h, down2) /\ down2[i - 1] = down[i]

LEMMA CoreReads ==
    ASSUME NEW h, NEW down, NEW down2, Skips(down, down2, 1)
    PROVE  OnePlaceOn(h, down, down2)
  <1>1. /\ \A kind : \A i \in Downs(down2, kind) : i + 1 \in Downs(down, kind) /\ down2[i] = down[i + 1] /\ i \in Nat /\ i >= 1
        /\ \A kind : \A i \in Downs(down, kind) :
             i \in Nat /\ i >= 1 /\ (i # 1 => i - 1 \in Downs(down2, kind) /\ down2[i - 1] = down[i])
    BY SkippedDown
  <1> QED
    BY <1>1 DEF CurAcks, CurBounds, OnePlaceOn

\* Everything kept of Core's under the record read: what the streams say of lifetimes.
LEMMA CoreReadsPlain ==
    ASSUME NEW h, NEW k, NEW up, NEW down, NEW down2, Talk(h, k, up, down), IsSeq(up), Skips(down, down2, 1),
           down[1].kind \notin {"Established", "Lifetime", "Invalidate"}
    PROVE  /\ InStep(h, k, up) /\ Current(h) /\ Lives(h, k, up, down2) /\ OneHolder(k, up, down2) /\ Turns(k, down2)
           /\ CoreTidy(k) /\ Versions(h, k, up) /\ AcksLearnt(h, k, up, down2) /\ CurrentHeld(h, k, up, down2)
  <1>2. /\ InStep(h, k, up) /\ Current(h) /\ Lives(h, k, up, down) /\ OneHolder(k, up, down)
        /\ Turns(k, down) /\ CoreTidy(k) /\ Versions(h, k, up) /\ AcksLearnt(h, k, up, down)
        /\ CurrentHeld(h, k, up, down)
    BY DEF Talk
  <1>3. /\ \A kind : \A i \in Downs(down2, kind) : i + 1 \in Downs(down, kind) /\ down2[i] = down[i + 1] /\ i \in Nat /\ i >= 1
        /\ \A kind : \A i \in Downs(down, kind) :
             i \in Nat /\ i >= 1 /\ (i # 1 => i - 1 \in Downs(down2, kind) /\ down2[i - 1] = down[i])
        /\ \A i \in News(down2) : i + 1 \in News(down) /\ down2[i] = down[i + 1] /\ i \in Nat /\ i >= 1
        /\ \A i \in News(down) : i \in Nat /\ i >= 1 /\ (i # 1 => i - 1 \in News(down2) /\ down2[i - 1] = down[i])
    BY SkippedDown
  <1>4. Skips(up, up, 0)
    BY DEF Skips, IsSeq
  <1>5. Lives(h, k, up, down2) /\ OneHolder(k, up, down2) /\ AcksLearnt(h, k, up, down2)
    BY <1>2, <1>4, Fewer
  <1>6. 1 \notin News(down) /\ 1 \notin Downs(down, "Invalidate")
    BY DEF News, Downs
  <1>7. Turns(k, down2)
    <2>1. ASSUME NEW j \in News(down2)
          PROVE  \/ j - 1 \in Downs(down2, "Invalidate")
                 \/ k.lifetime = {} /\ \A i \in News(down2) : j <= i
      <3>1. j + 1 \in News(down) /\ j \in Nat
        BY <1>3
      <3>2. CASE j \in Downs(down, "Invalidate")
        BY <1>3, <1>6, <3>2
      <3>3. CASE k.lifetime = {} /\ \A i \in News(down) : j + 1 <= i
        BY <1>3, <3>1, <3>3
      <3>4. (j + 1) - 1 = j
        BY <3>1
      <3> QED
        BY <1>2, <3>1, <3>2, <3>3, <3>4 DEF Turns
    <2> QED
      BY <2>1 DEF Turns
  <1>8. CurrentHeld(h, k, up, down2)
    <2>1. ASSUME NEW j \in News(down), down[j].id = h.drawn
          PROVE  j - 1 \in News(down2) /\ down2[j - 1].id = h.drawn /\ j \in Nat
      BY <1>3, <1>6, <2>1
    <2>2. h.phase # "AwaitingEstablish" =>
            \/ \E j \in News(down2) : down2[j].id = h.drawn
            \/ \E l \in k.lifetime : l.id = h.drawn
            \/ Invalidating(h, up)
      BY <1>2, <2>1 DEF CurrentHeld
    <2>3. ASSUME NEW i \in Downs(down2, "Invalidate")
          PROVE  \E j \in News(down2) : i < j /\ down2[j].id = h.drawn
      <3>1. i + 1 \in Downs(down, "Invalidate") /\ i \in Nat
        BY <1>3
      <3>2. PICK j \in News(down) : i + 1 < j /\ down[j].id = h.drawn
        BY <1>2, <3>1 DEF CurrentHeld
      <3>3. j - 1 \in News(down2) /\ down2[j - 1].id = h.drawn /\ j \in Nat
        BY <2>1, <3>2
      <3>4. i < j - 1
        BY <3>1, <3>2, <3>3
      <3> QED
        BY <3>3, <3>4
    <2> QED
      BY <2>2, <2>3 DEF CurrentHeld
  <1> QED
    BY <1>2, <1>5, <1>7, <1>8

(* A projection, or an answer that is not awaited, changes nothing of the handshake. *)
LEMMA CorePasses ==
    ASSUME NEW h \in HelperT, NEW k \in CoreT, NEW k2, NEW up, NEW down, NEW down2, Talk(h, k, up, down), IsSeq(up),
           Skips(down, down2, 1), down[1].kind \in {"Projection", "Ack"},
           k2.seq = k.seq, k2.version = k.version, k2.lifetime = k.lifetime, k2.sent = k.sent, k2.receipt = k.receipt,
           k2.acked = k.acked \/ (down[1].kind = "Ack" /\ k.sent = {down[1].ack} /\ k2.acked = {down[1].ack})
    PROVE  Talk(h, k2, up, down2)
  <1>1. /\ InStep(h, k, up) /\ Current(h) /\ Lives(h, k, up, down2) /\ OneHolder(k, up, down2) /\ Turns(k, down2)
        /\ CoreTidy(k) /\ Versions(h, k, up) /\ AcksLearnt(h, k, up, down2) /\ CurrentHeld(h, k, up, down2)
    BY CoreReadsPlain
  <1>2. OneRound(h, k, up, down) /\ OneProof(h, k, up, down) /\ Receipts(h, k, up, down)
    BY DEF Talk
  <1>3. OnePlaceOn(h, down, down2)
    BY CoreReads
  <1>d. 1 \in DOMAIN down
    BY DEF Skips, IsSeq
  <1>4. 1 \notin CurBounds(h, down)
    BY DEF CurBounds, Downs
  <1>5. InStep(h, k2, up) /\ Lives(h, k2, up, down2) /\ OneHolder(k2, up, down2) /\ Turns(k2, down2)
    BY <1>1 DEF InStep, Lives, OneHolder, Turns
  <1>6. Versions(h, k2, up) /\ AcksLearnt(h, k2, up, down2) /\ CurrentHeld(h, k2, up, down2)
    BY <1>1 DEF Versions, AcksLearnt, CurrentHeld
  <1>7. CoreTidy(k2)
    BY <1>1 DEF CoreTidy
  <1>8. OneRound(h, k2, up, down2)
    BY <1>2, <1>3 DEF OnePlaceOn, OneRound, SentIs
  <1>9. Receipts(h, k2, up, down2)
    BY <1>2, <1>3, <1>4 DEF OnePlaceOn, Receipts
  <1>10. OneProof(h, k2, up, down2)
    <2>1. CASE k2.acked = k.acked
      BY <1>2, <1>3, <2>1 DEF OnePlaceOn, OneProof
    <2>2. CASE down[1].kind = "Ack" /\ k2.acked = {down[1].ack} /\ down[1].ack.id = h.drawn
      <3>1. 1 \in CurAcks(h, down)
        BY <1>d, <2>2 DEF CurAcks, Downs
      <3>2. CurAcks(h, down2) = {}
        BY <1>2, <1>3, <3>1 DEF OnePlaceOn, OneProof
      <3> QED
        BY <1>2, <2>2, <3>1, <3>2 DEF OneProof
    <2>3. CASE down[1].kind = "Ack" /\ k2.acked = {down[1].ack} /\ down[1].ack.id # h.drawn
      BY <1>2, <1>3, <2>3 DEF OnePlaceOn, OneProof
    <2> QED
      BY <2>1, <2>2, <2>3
  <1> QED
    BY <1>1, <1>5, <1>6, <1>7, <1>8, <1>9, <1>10 DEF Talk

(* Bound: Core has its receipt, unless it has dropped the lifetime. *)
LEMMA CoreBound ==
    ASSUME NEW h \in HelperT, NEW k \in CoreT, NEW k2, NEW up, NEW down, NEW down2, Talk(h, k, up, down), IsSeq(up),
           Skips(down, down2, 1), down[1].kind = "Bound",
           k2.seq = k.seq, k2.version = k.version, k2.lifetime = k.lifetime, k2.acked = k.acked,
           \/ k.sent = {down[1].ack} /\ k2.sent = {} /\ k2.receipt = {down[1].ack}
           \/ k.sent # {down[1].ack} /\ k2.sent = k.sent /\ k2.receipt = k.receipt
    PROVE  Talk(h, k2, up, down2)
  <1> DEFINE a == down[1].ack
  <1>1. /\ InStep(h, k, up) /\ Current(h) /\ Lives(h, k, up, down2) /\ OneHolder(k, up, down2) /\ Turns(k, down2)
        /\ CoreTidy(k) /\ Versions(h, k, up) /\ AcksLearnt(h, k, up, down2) /\ CurrentHeld(h, k, up, down2)
    BY CoreReadsPlain
  <1>2. OneRound(h, k, up, down) /\ OneProof(h, k, up, down) /\ Receipts(h, k, up, down)
        /\ AcksLearnt(h, k, up, down) /\ CurrentHeld(h, k, up, down)
    BY DEF Talk
  <1>3. OnePlaceOn(h, down, down2)
    BY CoreReads
  <1>d. 1 \in DOMAIN down
    BY DEF Skips, IsSeq
  <1>5. InStep(h, k2, up) /\ Lives(h, k2, up, down2) /\ OneHolder(k2, up, down2) /\ Turns(k2, down2)
    BY <1>1 DEF InStep, Lives, OneHolder, Turns
  <1>6. Versions(h, k2, up) /\ AcksLearnt(h, k2, up, down2) /\ CurrentHeld(h, k2, up, down2)
    BY <1>1 DEF Versions, AcksLearnt, CurrentHeld
  <1>7. CoreTidy(k2)
    BY <1>1 DEF CoreTidy
  <1>8. OneProof(h, k2, up, down2)
    BY <1>2, <1>3 DEF OnePlaceOn, OneProof
  <1>9. CASE a.id = h.drawn
    <2>1. 1 \in CurBounds(h, down) /\ 1 \in Downs(down, "Bound")
      BY <1>d, <1>9 DEF CurBounds, Downs
    <2>2. /\ CurPubs(h, up) = {} /\ h.pending = {} /\ CurBounds(h, down2) = {} /\ SentIs(h, k, a)
          /\ \E r \in h.receipt : r.ack = a
      BY <1>2, <1>3, <2>1 DEF OnePlaceOn, OneRound
    <2>3. OneRound(h, k2, up, down2)
      BY <2>2 DEF OneRound
    <2>4. \A r \in h.receipt : r.ack = a
      BY <1>1, <2>2 DEF Current
    <2>5. ASSUME k.sent = {a} PROVE Receipts(h, k2, up, down2)
      BY <2>2, <2>4, <2>5 DEF Receipts
    <2>6. ASSUME k.sent # {a} PROVE Receipts(h, k2, up, down2)
      <3>1. h.phase # "AwaitingEstablish"
        BY <1>1, <2>2 DEF Current
      <3>2. Learnt(h, a, down)
        BY <1>2, <2>1 DEF AcksLearnt
      <3>3. \A j \in News(down) : down[j].id # h.drawn
        BY <1>9, <3>2 DEF Learnt, HelperT
      <3>4. Invalidating(h, up)
        BY <1>2, <2>2, <2>6, <3>1, <3>3 DEF CurrentHeld, SentIs
      <3> QED
        BY <1>2, <2>6, <3>4 DEF Receipts
    <2> QED
      BY <1>1, <1>5, <1>6, <1>7, <1>8, <2>3, <2>5, <2>6 DEF Talk
  <1>10. CASE a.id # h.drawn
    <2>1. 1 \notin CurBounds(h, down)
      BY <1>10 DEF CurBounds
    <2>2. CASE k.sent = {a}
      <3>1. \A l \in k.lifetime : l.id # h.drawn
        BY <1>1, <1>10, <2>2 DEF CoreTidy
      <3>2. \A x : SentIs(h, k2, x)
        BY <3>1 DEF SentIs
      <3>3. OneRound(h, k2, up, down2)
        BY <1>2, <1>3, <1>10, <2>2, <3>2 DEF OnePlaceOn, OneRound
      <3>4. k.receipt = {}
        BY <1>1, <2>2 DEF CoreTidy
      <3>5. Receipts(h, k2, up, down2)
        BY <1>2, <1>3, <1>10, <2>1, <2>2, <3>4 DEF OnePlaceOn, Receipts
      <3> QED
        BY <1>1, <1>5, <1>6, <1>7, <1>8, <3>3, <3>5 DEF Talk
    <2>3. CASE k.sent # {a}
      <3>1. OneRound(h, k2, up, down2)
        BY <1>2, <1>3, <2>3 DEF OnePlaceOn, OneRound, SentIs
      <3>2. Receipts(h, k2, up, down2)
        BY <1>2, <1>3, <2>1, <2>3 DEF OnePlaceOn, Receipts
      <3> QED
        BY <1>1, <1>5, <1>6, <1>7, <1>8, <3>1, <3>2 DEF Talk
    <2> QED
      BY <2>2, <2>3
  <1> QED
    BY <1>9, <1>10

(* A lifetime announced: Core had none, and nothing of this one is under way yet. *)
LEMMA CoreLearnsLife ==
    ASSUME NEW h \in HelperT, NEW k \in CoreT, NEW k2, NEW up, NEW down, NEW down2, Talk(h, k, up, down), IsSeq(up),
           Skips(down, down2, 1), down[1].kind \in {"Established", "Lifetime"},
           k2.seq = k.seq, k2.version = k.version, k2.lifetime = {LifeOf(down[1])},
           k2.sent = k.sent, k2.acked = k.acked, k2.receipt = k.receipt
    PROVE  Talk(h, k2, up, down2)
  <1> DEFINE l == LifeOf(down[1])
  <1>2. /\ InStep(h, k, up) /\ Current(h) /\ Lives(h, k, up, down) /\ OneHolder(k, up, down)
        /\ Turns(k, down) /\ CoreTidy(k) /\ Versions(h, k, up) /\ AcksLearnt(h, k, up, down)
        /\ OneRound(h, k, up, down) /\ OneProof(h, k, up, down)
        /\ CurrentHeld(h, k, up, down) /\ Receipts(h, k, up, down)
    BY DEF Talk
  <1>3. /\ \A kind : \A i \in Downs(down2, kind) : i + 1 \in Downs(down, kind) /\ down2[i] = down[i + 1] /\ i \in Nat /\ i >= 1
        /\ \A kind : \A i \in Downs(down, kind) :
             i \in Nat /\ i >= 1 /\ (i # 1 => i - 1 \in Downs(down2, kind) /\ down2[i - 1] = down[i])
        /\ \A i \in News(down2) : i + 1 \in News(down) /\ down2[i] = down[i + 1] /\ i \in Nat /\ i >= 1
        /\ \A i \in News(down) : i \in Nat /\ i >= 1 /\ (i # 1 => i - 1 \in News(down2) /\ down2[i - 1] = down[i])
    BY SkippedDown
  <1>4. 1 \in News(down) /\ 1 \notin Downs(down, "Invalidate") /\ 1 \notin Downs(down, "Bound")
    BY DEF News, Downs, Skips, IsSeq
  <1>5. l.id = down[1].id
    BY DEF LifeOf
  <1>6. k.lifetime = {} /\ \A i \in News(down) : 1 <= i
    <2>1. 1 - 1 \notin Downs(down, "Invalidate")
      BY <1>3
    <2> QED
      BY <1>2, <1>4, <2>1 DEF Turns
  <1>7. k.sent = {} /\ k.acked = {} /\ k.receipt = {}
    BY <1>2, <1>6 DEF CoreTidy
  <1>8. Skips(up, up, 0)
    BY DEF Skips, IsSeq
  <1>9. Lives(h, k, up, down2) /\ OneHolder(k, up, down2) /\ AcksLearnt(h, k, up, down2)
    BY <1>2, <1>8, Fewer
  <1>10. InStep(h, k2, up) /\ Versions(h, k2, up) /\ AcksLearnt(h, k2, up, down2) /\ CoreTidy(k2)
    BY <1>2, <1>7, <1>9 DEF InStep, Versions, AcksLearnt, CoreTidy
  <1>11. Lives(h, k2, up, down2)
    BY <1>2, <1>4, <1>9 DEF Lives
  <1>12. OneHolder(k2, up, down2)
    <2>1. \A i \in Ups(up, "Invalidate") : up[i].rec.id < l.id
      BY <1>2, <1>4, <1>5 DEF OneHolder
    <2>2. \A j \in News(down2) : l.id < down2[j].id
      BY <1>2, <1>3, <1>4, <1>5 DEF OneHolder
    <2> QED
      BY <1>9, <2>1, <2>2 DEF OneHolder
  <1>13. Turns(k2, down2)
    <2>1. ASSUME NEW j \in News(down2) PROVE j - 1 \in Downs(down2, "Invalidate")
      <3>1. j + 1 \in News(down) /\ j \in Nat /\ j >= 1 /\ (j + 1) - 1 = j
        BY <1>3
      <3>2. j \in Downs(down, "Invalidate")
        BY <1>2, <1>4, <3>1 DEF Turns
      <3> QED
        BY <1>3, <1>4, <3>2
    <2> QED
      BY <2>1 DEF Turns
  <1>14. CurrentHeld(h, k2, up, down2)
    <2>1. ASSUME NEW j \in News(down), down[j].id = h.drawn
          PROVE  \/ l.id = h.drawn
                 \/ j - 1 \in News(down2) /\ down2[j - 1].id = h.drawn
      BY <1>3, <1>5, <2>1
    <2>2. h.phase # "AwaitingEstablish" =>
            \/ \E j \in News(down2) : down2[j].id = h.drawn
            \/ \E x \in k2.lifetime : x.id = h.drawn
            \/ Invalidating(h, up)
      BY <1>2, <1>6, <2>1 DEF CurrentHeld
    <2>3. ASSUME NEW i \in Downs(down2, "Invalidate")
          PROVE  \E j \in News(down2) : i < j /\ down2[j].id = h.drawn
      <3>1. i + 1 \in Downs(down, "Invalidate") /\ i \in Nat
        BY <1>3
      <3>2. PICK j \in News(down) : i + 1 < j /\ down[j].id = h.drawn
        BY <1>2, <3>1 DEF CurrentHeld
      <3>3. j \in Nat /\ j # 1
        BY <1>3, <3>1, <3>2
      <3>4. j - 1 \in News(down2) /\ down2[j - 1].id = h.drawn
        BY <1>3, <3>2, <3>3
      <3>5. i < j - 1
        BY <3>1, <3>2, <3>3
      <3> QED
        BY <3>4, <3>5
    <2> QED
      BY <2>2, <2>3 DEF CurrentHeld
  <1>15. OnePlaceOn(h, down, down2)
    BY CoreReads
  <1>16. OneProof(h, k2, up, down2)
    BY <1>2, <1>7, <1>15 DEF OnePlaceOn, OneProof
  <1>17. Receipts(h, k2, up, down2)
    <2>1. 1 \notin CurBounds(h, down)
      BY <1>4 DEF CurBounds
    <2> QED
      BY <1>2, <1>7, <1>15, <2>1 DEF OnePlaceOn, Receipts
  <1>18. OneRound(h, k2, up, down2)
    <2>1. CASE l.id # h.drawn
      <3>1. \A x : SentIs(h, k2, x)
        BY <2>1 DEF SentIs
      <3> QED
        BY <1>2, <1>15, <3>1 DEF OnePlaceOn, OneRound
    <2>2. CASE l.id = h.drawn
      <3>0. h.drawn \in Nat /\ down[1].id = h.drawn
        BY <1>5, <2>2 DEF HelperT
      <3>1. CurPubs(h, up) = {}
        BY <1>2, <1>4, <3>0 DEF CurPubs, AcksLearnt
      <3>2. h.pending = {}
        BY <1>2, <1>4, <3>0 DEF AcksLearnt, Learnt, Current
      <3>3. CurBounds(h, down) = {}
        BY <1>2, <1>4, <3>0 DEF CurBounds, AcksLearnt, Learnt
      <3> QED
        BY <1>15, <3>1, <3>2, <3>3 DEF OnePlaceOn, OneRound
    <2> QED
      BY <2>1, <2>2
  <1> QED
    BY <1>2, <1>10, <1>11, <1>12, <1>13, <1>14, <1>16, <1>17, <1>18 DEF Talk

(* The helper's own invalidation: Core forgets, the next lifetime is announced behind it. *)
LEMMA CoreForgets ==
    ASSUME NEW h \in HelperT, NEW k \in CoreT, NEW k2, NEW up, NEW down, NEW down2, Talk(h, k, up, down), IsSeq(up),
           Skips(down, down2, 1), down[1].kind = "Invalidate",
           k2.seq = k.seq, k2.version = k.version, k2.lifetime = {}, k2.sent = {}, k2.acked = {}, k2.receipt = {}
    PROVE  Talk(h, k2, up, down2)
  <1>2. /\ InStep(h, k, up) /\ Current(h) /\ Lives(h, k, up, down) /\ OneHolder(k, up, down)
        /\ Turns(k, down) /\ CoreTidy(k) /\ Versions(h, k, up) /\ AcksLearnt(h, k, up, down)
        /\ OneRound(h, k, up, down) /\ OneProof(h, k, up, down)
        /\ CurrentHeld(h, k, up, down) /\ Receipts(h, k, up, down)
    BY DEF Talk
  <1>3. /\ \A kind : \A i \in Downs(down2, kind) : i + 1 \in Downs(down, kind) /\ down2[i] = down[i + 1] /\ i \in Nat /\ i >= 1
        /\ \A kind : \A i \in Downs(down, kind) :
             i \in Nat /\ i >= 1 /\ (i # 1 => i - 1 \in Downs(down2, kind) /\ down2[i - 1] = down[i])
        /\ \A i \in News(down2) : i + 1 \in News(down) /\ down2[i] = down[i + 1] /\ i \in Nat /\ i >= 1
        /\ \A i \in News(down) : i \in Nat /\ i >= 1 /\ (i # 1 => i - 1 \in News(down2) /\ down2[i - 1] = down[i])
    BY SkippedDown
  <1>4. 1 \notin News(down) /\ 1 \in Downs(down, "Invalidate")
    BY DEF News, Downs, Skips, IsSeq
  <1>5. PICK n \in News(down) : down[n].id = h.drawn
    BY <1>2, <1>4 DEF CurrentHeld
  <1>6. h.receipt = {}
    <2>1. h.drawn \in Nat
      BY DEF HelperT
    <2> QED
      BY <1>2, <1>5, <2>1 DEF AcksLearnt, Learnt, Current
  <1>8. Skips(up, up, 0)
    BY DEF Skips, IsSeq
  <1>9. Lives(h, k, up, down2) /\ OneHolder(k, up, down2) /\ AcksLearnt(h, k, up, down2)
    BY <1>2, <1>8, Fewer
  <1>10. InStep(h, k2, up) /\ Versions(h, k2, up) /\ AcksLearnt(h, k2, up, down2) /\ CoreTidy(k2)
    BY <1>2, <1>9 DEF InStep, Versions, AcksLearnt, CoreTidy
  <1>11. Lives(h, k2, up, down2) /\ OneHolder(k2, up, down2)
    BY <1>9 DEF Lives, OneHolder
  <1>13. Turns(k2, down2)
    <2>1. ASSUME NEW j \in News(down2)
          PROVE  \/ j - 1 \in Downs(down2, "Invalidate")
                 \/ \A i \in News(down2) : j <= i
      <3>1. j + 1 \in News(down) /\ j \in Nat /\ j >= 1 /\ (j + 1) - 1 = j
        BY <1>3
      <3>2. CASE j \in Downs(down, "Invalidate") /\ j # 1
        BY <1>3, <3>2
      <3>3. CASE j = 1
        BY <1>3, <3>3
      <3>4. CASE \A i \in News(down) : j + 1 <= i
        BY <1>3, <3>1, <3>4
      <3> QED
        BY <1>2, <3>1, <3>2, <3>3, <3>4 DEF Turns
    <2> QED
      BY <2>1 DEF Turns
  <1>14. CurrentHeld(h, k2, up, down2)
    <2>1. ASSUME NEW j \in News(down), down[j].id = h.drawn
          PROVE  j - 1 \in News(down2) /\ down2[j - 1].id = h.drawn /\ j \in Nat
      BY <1>3, <1>4, <2>1
    <2>3. ASSUME NEW i \in Downs(down2, "Invalidate")
          PROVE  \E j \in News(down2) : i < j /\ down2[j].id = h.drawn
      <3>1. i + 1 \in Downs(down, "Invalidate") /\ i \in Nat
        BY <1>3
      <3>2. PICK j \in News(down) : i + 1 < j /\ down[j].id = h.drawn
        BY <1>2, <3>1 DEF CurrentHeld
      <3>3. j - 1 \in News(down2) /\ down2[j - 1].id = h.drawn /\ j \in Nat
        BY <2>1, <3>2
      <3>4. i < j - 1
        BY <3>1, <3>2, <3>3
      <3> QED
        BY <3>3, <3>4
    <2> QED
      BY <1>5, <2>1, <2>3 DEF CurrentHeld
  <1>15. OnePlaceOn(h, down, down2)
    BY CoreReads
  <1>16. OneProof(h, k2, up, down2)
    BY <1>2, <1>15 DEF OnePlaceOn, OneProof
  <1>17. Receipts(h, k2, up, down2)
    BY <1>6 DEF Receipts
  <1>18. OneRound(h, k2, up, down2)
    BY <1>2, <1>15 DEF OnePlaceOn, OneRound, SentIs
  <1> QED
    BY <1>2, <1>10, <1>11, <1>13, <1>14, <1>16, <1>17, <1>18 DEF Talk

-----------------------------------------------------------------------------
(***************************************************************************)
(* What one frame read comes to.  h and g are the helper before and after, *)
(* n the number of the last record read, said what was written.            *)
(***************************************************************************)
NextLife(h, rev) == [id |-> h.drawn + 1, rev |-> rev]

DoesEstablish(h, g, n, rec, said) ==
    /\ h.phase = "AwaitingEstablish" /\ rec.kind = "Establish" /\ g.phase = "Ready" /\ g.in = n
    /\ g.lifetime = {NextLife(h, view.rev)} /\ g.drawn = h.drawn + 1
    /\ g.pending = h.pending /\ g.receipt = h.receipt /\ g.version = h.version
    /\ Spoken(<<>>, <<LifetimeRec("Established", NextLife(h, view.rev)), ProjectionRec(NextLife(h, view.rev), view.bytes)>>,
              said)

LifeKept(h, g, n) ==
    /\ h.phase # "AwaitingEstablish" /\ g.phase \in {"Ready", "AwaitingBind"} /\ g.in = n
    /\ g.drawn = h.drawn /\ g.lifetime = h.lifetime

DoesPublish(h, g, n, rec, said) ==
    /\ rec.kind = "Publish" /\ LifeKept(h, g, n) /\ h.lifetime = {LifeOf(rec)} /\ g.predecessor = h.predecessor
    /\ g.receipt = {} /\ g.version = rec.version
    /\ \E p : g.pending = {p} /\ p.ack = AckOf(rec)
    /\ Spoken(<<>>, <<[kind |-> "Ack", seq |-> 0, ack |-> AckOf(rec)]>>, said)

DoesBind(h, g, n, rec, said) ==
    /\ rec.kind = "Bind" /\ LifeKept(h, g, n) /\ g.predecessor = h.predecessor
    /\ \E p \in h.pending : p.ack = rec.ack
    /\ \E p \in h.pending : RetainedMatches(p)
    /\ g.receipt = h.pending /\ g.pending = {} /\ g.version = h.version
    /\ Spoken(<<>>, <<[kind |-> "Bound", seq |-> 0, ack |-> rec.ack]>>, said)

DoesRotate(h, g, n, rec, said) ==
    /\ rec.kind = "Invalidate" /\ h.phase # "AwaitingEstablish" /\ g.phase = "Ready" /\ g.in = n
    /\ h.lifetime = {LifeOf(rec)} /\ g.predecessor = h.lifetime
    /\ g.lifetime = {NextLife(h, rec.rev)} /\ g.drawn = h.drawn + 1 /\ view.rev = rec.rev
    /\ g.pending = {} /\ g.receipt = {} /\ g.version = h.version
    /\ Spoken(<<>>, <<LifetimeRec("Lifetime", NextLife(h, rec.rev)), ProjectionRec(NextLife(h, rec.rev), view.bytes)>>,
              said)

DoesCross(h, g, n, rec, said) ==
    /\ rec.kind = "Invalidate" /\ LifeKept(h, g, n) /\ h.lifetime # {LifeOf(rec)} /\ h.predecessor = {LifeOf(rec)}
    /\ g.receipt = h.receipt /\ g.pending = h.pending /\ g.version = h.version
    /\ said = <<>>

\* Why a record of Core's, the next in number, may be a protocol violation.
AtFault(h, rec) ==
    \/ h.phase = "AwaitingEstablish" /\ rec.kind # "Establish"
    \/ /\ h.phase # "AwaitingEstablish"
       /\ \/ rec.kind \notin {"Publish", "Bind", "Invalidate", "Error"}
          \/ /\ rec.kind = "Publish"
             /\ {LifeOf(rec)} # h.lifetime \/ h.pending # {} \/ ~rec.ours \/ rec.version <= h.version
          \/ rec.kind = "Bind" /\ \A p \in h.pending : p.ack # rec.ack
          \/ /\ rec.kind = "Invalidate"
             /\ \/ rec.reason = "RegistryMutation"
                \/ h.lifetime = {LifeOf(rec)} /\ view.rev # rec.rev
                \/ h.lifetime # {LifeOf(rec)} /\ h.predecessor # {LifeOf(rec)}

EndsOver(h, g, rec) == g.phase = "Revoked" /\ (g.revocation = "ProtocolViolation" => AtFault(h, rec))

Comes(h, g, n, rec, said) ==
    \/ DoesEstablish(h, g, n, rec, said) \/ DoesPublish(h, g, n, rec, said) \/ DoesBind(h, g, n, rec, said)
    \/ DoesRotate(h, g, n, rec, said) \/ DoesCross(h, g, n, rec, said) \/ EndsOver(h, g, rec)

LEMMA HandleComes ==
    ASSUME NEW c \in CallT, c.error = "ok", c.out = <<>>, c.h.phase \in {"Ready", "AwaitingBind"}, NEW rec,
           rec.kind = "Publish" => rec.version \in Nat /\ rec.bytes \in Bytes,
           NEW env, view.rev \in Nat, view.bytes \in Bytes
    PROVE  LET r == Handle(c, rec, env) IN r \in CallT /\ Comes(c.h, r.h, c.h.in, rec, r.out)
  <1> DEFINE r == Handle(c, rec, env)
             life == [id |-> rec.id, rev |-> rec.rev]
  <1>0. c.h \in HelperT /\ c.h.phase # "AwaitingEstablish" /\ LifeOf(rec) = life
    BY DEF CallT, LifeOf
  <1>1. ASSUME NEW h, NEW g, CutOff(h, g) PROVE g.phase = "Revoked" /\ g.revocation # "ProtocolViolation"
    BY <1>1 DEF CutOff, Ended
  <1>2. ASSUME NEW g, NEW reason, Ended(c.h, g, reason) PROVE g.phase = "Revoked" /\ g.revocation = reason
    BY <1>2 DEF Ended
  <1>3. CASE rec.kind = "Publish"
    <2> DEFINE ack == [id |-> rec.id, rev |-> rec.rev, version |-> rec.version]
    <2>1. r = HandlePublish(c, rec, env)
      BY <1>3 DEF Handle
    <2>2. AckOf(rec) = ack
      BY DEF AckOf
    <2> HIDE DEF r, life, ack
    <2>3. /\ r \in CallT
          /\ \/ /\ r.error = "ok"
                /\ {life} = c.h.lifetime /\ c.h.pending = {}
                /\ r.h.phase = "AwaitingBind" /\ r.h.receipt = {} /\ r.h.version = rec.version
                /\ r.h.pending = {[ack |-> ack, bytes |-> rec.bytes]}
                /\ r.h.lifetime = c.h.lifetime /\ r.h.predecessor = c.h.predecessor
                /\ r.h.in = c.h.in /\ r.h.revocation = c.h.revocation /\ r.h.drawn = c.h.drawn
                /\ Spoken(c.out, <<[kind |-> "Ack", seq |-> 0, ack |-> ack]>>, r.out)
             \/ /\ r.error # "ok"
                /\ \E reason \in OwnReasons :
                     /\ Ended(c.h, r.h, reason)
                     /\ reason = "ProtocolViolation" =>
                          \/ {life} # c.h.lifetime
                          \/ c.h.pending # {} \/ ~rec.ours \/ rec.version <= c.h.version
      BY <1>3, <2>1, PublishHandled DEF life, ack
    <2>4. CASE r.error = "ok"
      <3>1. \E p : r.h.pending = {p} /\ p.ack = AckOf(rec)
        <4> DEFINE p == [ack |-> ack, bytes |-> rec.bytes]
        <4>1. p.ack = ack /\ r.h.pending = {p}
          BY <2>3, <2>4
        <4> HIDE DEF p
        <4> QED
          BY <2>2, <4>1
      <3>2. Spoken(<<>>, <<[kind |-> "Ack", seq |-> 0, ack |-> AckOf(rec)]>>, r.out)
        BY <2>2, <2>3, <2>4
      <3>3. LifeKept(c.h, r.h, c.h.in) /\ c.h.lifetime = {LifeOf(rec)}
        BY <1>0, <2>3, <2>4 DEF LifeKept
      <3>4. DoesPublish(c.h, r.h, c.h.in, rec, r.out)
        BY <1>3, <2>3, <2>4, <3>1, <3>2, <3>3 DEF DoesPublish
      <3> QED
        BY <2>3, <3>4 DEF Comes, r
    <2>5. CASE r.error # "ok"
      <3>1. EndsOver(c.h, r.h, rec)
        BY <1>0, <1>2, <1>3, <2>3, <2>5 DEF EndsOver, AtFault
      <3> QED
        BY <2>3, <3>1 DEF Comes, r
    <2> QED
      BY <2>4, <2>5
  <1>4. CASE rec.kind = "Bind"
    <2>1. r = HandleBind(c, rec, env)
      BY <1>4 DEF Handle
    <2> HIDE DEF r, life
    <2>3. /\ r \in CallT
          /\ \/ /\ r.error = "ok"
                /\ \E p \in c.h.pending : p.ack = rec.ack
                /\ \E p \in c.h.pending : RetainedMatches(p)
                /\ r.h.phase = "Ready" /\ r.h.receipt = c.h.pending /\ r.h.pending = {}
                /\ r.h.lifetime = c.h.lifetime /\ r.h.predecessor = c.h.predecessor /\ r.h.version = c.h.version
                /\ r.h.in = c.h.in /\ r.h.revocation = c.h.revocation /\ r.h.drawn = c.h.drawn
                /\ Spoken(c.out, <<[kind |-> "Bound", seq |-> 0, ack |-> rec.ack]>>, r.out)
             \/ /\ r.error # "ok"
                /\ \E reason \in OwnReasons :
                     /\ Ended(c.h, r.h, reason)
                     /\ reason = "ProtocolViolation" => \A p \in c.h.pending : p.ack # rec.ack
      BY <2>1, BindHandled
    <2>4. CASE r.error = "ok"
      <3>3. LifeKept(c.h, r.h, c.h.in)
        BY <1>0, <2>3, <2>4 DEF LifeKept
      <3>4. DoesBind(c.h, r.h, c.h.in, rec, r.out)
        BY <1>4, <2>3, <2>4, <3>3 DEF DoesBind
      <3> QED
        BY <2>3, <3>4 DEF Comes, r
    <2>5. CASE r.error # "ok"
      <3>1. EndsOver(c.h, r.h, rec)
        BY <1>0, <1>2, <1>4, <2>3, <2>5 DEF EndsOver, AtFault
      <3> QED
        BY <2>3, <3>1 DEF Comes, r
    <2> QED
      BY <2>4, <2>5
  <1>5. CASE rec.kind = "Invalidate"
    <2> DEFINE l == [id |-> c.h.drawn + 1, rev |-> rec.rev]
    <2>1. r = HandleInvalidate(c, rec, env)
      BY <1>5 DEF Handle
    <2>2. NextLife(c.h, rec.rev) = l
      BY DEF NextLife
    <2> HIDE DEF r, life, l
    <2>3. /\ r \in CallT
          /\ \/ /\ r.error = "ok" /\ Withdraws(rec.reason) /\ Ended(c.h, r.h, "PeerWithdrewAuthority")
                /\ r.out = c.out
             \/ /\ r.error = "ok" /\ ~Withdraws(rec.reason) /\ c.h.lifetime = {life}
                /\ r.h.phase = "Ready" /\ r.h.lifetime = {l} /\ r.h.predecessor = {life}
                /\ r.h.pending = {} /\ r.h.receipt = {} /\ r.h.version = c.h.version
                /\ r.h.in = c.h.in /\ r.h.revocation = c.h.revocation /\ r.h.drawn = c.h.drawn + 1
                /\ Spoken(c.out, <<LifetimeRec("Lifetime", l), ProjectionRec(l, view.bytes)>>, r.out)
                /\ view.rev = rec.rev
             \/ /\ r.error = "ok" /\ ~Withdraws(rec.reason) /\ c.h.lifetime # {life}
                /\ c.h.predecessor = {life} /\ r.out = c.out /\ Parted(c.h, r.h)
             \/ /\ r.error # "ok" /\ c.h.lifetime = {life}
                /\ \E h \in HelperT : h.drawn = c.h.drawn + 1 /\ CutOff(h, r.h)
             \/ /\ r.error # "ok"
                /\ \E reason \in OwnReasons :
                     /\ Ended(c.h, r.h, reason)
                     /\ reason = "ProtocolViolation" =>
                          \/ rec.reason = "RegistryMutation"
                          \/ c.h.lifetime = {life} /\ ~Withdraws(rec.reason) /\ view.rev # rec.rev
                          \/ c.h.lifetime # {life} /\ c.h.predecessor # {life}
      BY <2>1, InvalidateHandled DEF life, l
    <2>4. ASSUME Ended(c.h, r.h, "PeerWithdrewAuthority") PROVE EndsOver(c.h, r.h, rec)
      BY <1>2, <2>4 DEF EndsOver
    <2>5. ASSUME \E h \in HelperT : CutOff(h, r.h) PROVE EndsOver(c.h, r.h, rec)
      BY <1>1, <2>5 DEF EndsOver
    <2>6. ASSUME NEW reason \in OwnReasons, Ended(c.h, r.h, reason),
                 reason = "ProtocolViolation" =>
                   \/ rec.reason = "RegistryMutation"
                   \/ c.h.lifetime = {life} /\ ~Withdraws(rec.reason) /\ view.rev # rec.rev
                   \/ c.h.lifetime # {life} /\ c.h.predecessor # {life}
          PROVE  EndsOver(c.h, r.h, rec)
      BY <1>0, <1>2, <1>5, <2>6 DEF EndsOver, AtFault
    <2>7. ASSUME /\ c.h.lifetime = {life}
                 /\ r.h.phase = "Ready" /\ r.h.lifetime = {l} /\ r.h.predecessor = {life}
                 /\ r.h.pending = {} /\ r.h.receipt = {} /\ r.h.version = c.h.version
                 /\ r.h.in = c.h.in /\ r.h.drawn = c.h.drawn + 1
                 /\ Spoken(c.out, <<LifetimeRec("Lifetime", l), ProjectionRec(l, view.bytes)>>, r.out)
                 /\ view.rev = rec.rev
          PROVE  DoesRotate(c.h, r.h, c.h.in, rec, r.out)
      <3>1. Spoken(<<>>, <<LifetimeRec("Lifetime", NextLife(c.h, rec.rev)),
                           ProjectionRec(NextLife(c.h, rec.rev), view.bytes)>>, r.out)
        BY <2>2, <2>7
      <3> QED
        BY <1>0, <1>5, <2>2, <2>7, <3>1 DEF DoesRotate
    <2>8. ASSUME c.h.lifetime # {life}, c.h.predecessor = {life}, r.out = c.out, Parted(c.h, r.h)
          PROVE  DoesCross(c.h, r.h, c.h.in, rec, r.out)
      BY <1>0, <1>5, <2>8 DEF DoesCross, Parted, LifeKept
    <2>9. Comes(c.h, r.h, c.h.in, rec, r.out)
      <3>1. \/ EndsOver(c.h, r.h, rec) \/ DoesRotate(c.h, r.h, c.h.in, rec, r.out)
            \/ DoesCross(c.h, r.h, c.h.in, rec, r.out)
        BY <2>3, <2>4, <2>5, <2>6, <2>7, <2>8, Zenon
      <3> QED
        BY <3>1 DEF Comes
    <2> QED
      BY <2>3, <2>9 DEF r
  <1>6. CASE rec.kind = "Error"
    <2>1. r = Fail(c, PeerFault)
      BY <1>6 DEF Handle
    <2> HIDE DEF r
    <2>2. r \in CallT /\ Ended(c.h, r.h, "PeerError")
      BY <2>1, Fails, FaultsKnown
    <2>3. EndsOver(c.h, r.h, rec)
      BY <1>2, <2>2 DEF EndsOver
    <2> QED
      BY <2>2, <2>3 DEF Comes, r
  <1>7. CASE rec.kind \notin {"Publish", "Bind", "Invalidate", "Error"}
    <2>1. r = Fail(c, ProtocolFault("UnexpectedRecord"))
      BY <1>7 DEF Handle
    <2>0. "UnexpectedRecord" \in Errors
      BY DEF Errors
    <2>4. IsFault(ProtocolFault("UnexpectedRecord"))
      BY <2>0, FaultsKnown
    <2> HIDE DEF r
    <2>2. r \in CallT /\ r.h.phase = "Revoked"
      BY <2>1, <2>4, Fails DEF Ended
    <2>3. EndsOver(c.h, r.h, rec)
      BY <1>0, <1>7, <2>2 DEF EndsOver, AtFault
    <2> QED
      BY <2>2, <2>3 DEF Comes, r
  <1> QED
    BY <1>3, <1>4, <1>5, <1>6, <1>7

LEMMA ComesFrom ==
    ASSUME NEW h, NEW k, NEW g, NEW n, NEW rec, NEW said, Advanced(h, k, n), Comes(k, g, n, rec, said)
    PROVE  Comes(h, g, n, rec, said)
  <1>1. /\ k.phase = h.phase /\ k.lifetime = h.lifetime /\ k.predecessor = h.predecessor /\ k.pending = h.pending
        /\ k.receipt = h.receipt /\ k.version = h.version /\ k.drawn = h.drawn
    BY DEF Advanced
  <1>2. \A rev : NextLife(k, rev) = NextLife(h, rev)
    BY <1>1 DEF NextLife
  <1>3. LifeKept(k, g, n) <=> LifeKept(h, g, n)
    BY <1>1 DEF LifeKept
  <1>4. DoesEstablish(k, g, n, rec, said) => DoesEstablish(h, g, n, rec, said)
    BY <1>1, <1>2 DEF DoesEstablish
  <1>5. DoesPublish(k, g, n, rec, said) => DoesPublish(h, g, n, rec, said)
    BY <1>1, <1>3 DEF DoesPublish
  <1>6. DoesBind(k, g, n, rec, said) => DoesBind(h, g, n, rec, said)
    BY <1>1, <1>3 DEF DoesBind
  <1>7. DoesRotate(k, g, n, rec, said) => DoesRotate(h, g, n, rec, said)
    BY <1>1, <1>2 DEF DoesRotate
  <1>8. DoesCross(k, g, n, rec, said) => DoesCross(h, g, n, rec, said)
    BY <1>1, <1>3 DEF DoesCross
  <1>9. EndsOver(k, g, rec) => EndsOver(h, g, rec)
    BY <1>1 DEF EndsOver, AtFault
  <1> QED
    BY <1>4, <1>5, <1>6, <1>7, <1>8, <1>9 DEF Comes

LEMMA EstablishComes ==
    ASSUME NEW c \in CallT, c.error = "ok", c.out = <<>>, c.h.phase = "AwaitingEstablish", NEW rec, NEW env,
           view.rev \in Nat, view.bytes \in Bytes
    PROVE  LET r == Establish(c, rec, env) IN r \in CallT /\ Comes(c.h, r.h, c.h.in, rec, r.out)
  <1> DEFINE r == Establish(c, rec, env)
             l == [id |-> c.h.drawn + 1, rev |-> view.rev]
  <1>1. NextLife(c.h, view.rev) = l
    BY DEF NextLife
  <1> HIDE DEF r, l
  <1>2. /\ r \in CallT
        /\ \/ /\ r.error = "ok" /\ rec.kind = "Establish" /\ EchoMatches(rec)
              /\ r.h.phase = "Ready" /\ r.h.lifetime = {l} /\ r.h.predecessor = c.h.predecessor
              /\ r.h.pending = c.h.pending /\ r.h.receipt = c.h.receipt /\ r.h.version = c.h.version
              /\ r.h.in = c.h.in /\ r.h.revocation = c.h.revocation /\ r.h.drawn = c.h.drawn + 1
              /\ Spoken(c.out, <<LifetimeRec("Established", l), ProjectionRec(l, view.bytes)>>, r.out)
           \/ /\ r.error # "ok" /\ rec.kind = "Establish" /\ EchoMatches(rec)
              /\ \E h \in HelperT : h.drawn = c.h.drawn + 1 /\ CutOff(h, r.h)
           \/ /\ r.error # "ok"
              /\ \E reason \in OwnReasons :
                   /\ Ended(c.h, r.h, reason)
                   /\ reason = "ProtocolViolation" => rec.kind # "Establish"
    BY EstablishHandled DEF r, l
  <1>3. CASE r.error = "ok"
    <2>1. Spoken(<<>>, <<LifetimeRec("Established", NextLife(c.h, view.rev)),
                         ProjectionRec(NextLife(c.h, view.rev), view.bytes)>>, r.out)
      BY <1>1, <1>2, <1>3
    <2>2. DoesEstablish(c.h, r.h, c.h.in, rec, r.out)
      BY <1>1, <1>2, <1>3, <2>1 DEF DoesEstablish
    <2> QED
      BY <1>2, <2>2 DEF Comes, r
  <1>4. CASE r.error # "ok"
    <2>1. ASSUME \E h \in HelperT : CutOff(h, r.h) PROVE EndsOver(c.h, r.h, rec)
      BY <2>1 DEF CutOff, Ended, EndsOver
    <2>2. ASSUME NEW reason \in OwnReasons, Ended(c.h, r.h, reason), reason = "ProtocolViolation" => rec.kind # "Establish"
          PROVE  EndsOver(c.h, r.h, rec)
      BY <2>2 DEF Ended, EndsOver, AtFault
    <2>3. EndsOver(c.h, r.h, rec)
      BY <1>2, <1>4, <2>1, <2>2
    <2> QED
      BY <1>2, <2>3 DEF Comes, r
  <1> QED
    BY <1>3, <1>4

(* establish and step, whatever the frame: one of the moves of the handshake, or the end of control. *)
LEMMA FrameComes ==
    ASSUME helper \in HelperT, helper.phase # "Revoked", toCore \in Seq(SaidT), view.rev \in Nat, view.bytes \in Bytes,
           PublishTyped(Head(toHelper)), NEW env, NEW dead \in Int, ReadAndHandle(env, dead)
    PROVE  LET f == Head(toHelper)
               taken == Passed(f) /\ f.rec.seq = helper.in + 1
           IN  \E said \in Seq(SaidT) :
                 /\ toCore' = toCore \o said
                 /\ taken => /\ Comes(helper, helper', helper.in + 1, f.rec, said)
                             /\ helper'.revocation = "ProtocolViolation" =>
                                  \E b \in blame' : b.kind = f.rec.kind /\ b.lag = LagOf(f.rec)
                 /\ ~taken => helper'.phase = "Revoked"
  <1> DEFINE f == Head(toHelper)
             v == ReadVerdict(f)
             c == Call(helper, dead)
             in == Envelope(c, f.rec)
             r == IF v # "ok" THEN Fail(c, Fault(v, ReadFault(v).reason, ReadFault(v).code))
                  ELSE IF in.h.phase = "AwaitingEstablish" THEN Establish(in, f.rec, env)
                  ELSE Handle(in, f.rec, env)
             taken == Passed(f) /\ f.rec.seq = helper.in + 1
  <1>1. /\ helper' = r.h /\ toCore' = toCore \o r.out
        /\ blame' = IF v = "ok" THEN Blamed(r, f.rec.kind, LagOf(f.rec)) ELSE blame
    BY DEF ReadAndHandle, Done
  <1>2. c \in CallT /\ c.error = "ok" /\ c.out = <<>> /\ c.h = helper
    BY DEF Call, CallT
  <1> HIDE DEF f, c
  <1>3. v # "ok" => ~taken
    BY DEF Passed
  <1>4. v = "ok" => \/ /\ in \in CallT /\ in.error = "ok" /\ in.out = <<>> /\ Advanced(helper, in.h, helper.in + 1)
                       /\ f.rec.seq = helper.in + 1 /\ taken
                    \/ in \in CallT /\ in.error # "ok" /\ in.h.phase = "Revoked" /\ ~taken
    <2> HIDE DEF in
    <2> QED
      BY <1>2, Enveloped DEF in, Passed, Ended
  <1>5. CASE v # "ok"
    <2> DEFINE fault == Fault(v, ReadFault(v).reason, ReadFault(v).code)
    <2>1. r = Fail(c, fault)
      BY <1>5
    <2>2. IsFault(fault)
      BY <1>5, ReadRefused
    <2> HIDE DEF fault, r, v
    <2>3. r \in CallT /\ r.h.phase = "Revoked"
      BY <1>2, <2>1, <2>2, Fails DEF Ended
    <2>4. r.out \in Seq(SaidT)
      BY <2>3 DEF CallT
    <2> QED
      BY <1>1, <1>3, <1>5, <2>3, <2>4 DEF f
  <1>6. CASE v = "ok" /\ in.error # "ok"
    <2>1. in \in CallT /\ in.h.phase = "Revoked" /\ ~taken
      BY <1>4, <1>6
    <2>2. Handle(in, f.rec, env) = in
      <3> HIDE DEF in
      <3> QED
        BY <1>6 DEF Handle
    <2> HIDE DEF in, v
    <2>3. r = in
      BY <1>6, <2>1, <2>2
    <2> HIDE DEF r
    <2>4. r.out \in Seq(SaidT) /\ r.h.phase = "Revoked"
      BY <2>1, <2>3 DEF CallT
    <2> QED
      BY <1>1, <2>1, <2>4 DEF f
  <1>7. CASE v = "ok" /\ in.error = "ok"
    <2>1. /\ in \in CallT /\ in.out = <<>> /\ Advanced(helper, in.h, helper.in + 1) /\ taken
      BY <1>4, <1>7
    <2>2. in.h.phase = helper.phase /\ in.h.in = helper.in + 1 /\ in.h \in HelperT
      BY <2>1 DEF Advanced, CallT
    <2>3. f.rec.kind = "Publish" => f.rec.version \in Nat /\ f.rec.bytes \in Bytes
      BY <2>1 DEF PublishTyped, f
    <2> HIDE DEF in, v
    <2>4. r \in CallT /\ Comes(in.h, r.h, in.h.in, f.rec, r.out)
      <3>1. CASE helper.phase = "AwaitingEstablish"
        <4>1. r = Establish(in, f.rec, env)
          BY <1>7, <2>2, <3>1
        <4> HIDE DEF r
        <4> QED
          BY <1>7, <2>1, <2>2, <3>1, <4>1, EstablishComes
      <3>2. CASE helper.phase # "AwaitingEstablish"
        <4>1. r = Handle(in, f.rec, env)
          BY <1>7, <2>2, <3>2
        <4>2. in.h.phase \in {"Ready", "AwaitingBind"}
          BY <2>2, <3>2 DEF HelperT
        <4> HIDE DEF r
        <4> QED
          BY <1>7, <2>1, <2>3, <4>1, <4>2, HandleComes
      <3> QED
        BY <3>1, <3>2
    <2> HIDE DEF r
    <2>5. Comes(helper, r.h, helper.in + 1, f.rec, r.out)
      BY <2>1, <2>2, <2>4, ComesFrom
    <2>6. r.h.revocation = "ProtocolViolation" => \E b \in blame' : b.kind = f.rec.kind /\ b.lag = LagOf(f.rec)
      <3> DEFINE b == [kind |-> f.rec.kind, lag |-> LagOf(f.rec), error |-> r.error]
      <3>1. b.kind = f.rec.kind /\ b.lag = LagOf(f.rec)
        OBVIOUS
      <3>2. r.h.revocation = "ProtocolViolation" => blame' = {b}
        BY <1>1, <1>7 DEF Blamed
      <3> HIDE DEF b
      <3> QED
        BY <3>1, <3>2
    <2>7. r.out \in Seq(SaidT)
      BY <2>4 DEF CallT
    <2> QED
      BY <1>1, <2>1, <2>5, <2>6, <2>7 DEF f
  <1> QED
    BY <1>4, <1>5, <1>6, <1>7

\* A gate none of whose checks fails answers "ok".
LEMMA VerdictPasses ==
    ASSUME NEW checks, \A i \in DOMAIN checks : ~checks[i][1]
    PROVE  Verdict(checks) = "ok"
  BY DEF Verdict, Failing

\* What Core frames is read: the header is within both bounds.
LEMMA FramedIsRead ==
    ASSUME NEW f, NEW rec, Framed(f, rec)
    PROVE  ReadVerdict(f) = "ok"
  <1> DEFINE checks == << <<f.cut = "closed", "Closed">>, <<f.cut = "prefix", "TruncatedPrefix">>,
                          <<f.len = 0, "ZeroLength">>, <<f.len > FrameMax, "FrameTooLarge">>,
                          <<f.len < HeaderBytes, "FrameShorterThanHeader">>,
                          <<f.cut = "memory", "AllocationFailed">>,
                          <<f.cut = "body", "TruncatedBody">>, <<f.cut = "io", "Io">>,
                          <<f.len > SmallMax /\ f.known /\ f.rec.kind \notin {"Projection", "Publish"},
                            "SmallRecordTooLarge">>,
                          <<~f.known, "Record">> >>
  <1>1. f.len = HeaderBytes /\ f.cut = "none" /\ f.known = TRUE
    BY DEF Framed, FrameOf
  <1>2. /\ HeaderBytes # 0 /\ ~(HeaderBytes > FrameMax) /\ ~(HeaderBytes < HeaderBytes) /\ ~(HeaderBytes > SmallMax)
    BY LaunchAssumption
  <1>3. DOMAIN checks = 1..10
    OBVIOUS
  <1>4. ~checks[1][1]
    BY <1>1
  <1>5. ~checks[2][1]
    BY <1>1
  <1>6. ~checks[3][1]
    BY <1>1, <1>2
  <1>7. ~checks[4][1]
    BY <1>1, <1>2
  <1>8. ~checks[5][1]
    BY <1>1, <1>2
  <1>9. ~checks[6][1]
    BY <1>1
  <1>10. ~checks[7][1]
    BY <1>1
  <1>11. ~checks[8][1]
    BY <1>1
  <1>12. ~checks[9][1]
    BY <1>1, <1>2
  <1>13. ~checks[10][1]
    BY <1>1
  <1>14. ReadVerdict(f) = Verdict(checks)
    BY DEF ReadVerdict
  <1> HIDE DEF checks
  <1>15. \A i \in 1..10 : ~checks[i][1]
    BY <1>4, <1>5, <1>6, <1>7, <1>8, <1>9, <1>10, <1>11, <1>12, <1>13
  <1> QED
    BY <1>3, <1>14, <1>15, VerdictPasses

\* The first record of a stream is read off it.
LEMMA ReadsOff ==
    ASSUME NEW S, NEW s \in Seq(S), s # <<>>
    PROVE  Skips(s, Tail(s), 1) /\ 1 \in DOMAIN s /\ Head(s) = s[1] /\ Head(s) \in S
  BY DEF Skips, IsSeq

LEMMA StandsStill ==
    ASSUME NEW S, NEW s \in Seq(S)
    PROVE  Skips(s, s, 0) /\ IsSeq(s)
  BY DEF Skips, IsSeq

LEMMA WritesOn ==
    ASSUME NEW S, NEW s \in Seq(S), NEW f \in S
    PROVE  Adds(s, Append(s, f), f)
  BY DEF Adds, IsSeq

\* One record said.
LEMMA SaysOne ==
    ASSUME NEW s \in Seq(SaidT), NEW body \in SaidT, NEW said, Spoken(<<>>, <<body>>, said)
    PROVE  \E n \in Nat : Adds(s, s \o said, Numbered(body, n))
  <1>1. PICK n \in Nat : said = Append(<<>>, Numbered(body, n))
    BY DEF Spoken
  <1> DEFINE b == Numbered(body, n)
  <1>2. b \in SaidT
    BY NumberedSaid
  <1> HIDE DEF b
  <1>3. s \o said = Append(s, b)
    BY <1>1, <1>2 DEF b
  <1> QED
    BY <1>2, <1>3, WritesOn DEF b

\* What is said of a lifetime, typed and numbered.
LEMMA LifeSaid ==
    ASSUME NEW id \in Nat, NEW rev \in Nat, NEW bytes \in Bytes, NEW kind \in {"Established", "Lifetime"},
           NEW n \in Nat, NEW m \in Nat
    PROVE  LET l == [id |-> id, rev |-> rev]
               a == Numbered(LifetimeRec(kind, l), n)
               b == Numbered(ProjectionRec(l, bytes), m)
           IN  /\ a \in SaidT /\ a.kind = kind /\ LifeOf(a) = l /\ a.id = id
               /\ b \in SaidT /\ b.kind = "Projection"
  <1> DEFINE l == [id |-> id, rev |-> rev]
             a == Numbered(LifetimeRec(kind, l), n)
             b == Numbered(ProjectionRec(l, bytes), m)
  <1>1. a = [kind |-> kind, seq |-> n, id |-> id, rev |-> rev]
    BY DEF Numbered, LifetimeRec
  <1>2. b = [kind |-> "Projection", seq |-> m, id |-> id, rev |-> rev, bytes |-> bytes]
    BY DEF Numbered, ProjectionRec
  <1> HIDE DEF a, b
  <1>3. a \in SaidT /\ a.kind = kind /\ a.id = id /\ a.rev = rev
    BY <1>1 DEF SaidT
  <1>4. b \in SaidT /\ b.kind = "Projection"
    BY <1>2 DEF SaidT
  <1>5. LifeOf(a) = l
    BY <1>3 DEF LifeOf
  <1> QED
    BY <1>3, <1>4, <1>5 DEF a, b

LEMMA SaysTwo ==
    ASSUME NEW s \in Seq(SaidT), NEW a \in SaidT, NEW b \in SaidT, NEW l,
           a.kind \in {"Established", "Lifetime"}, LifeOf(a) = l, a.id = l.id, b.kind = "Projection"
    PROVE  Announces(s, Append(Append(s, a), b), Len(s) + 1, l)
  <1> DEFINE t == Append(Append(s, a), b)
  <1>1. /\ IsSeq(s) /\ IsSeq(t) /\ Len(t) = Len(s) + 2
        /\ \A i \in 1..Len(s) : t[i] = s[i]
        /\ t[Len(s) + 1] = a /\ t[Len(s) + 1 + 1] = b /\ Len(s) + 1 # Len(s) + 2 /\ Len(s) + 2 = Len(s) + 1 + 1
    BY DEF IsSeq
  <1> HIDE DEF t
  <1> QED
    BY <1>1 DEF Announces, t

LEMMA SaysThree ==
    ASSUME NEW s \in Seq(SaidT), NEW e \in SaidT, NEW a \in SaidT, NEW b \in SaidT, NEW l, e.kind = "Invalidate",
           a.kind \in {"Established", "Lifetime"}, LifeOf(a) = l, a.id = l.id, b.kind = "Projection"
    PROVE  Announces(s, Append(Append(Append(s, e), a), b), Len(s) + 2, l)
  <1> DEFINE t == Append(Append(Append(s, e), a), b)
  <1>1. /\ IsSeq(s) /\ IsSeq(t) /\ Len(t) = Len(s) + 3
        /\ \A i \in 1..Len(s) : t[i] = s[i]
        /\ t[Len(s) + 2] = a /\ t[Len(s) + 2 + 1] = b /\ t[Len(s) + 2 - 1] = e
        /\ Len(s) + 3 = Len(s) + 2 + 1
    BY DEF IsSeq
  <1> HIDE DEF t
  <1> QED
    BY <1>1 DEF Announces, t

\* A lifetime announced, after establishment or an invalidation of Core's.
LEMMA SaysLife ==
    ASSUME NEW s \in Seq(SaidT), NEW id \in Nat, NEW rev \in Nat, NEW bytes \in Bytes,
           NEW kind \in {"Established", "Lifetime"}, NEW said,
           Spoken(<<>>, <<LifetimeRec(kind, [id |-> id, rev |-> rev]), ProjectionRec([id |-> id, rev |-> rev], bytes)>>, said)
    PROVE  Announces(s, s \o said, Len(s) + 1, [id |-> id, rev |-> rev])
  <1> DEFINE l == [id |-> id, rev |-> rev]
  <1>1. PICK n \in Nat, m \in Nat :
          said = Append(Append(<<>>, Numbered(LifetimeRec(kind, l), n)), Numbered(ProjectionRec(l, bytes), m))
    BY DEF Spoken
  <1> DEFINE a == Numbered(LifetimeRec(kind, l), n)
             b == Numbered(ProjectionRec(l, bytes), m)
  <1>2. /\ a \in SaidT /\ a.kind = kind /\ LifeOf(a) = l /\ a.id = l.id
        /\ b \in SaidT /\ b.kind = "Projection"
    BY LifeSaid
  <1>3. said = Append(Append(<<>>, a), b)
    BY <1>1
  <1> HIDE DEF a, b, l
  <1>4. s \o said = Append(Append(s, a), b)
    BY <1>2, <1>3
  <1>5. a.kind \in {"Established", "Lifetime"}
    BY <1>2
  <1> QED
    BY <1>2, <1>4, <1>5, SaysTwo DEF l

\* The records of a rotation of the helper's own.
LEMMA SaysRotation ==
    ASSUME helper.drawn \in Nat, toCore \in Seq(SaidT), NEW l \in Life, NEW reason \in {"RegistryMutation", "Reset"},
           NEW rev \in Nat, NEW bytes \in Bytes, Announced(l, reason, rev, bytes)
    PROVE  Announces(toCore, toCore', Len(toCore) + 2, NextLife(helper, rev))
  <1> DEFINE x == [id |-> helper.drawn + 1, rev |-> rev]
             e0 == InvalidateRec(l, reason)
  <1>1. PICK o, said : /\ Spoken(<<>>, <<e0>>, o)
                       /\ Spoken(o, <<LifetimeRec("Lifetime", x), ProjectionRec(x, bytes)>>, said)
                       /\ toCore' = toCore \o said
    BY DEF Announced
  <1>2. PICK k \in Nat : o = Append(<<>>, Numbered(e0, k))
    BY <1>1 DEF Spoken
  <1>3. \E n, m \in Nat :
          said = Append(Append(o, Numbered(LifetimeRec("Lifetime", x), n)), Numbered(ProjectionRec(x, bytes), m))
    <2> DEFINE y == LifetimeRec("Lifetime", x)
               z == ProjectionRec(x, bytes)
               w == <<y, z>>
    <2>1. Spoken(o, w, said) /\ Len(w) # 0 /\ Len(w) # 1 /\ w[1] = y /\ w[2] = z
      BY <1>1
    <2> HIDE DEF w, y, z
    <2>2. \E n, m \in Nat : said = Append(Append(o, Numbered(w[1], n)), Numbered(w[2], m))
      BY <2>1, Zenon DEF Spoken
    <2> QED
      BY <2>1, <2>2 DEF y, z
  <1>a. PICK n \in Nat, m \in Nat :
          said = Append(Append(o, Numbered(LifetimeRec("Lifetime", x), n)), Numbered(ProjectionRec(x, bytes), m))
    BY <1>3
  <1> DEFINE e == Numbered(e0, k)
             a == Numbered(LifetimeRec("Lifetime", x), n)
             b == Numbered(ProjectionRec(x, bytes), m)
  <1>4. /\ a \in SaidT /\ a.kind = "Lifetime" /\ LifeOf(a) = x /\ a.id = x.id
        /\ b \in SaidT /\ b.kind = "Projection"
    BY LifeSaid
  <1>5. e0 \in SaidT /\ e0.kind = "Invalidate"
    BY InvalidateSaid DEF InvalidateRec
  <1> HIDE DEF e0
  <1>6. e \in SaidT /\ e.kind = "Invalidate"
    BY <1>5, NumberedSaid
  <1>7. said = Append(Append(Append(<<>>, e), a), b)
    BY <1>2, <1>a
  <1>8. x = NextLife(helper, rev)
    BY DEF NextLife
  <1> HIDE DEF e, a, b, x
  <1>9. toCore' = Append(Append(Append(toCore, e), a), b)
    BY <1>1, <1>4, <1>6, <1>7
  <1>10. a.kind \in {"Established", "Lifetime"}
    BY <1>4
  <1> QED
    BY <1>4, <1>6, <1>8, <1>9, <1>10, SaysThree

-----------------------------------------------------------------------------
(* The helper reads what a conforming Core wrote. *)

\* What a record of Core's has.
EstablishRec == [kind : {"Establish"}, seq : Nat, sender : {"core"}, session : {"launch"}, echo : BOOLEAN]
PublishRec ==
    [kind : {"Publish"}, seq : Nat, sender : {"core"}, session : {"launch"}, id : Nat, rev : Nat,
     version : Nat, ours : {TRUE}, bytes : Bytes]
BindRec == [kind : {"Bind"}, seq : Nat, sender : {"core"}, session : {"launch"}, ack : AckT]
CoreInvalidateRec ==
    [kind : {"Invalidate"}, seq : Nat, sender : {"core"}, session : {"launch"}, id : Nat, rev : Nat,
     reason : {"SourceMutation", "GrantLoss"}]
ErrorRec == [kind : {"Error"}, seq : Nat, sender : {"core"}, session : {"launch"}]

LEMMA SaysWhat ==
    ASSUME NEW rec \in CoreSays
    PROVE  /\ rec.sender = "core" /\ rec.session = "launch"
           /\ rec.kind \in {"Establish", "Publish", "Bind", "Invalidate", "Error"}
           /\ rec.kind = "Publish" => rec \in PublishRec
           /\ rec.kind = "Bind" => rec \in BindRec
           /\ rec.kind = "Invalidate" => rec \in CoreInvalidateRec
  <1>1. \/ rec \in EstablishRec \/ rec \in PublishRec \/ rec \in BindRec \/ rec \in CoreInvalidateRec
        \/ rec \in ErrorRec
    BY Zenon DEF CoreSays, EstablishRec, PublishRec, BindRec, CoreInvalidateRec, ErrorRec
  <1>2. rec \in EstablishRec => rec.kind = "Establish" /\ rec.sender = "core" /\ rec.session = "launch"
    BY DEF EstablishRec
  <1>3. rec \in PublishRec => rec.kind = "Publish" /\ rec.sender = "core" /\ rec.session = "launch"
    BY DEF PublishRec
  <1>4. rec \in BindRec => rec.kind = "Bind" /\ rec.sender = "core" /\ rec.session = "launch"
    BY DEF BindRec
  <1>5. rec \in CoreInvalidateRec => rec.kind = "Invalidate" /\ rec.sender = "core" /\ rec.session = "launch"
    BY DEF CoreInvalidateRec
  <1>6. rec \in ErrorRec => rec.kind = "Error" /\ rec.sender = "core" /\ rec.session = "launch"
    BY DEF ErrorRec
  <1> QED
    BY <1>1, <1>2, <1>3, <1>4, <1>5, <1>6

LEMMA PublishHas ==
    ASSUME NEW rec \in PublishRec
    PROVE  /\ rec.id \in Nat /\ rec.rev \in Nat /\ rec.version \in Nat /\ rec.bytes \in Bytes
           /\ rec.ours /\ LagOf(rec) = helper.drawn - rec.id /\ AckOf(rec) \in AckT
  <1>1. rec.id \in Nat /\ rec.rev \in Nat /\ rec.version \in Nat /\ rec.bytes \in Bytes
    BY DEF PublishRec
  <1>2. rec.ours = TRUE
    BY DEF PublishRec
  <1>3. "id" \in DOMAIN rec
    BY DEF PublishRec
  <1>4. LagOf(rec) = helper.drawn - rec.id
    BY <1>3 DEF LagOf
  <1>5. AckOf(rec) \in AckT
    BY <1>1 DEF AckOf, AckT
  <1> QED
    BY <1>1, <1>2, <1>4, <1>5

LEMMA BindHas ==
    ASSUME NEW rec \in BindRec
    PROVE  rec.ack \in AckT /\ LagOf(rec) = helper.drawn - rec.ack.id
  <1>1. rec.ack \in AckT /\ "id" \notin DOMAIN rec /\ "ack" \in DOMAIN rec
    BY DEF BindRec
  <1> QED
    BY <1>1 DEF LagOf

LEMMA InvalidateHas ==
    ASSUME NEW rec \in CoreInvalidateRec
    PROVE  /\ rec.id \in Nat /\ rec.rev \in Nat /\ rec.reason \in {"SourceMutation", "GrantLoss"}
           /\ LagOf(rec) = helper.drawn - rec.id
  <1>1. rec.id \in Nat /\ rec.rev \in Nat /\ rec.reason \in {"SourceMutation", "GrantLoss"}
    BY DEF CoreInvalidateRec
  <1>2. "id" \in DOMAIN rec
    BY DEF CoreInvalidateRec
  <1> QED
    BY <1>1, <1>2 DEF LagOf

\* The next record of a conforming Core is taken.
LEMMA Taken ==
    ASSUME NEW h \in HelperT, NEW k, NEW up, InStep(h, k, up), 1 \in DOMAIN up
    PROVE  LET f == up[1] IN
             /\ Passed(f) /\ f.rec \in CoreSays /\ f.rec.seq = h.in + 1
             /\ f.rec.kind = "Establish" <=> h.phase = "AwaitingEstablish"
  <1> DEFINE f == up[1]
  <1>1. /\ f = FrameOf(f.rec) /\ f.rec \in CoreSays /\ f.rec.seq = h.in + 1
        /\ f.rec.kind = "Establish" <=> h.in + 1 = 1
        /\ h.phase = "AwaitingEstablish" <=> h.in = 0
    BY DEF InStep
  <1>2. h.in \in Nat
    BY DEF HelperT
  <1> HIDE DEF f
  <1>3. f.rec.sender = "core" /\ f.rec.session = "launch"
    BY <1>1, SaysWhat
  <1>a. Framed(f, f.rec)
    BY <1>1, Zenon DEF Framed
  <1>4. ReadVerdict(f) = "ok"
    BY <1>a, FramedIsRead, Zenon
  <1> QED
    BY <1>1, <1>2, <1>3, <1>4 DEF Passed, f

(* A protocol violation of a conforming Core's: a rotation overtook the record. *)
Overtaken(h, k, rec) ==
    \/ rec.kind = "Publish" /\ h.drawn - rec.id >= 1
    \/ rec.kind = "Bind" /\ h.drawn - rec.ack.id >= 1
    \/ rec.kind = "Invalidate" /\ h.drawn - rec.id >= 2
    \/ k.drifted

LEMMA OnlyOvertaken ==
    ASSUME NEW h \in HelperT, NEW k \in CoreT, NEW up, NEW down, Talk(h, k, up, down), ViewTrue(h, k, view),
           1 \in DOMAIN up, AtFault(h, up[1].rec)
    PROVE  Overtaken(h, k, up[1].rec)
  <1> DEFINE rec == up[1].rec
  <1>1. /\ InStep(h, k, up) /\ Current(h) /\ Lives(h, k, up, down) /\ Versions(h, k, up)
        /\ AcksLearnt(h, k, up, down) /\ OneRound(h, k, up, down) /\ OneProof(h, k, up, down)
    BY DEF Talk
  <1>2. rec \in CoreSays /\ (rec.kind = "Establish" <=> h.phase = "AwaitingEstablish")
    BY <1>1, Taken
  <1>3. h.drawn \in Nat /\ h.version \in Nat
    BY DEF HelperT
  <1>4. \A kind : rec.kind = kind => 1 \in Ups(up, kind)
    BY DEF Ups
  <1>5. rec.kind \in {"Establish", "Publish", "Bind", "Invalidate", "Error"}
    BY <1>2, SaysWhat
  <1>6. CASE rec.kind = "Publish"
    <2>1. /\ 1 \in Ups(up, "Publish") /\ rec.version \in (h.version + 1)..k.version /\ rec.id \in 1..h.drawn
          /\ rec.id = h.drawn => h.lifetime = {LifeOf(rec)}
      BY <1>1, <1>4, <1>6 DEF Versions
    <2>2. rec.id = h.drawn => h.pending = {}
      BY <1>1, <2>1 DEF OneRound, CurPubs
    <2>3. rec.ours /\ rec.version \in Nat
      BY <1>2, <1>6, SaysWhat, PublishHas
    <2>4. {LifeOf(rec)} # h.lifetime \/ h.pending # {} \/ ~rec.ours \/ rec.version <= h.version
      BY <1>2, <1>6 DEF AtFault
    <2>5. k.version \in Nat /\ rec.version > h.version
      BY <1>3, <2>1 DEF CoreT
    <2> QED
      BY <1>3, <1>6, <2>1, <2>2, <2>3, <2>4, <2>5 DEF Overtaken
  <1>7. CASE rec.kind = "Bind"
    <2>1. 1 \in Ups(up, "Bind") /\ rec.ack.id \in 1..h.drawn
      BY <1>1, <1>4, <1>7 DEF AcksLearnt, Learnt
    <2>2. rec.ack.id = h.drawn => \E p \in h.pending : p.ack = rec.ack
      BY <1>1, <2>1 DEF OneProof, CurBinds, PendingIs
    <2>3. \A p \in h.pending : p.ack # rec.ack
      BY <1>2, <1>7 DEF AtFault
    <2> QED
      BY <1>3, <1>7, <2>1, <2>2, <2>3 DEF Overtaken
  <1>8. CASE rec.kind = "Invalidate"
    <2>1. 1 \in Ups(up, "Invalidate") /\ Proper(h, LifeOf(rec))
      BY <1>1, <1>4, <1>8 DEF Lives
    <2>2. /\ rec.id \in 1..h.drawn
          /\ rec.id = h.drawn => h.lifetime = {LifeOf(rec)}
          /\ rec.id + 1 = h.drawn => h.predecessor = {LifeOf(rec)}
          /\ LifeOf(rec).rev = rec.rev /\ LifeOf(rec).id = rec.id
      BY <2>1 DEF Proper, LifeOf
    <2>3. rec.reason # "RegistryMutation"
      BY <1>2, <1>8, SaysWhat, InvalidateHas
    <2>4. \/ h.lifetime = {LifeOf(rec)} /\ view.rev # rec.rev
          \/ h.lifetime # {LifeOf(rec)} /\ h.predecessor # {LifeOf(rec)}
      BY <1>2, <1>8, <2>3 DEF AtFault
    <2>5. CASE h.lifetime = {LifeOf(rec)} /\ view.rev # rec.rev
      BY <2>2, <2>5 DEF ViewTrue, Overtaken
    <2>6. CASE h.lifetime # {LifeOf(rec)} /\ h.predecessor # {LifeOf(rec)}
      BY <1>3, <1>8, <2>2, <2>6 DEF Overtaken
    <2> QED
      BY <2>4, <2>5, <2>6
  <1>9. CASE rec.kind \in {"Establish", "Error"}
    BY <1>2, <1>9 DEF AtFault
  <1> QED
    BY <1>5, <1>6, <1>7, <1>8, <1>9

(* The moves of the handshake keep the streams in step. *)
LEMMA Establishes ==
    ASSUME NEW h \in HelperT, NEW g \in HelperT, NEW k \in CoreT, NEW up, NEW up2, NEW down \in Seq(SaidT), NEW said,
           view.rev \in Nat, view.bytes \in Bytes,
           Talk(h, k, up, down), Skips(up, up2, 1), up # <<>>, DoesEstablish(h, g, h.in + 1, up[1].rec, said)
    PROVE  Talk(g, k, up2, down \o said) /\ ViewTrue(g, k, view)
  <1> DEFINE l == NextLife(h, view.rev)
  <1>1. Current(h) /\ Lives(h, k, up, down)
    BY DEF Talk
  <1>2. /\ h.phase = "AwaitingEstablish" /\ g.phase = "Ready" /\ g.in = h.in + 1
        /\ g.lifetime = {l} /\ g.drawn = h.drawn + 1
        /\ g.pending = h.pending /\ g.receipt = h.receipt /\ g.version = h.version
        /\ Spoken(<<>>, <<LifetimeRec("Established", l), ProjectionRec(l, view.bytes)>>, said)
    BY DEF DoesEstablish
  <1>3. h.drawn = 0 /\ h.pending = {} /\ h.receipt = {}
    BY <1>1, <1>2 DEF Current
  <1>4. l.id = h.drawn + 1 /\ l.rev = view.rev
    BY DEF NextLife
  <1>5. Announces(down, down \o said, Len(down) + 1, l)
    <2>1. h.drawn + 1 \in Nat
      BY <1>3
    <2> QED
      BY <1>2, <2>1, SaysLife DEF NextLife
  <1> HIDE DEF l
  <1>6. Follows(h, g, l)
    BY <1>2, <1>3, <1>4 DEF Follows
  <1>7. k.lifetime = {} /\ News(down) = {}
    BY <1>1, <1>3 DEF Lives, Proper
  <1>8. Talk(g, k, up2, down \o said)
    BY <1>2, <1>5, <1>6, <1>7, Renews
  <1>9. ViewTrue(g, k, view)
    BY <1>2, <1>3, <1>4 DEF ViewTrue
  <1> QED
    BY <1>8, <1>9

LEMMA Rotates ==
    ASSUME NEW h \in HelperT, NEW g \in HelperT, NEW k \in CoreT, NEW up, NEW up2, NEW down \in Seq(SaidT), NEW said,
           view.rev \in Nat, view.bytes \in Bytes,
           Talk(h, k, up, down), Skips(up, up2, 1), 1 \in DOMAIN up, up # <<>>,
           DoesRotate(h, g, h.in + 1, up[1].rec, said)
    PROVE  Talk(g, k, up2, down \o said) /\ ViewTrue(g, k, view)
  <1> DEFINE rec == up[1].rec
             l == NextLife(h, rec.rev)
  <1>1. Current(h) /\ Lives(h, k, up, down) /\ OneHolder(k, up, down)
    BY DEF Talk
  <1>2. /\ rec.kind = "Invalidate" /\ h.phase # "AwaitingEstablish" /\ g.phase = "Ready" /\ g.in = h.in + 1
        /\ h.lifetime = {LifeOf(rec)} /\ g.predecessor = h.lifetime
        /\ g.lifetime = {l} /\ g.drawn = h.drawn + 1 /\ view.rev = rec.rev
        /\ g.pending = {} /\ g.receipt = {} /\ g.version = h.version
        /\ Spoken(<<>>, <<LifetimeRec("Lifetime", l), ProjectionRec(l, view.bytes)>>, said)
    BY DEF DoesRotate
  <1>3. h.drawn \in Nat /\ rec.id = h.drawn
    BY <1>1, <1>2 DEF Current, LifeOf, HelperT
  <1>4. l.id = h.drawn + 1 /\ l.rev = view.rev
    BY <1>2 DEF NextLife
  <1>5. Announces(down, down \o said, Len(down) + 1, l)
    <2>1. h.drawn + 1 \in Nat /\ rec.rev \in Nat
      BY <1>2, <1>3
    <2> QED
      BY <1>2, <2>1, SaysLife DEF NextLife
  <1>6. 1 \in Ups(up, "Invalidate")
    BY <1>2 DEF Ups
  <1>7. k.lifetime = {}
    <2> SUFFICES ASSUME NEW x \in k.lifetime PROVE FALSE
      OBVIOUS
    <2>1. x.id \in 1..h.drawn /\ rec.id < x.id
      BY <1>1, <1>6 DEF Lives, Proper, OneHolder
    <2> QED
      BY <1>3, <2>1
  <1>8. News(down) = {}
    <2> SUFFICES ASSUME NEW j \in News(down) PROVE FALSE
      OBVIOUS
    <2>1. down[j].id \in 1..h.drawn /\ rec.id < down[j].id
      BY <1>1, <1>6 DEF Lives, Proper, OneHolder, LifeOf
    <2> QED
      BY <1>3, <2>1
  <1> HIDE DEF l
  <1>9. Follows(h, g, l)
    BY <1>2, <1>3, <1>4 DEF Follows
  <1>10. Talk(g, k, up2, down \o said)
    BY <1>2, <1>5, <1>7, <1>8, <1>9, Renews
  <1>11. ViewTrue(g, k, view)
    BY <1>2, <1>4 DEF ViewTrue
  <1> QED
    BY <1>10, <1>11

LEMMA Publishes ==
    ASSUME NEW h \in HelperT, NEW g \in HelperT, NEW k \in CoreT, NEW up, NEW up2, NEW down \in Seq(SaidT), NEW said,
           Talk(h, k, up, down), ViewTrue(h, k, view), Skips(up, up2, 1), up[1].rec \in PublishRec,
           DoesPublish(h, g, h.in + 1, up[1].rec, said)
    PROVE  Talk(g, k, up2, down \o said) /\ ViewTrue(g, k, view)
  <1> DEFINE rec == up[1].rec
             body == [kind |-> "Ack", seq |-> 0, ack |-> AckOf(rec)]
  <1>1. /\ rec.kind = "Publish" /\ LifeKept(h, g, h.in + 1) /\ h.lifetime = {LifeOf(rec)} /\ g.predecessor = h.predecessor
        /\ g.receipt = {} /\ g.version = rec.version
        /\ \E p : g.pending = {p} /\ p.ack = AckOf(rec)
        /\ Spoken(<<>>, <<body>>, said)
    BY DEF DoesPublish
  <1>2. AckOf(rec) \in AckT
    BY PublishHas
  <1>3. body \in SaidT
    BY <1>2 DEF SaidT
  <1>4. \A n : Numbered(body, n).kind = "Ack" /\ Numbered(body, n).ack = AckOf(rec)
    BY DEF Numbered
  <1> HIDE DEF body
  <1>5. PICK n \in Nat : Adds(down, down \o said, Numbered(body, n))
    BY <1>1, <1>3, SaysOne
  <1> DEFINE f == Numbered(body, n)
  <1>6. f.kind = "Ack" /\ f.ack = AckOf(rec) /\ Adds(down, down \o said, f)
    BY <1>4, <1>5
  <1> HIDE DEF f
  <1>7. SameLife(h, g)
    BY <1>1 DEF LifeKept, SameLife
  <1>8. Talk(g, k, up2, down \o said)
    BY <1>1, <1>6, <1>7, TakesPublish
  <1>9. ViewTrue(g, k, view)
    BY <1>1 DEF ViewTrue, LifeKept
  <1> QED
    BY <1>8, <1>9

LEMMA Binds ==
    ASSUME NEW h \in HelperT, NEW g \in HelperT, NEW k \in CoreT, NEW up, NEW up2, NEW down \in Seq(SaidT), NEW said,
           Talk(h, k, up, down), ViewTrue(h, k, view), Skips(up, up2, 1), up[1].rec \in BindRec,
           DoesBind(h, g, h.in + 1, up[1].rec, said)
    PROVE  Talk(g, k, up2, down \o said) /\ ViewTrue(g, k, view)
  <1> DEFINE rec == up[1].rec
             body == [kind |-> "Bound", seq |-> 0, ack |-> rec.ack]
  <1>1. /\ rec.kind = "Bind" /\ LifeKept(h, g, h.in + 1) /\ g.predecessor = h.predecessor
        /\ \E p \in h.pending : p.ack = rec.ack
        /\ \E p \in h.pending : RetainedMatches(p)
        /\ g.receipt = h.pending /\ g.pending = {} /\ g.version = h.version
        /\ Spoken(<<>>, <<body>>, said)
    BY DEF DoesBind
  <1>2. rec.ack \in AckT
    BY BindHas
  <1>3. body \in SaidT
    BY <1>2 DEF SaidT
  <1>4. \A n : Numbered(body, n).kind = "Bound" /\ Numbered(body, n).ack = rec.ack
    BY DEF Numbered
  <1> HIDE DEF body
  <1>5. PICK n \in Nat : Adds(down, down \o said, Numbered(body, n))
    BY <1>1, <1>3, SaysOne
  <1> DEFINE f == Numbered(body, n)
  <1>6. f.kind = "Bound" /\ f.ack = rec.ack /\ Adds(down, down \o said, f)
    BY <1>4, <1>5
  <1> HIDE DEF f
  <1>7. SameLife(h, g)
    BY <1>1 DEF LifeKept, SameLife
  <1>8. Talk(g, k, up2, down \o said)
    BY <1>1, <1>6, <1>7, TakesBind
  <1>9. \A p, q \in h.pending : p = q
    BY DEF Talk, Current
  <1>10. \A p \in h.pending : p.bytes = view.bytes /\ p.ack.rev = view.rev
    BY <1>1, <1>9 DEF RetainedMatches
  <1>11. ViewTrue(g, k, view)
    BY <1>1, <1>10 DEF ViewTrue, LifeKept
  <1> QED
    BY <1>8, <1>11

LEMMA Crosses ==
    ASSUME NEW h \in HelperT, NEW g \in HelperT, NEW k \in CoreT, NEW up, NEW up2, NEW down \in Seq(SaidT), NEW said,
           Talk(h, k, up, down), ViewTrue(h, k, view), Skips(up, up2, 1),
           DoesCross(h, g, h.in + 1, up[1].rec, said)
    PROVE  Talk(g, k, up2, down \o said) /\ ViewTrue(g, k, view)
  <1> DEFINE rec == up[1].rec
  <1>1. /\ rec.kind = "Invalidate" /\ LifeKept(h, g, h.in + 1) /\ h.lifetime # {LifeOf(rec)} /\ h.predecessor = {LifeOf(rec)}
        /\ g.receipt = h.receipt /\ g.pending = h.pending /\ g.version = h.version
        /\ said = <<>>
    BY DEF DoesCross
  <1>2. SameLife(h, g)
    BY <1>1 DEF LifeKept, SameLife
  <1>3. IsSeq(down) /\ down \o said = down
    BY <1>1 DEF IsSeq
  <1>4. Talk(g, k, up2, down)
    BY <1>1, <1>2, <1>3, TakesCrossed
  <1>5. ViewTrue(g, k, view)
    BY <1>1 DEF ViewTrue, LifeKept
  <1> QED
    BY <1>3, <1>4, <1>5

\* What a fault against a conforming Core is put down to.
Cause(b, drifted) ==
    \/ b.kind \in {"Publish", "Bind"} /\ b.lag >= 1
    \/ b.kind = "Invalidate" /\ b.lag >= 2
    \/ drifted \/ b.error = "AlreadyEstablished"

LEMMA HeadRead ==
    ASSUME LaunchInv, toHelper # <<>>
    PROVE  /\ PublishTyped(Head(toHelper)) /\ 1 \in DOMAIN toHelper /\ Head(toHelper) = toHelper[1]
           /\ Skips(toHelper, Tail(toHelper), 1)
  <1>1. toHelper \in Seq(FrameT) /\ \A i \in DOMAIN toHelper : FrameTrue(toHelper[i])
    BY DEF LaunchInv, FramesTrue
  <1>2. 1 \in DOMAIN toHelper /\ Head(toHelper) = toHelper[1] /\ Skips(toHelper, Tail(toHelper), 1)
    BY <1>1, ReadsOff
  <1>3. FrameTrue(toHelper[1])
    BY <1>1, <1>2
  <1> QED
    BY <1>2, <1>3 DEF FrameTrue

LEMMA FrameSettles ==
    ASSUME LaunchInv, Talk(helper, core, toHelper, toCore), ViewTrue(helper, core, view),
           NEW env, NEW dead \in Int, ReadAndHandle(env, dead)
    PROVE  \/ /\ helper'.phase = "Revoked"
              /\ helper'.revocation = "ProtocolViolation" => \E b \in blame' : Cause(b, core.drifted)
           \/ Talk(helper', core, toHelper', toCore') /\ ViewTrue(helper', core, view)
  <1> DEFINE f == Head(toHelper)
             rec == f.rec
             taken == Passed(f) /\ rec.seq = helper.in + 1
  <1>1. /\ helper \in HelperT /\ core \in CoreT /\ toCore \in Seq(SaidT) /\ view.rev \in Nat /\ view.bytes \in Bytes
        /\ helper.in \in Nat /\ helper.drawn \in Nat
    BY DEF LaunchInv, LaunchTypes, HelperT
  <1>2. toHelper # <<>> /\ helper.phase # "Revoked" /\ toHelper' = Tail(toHelper)
    BY DEF ReadAndHandle
  <1>3. PublishTyped(f) /\ 1 \in DOMAIN toHelper /\ f = toHelper[1] /\ Skips(toHelper, toHelper', 1)
    BY <1>2, HeadRead
  <1>4. helper.revocation = "none" /\ (Active => helper.lifetime # {})
    BY <1>2 DEF LaunchInv, Authority
  <1>5. helper' \in HelperT
    BY <1>1, <1>2, <1>3, <1>4, FrameHandled
  <1>6. PICK said \in Seq(SaidT) :
          /\ toCore' = toCore \o said
          /\ taken => /\ Comes(helper, helper', helper.in + 1, rec, said)
                      /\ helper'.revocation = "ProtocolViolation" => \E b \in blame' : b.kind = rec.kind /\ b.lag = LagOf(rec)
    BY <1>1, <1>2, <1>3, FrameComes
  <1>7. InStep(helper, core, toHelper)
    BY DEF Talk
  <1>8. Passed(toHelper[1]) /\ toHelper[1].rec \in CoreSays /\ toHelper[1].rec.seq = helper.in + 1
    BY <1>1, <1>3, <1>7, Taken
  <1>9. taken /\ rec = toHelper[1].rec /\ rec \in CoreSays
    BY <1>3, <1>8
  <1> HIDE DEF f, rec, taken
  <1>10. CASE DoesEstablish(helper, helper', helper.in + 1, rec, said)
    BY <1>1, <1>2, <1>3, <1>5, <1>6, <1>9, <1>10, Establishes
  <1>11. CASE DoesPublish(helper, helper', helper.in + 1, rec, said)
    <2>1. rec \in PublishRec
      BY <1>9, <1>11, SaysWhat DEF DoesPublish
    <2> QED
      BY <1>1, <1>3, <1>5, <1>6, <1>9, <1>11, <2>1, Publishes
  <1>12. CASE DoesBind(helper, helper', helper.in + 1, rec, said)
    <2>1. rec \in BindRec
      BY <1>9, <1>12, SaysWhat DEF DoesBind
    <2> QED
      BY <1>1, <1>3, <1>5, <1>6, <1>9, <1>12, <2>1, Binds
  <1>13. CASE DoesRotate(helper, helper', helper.in + 1, rec, said)
    BY <1>1, <1>2, <1>3, <1>5, <1>6, <1>9, <1>13, Rotates
  <1>14. CASE DoesCross(helper, helper', helper.in + 1, rec, said)
    BY <1>1, <1>3, <1>5, <1>6, <1>9, <1>14, Crosses
  <1>15. CASE EndsOver(helper, helper', rec)
    <2>1. helper'.phase = "Revoked"
      BY <1>15 DEF EndsOver
    <2>2. ASSUME helper'.revocation = "ProtocolViolation"
          PROVE  \E b \in blame' : Cause(b, core.drifted)
      <3>1. AtFault(helper, rec)
        BY <1>15, <2>2 DEF EndsOver
      <3>2. Overtaken(helper, core, rec)
        BY <1>1, <1>3, <1>9, <3>1, OnlyOvertaken
      <3>3. PICK b \in blame' : b.kind = rec.kind /\ b.lag = LagOf(rec)
        BY <1>6, <1>9, <2>2
      <3>4. CASE rec.kind = "Publish" /\ helper.drawn - rec.id >= 1
        <4>1. b.lag = helper.drawn - rec.id
          BY <1>9, <3>3, <3>4, SaysWhat, PublishHas
        <4> QED
          BY <3>3, <3>4, <4>1 DEF Cause
      <3>5. CASE rec.kind = "Bind" /\ helper.drawn - rec.ack.id >= 1
        <4>1. b.lag = helper.drawn - rec.ack.id
          BY <1>9, <3>3, <3>5, SaysWhat, BindHas
        <4> QED
          BY <3>3, <3>5, <4>1 DEF Cause
      <3>6. CASE rec.kind = "Invalidate" /\ helper.drawn - rec.id >= 2
        <4>1. b.lag = helper.drawn - rec.id
          BY <1>9, <3>3, <3>6, SaysWhat, InvalidateHas
        <4> QED
          BY <3>3, <3>6, <4>1 DEF Cause
      <3>7. CASE core.drifted
        BY <3>3, <3>7 DEF Cause
      <3> QED
        BY <3>2, <3>4, <3>5, <3>6, <3>7 DEF Overtaken
    <2> QED
      BY <2>1, <2>2
  <1> QED
    BY <1>6, <1>9, <1>10, <1>11, <1>12, <1>13, <1>14, <1>15 DEF Comes

(* The helper's own calls. *)
SettledStep ==
    \/ /\ helper'.phase = "Revoked"
       /\ helper'.revocation = "ProtocolViolation" => \E b \in blame' : Cause(b, core.drifted)
    \/ Talk(helper', core, toHelper', toCore') /\ ViewTrue(helper', core, view')

LEMMA RenewalSettles ==
    ASSUME LaunchInv, Talk(helper, core, toHelper, toCore), Active, helper' \in HelperT, toHelper' = toHelper,
           NEW rev \in Nat, NEW bytes \in Bytes, NEW reason \in {"RegistryMutation", "Reset"},
           Renewed(helper, helper', rev), Announced(IdOf(helper), reason, rev, bytes), view'.rev = rev
    PROVE  SettledStep
  <1> DEFINE l == NextLife(helper, rev)
  <1>1. /\ helper \in HelperT /\ core \in CoreT /\ toCore \in Seq(SaidT) /\ helper.in \in Nat /\ helper.drawn \in Nat
        /\ helper.lifetime \subseteq Life
    BY DEF LaunchInv, LaunchTypes, HelperT
  <1>2. helper.lifetime # {} /\ helper.phase # "AwaitingEstablish"
    BY DEF LaunchInv, Authority, Active
  <1>3. IdOf(helper) \in Life
    BY <1>1, <1>2 DEF IdOf
  <1>4. Announces(toCore, toCore', Len(toCore) + 2, l)
    BY <1>1, <1>3, SaysRotation
  <1>5. l.id = helper.drawn + 1 /\ l.rev = rev
    BY DEF NextLife
  <1>6. /\ helper'.phase = "Ready" /\ helper'.lifetime = {l} /\ helper'.predecessor = helper.lifetime
        /\ helper'.pending = {} /\ helper'.receipt = {} /\ helper'.version = helper.version
        /\ helper'.in = helper.in /\ helper'.drawn = helper.drawn + 1
    BY DEF Renewed, NextLife
  <1> HIDE DEF l
  <1>7. Follows(helper, helper', l)
    BY <1>5, <1>6 DEF Follows
  <1>8. Skips(toHelper, toHelper', 0)
    BY StandsStill DEF LaunchInv, FramesTrue
  <1>9. helper'.in = helper.in + 0 /\ Len(toCore) + 2 # Len(toCore) + 1
    BY <1>1, <1>6
  <1>10. Talk(helper', core, toHelper', toCore')
    BY <1>1, <1>2, <1>4, <1>7, <1>8, <1>9, Renews
  <1>11. ViewTrue(helper', core, view')
    BY <1>5, <1>6 DEF ViewTrue
  <1> QED
    BY <1>10, <1>11 DEF SettledStep

LEMMA OwnEndSettles ==
    ASSUME Talk(helper, core, toHelper, toCore), ViewTrue(helper, core, view), helper.lifetime # {},
           NEW why, EndsOwn(why), why = "ProtocolViolation" => view.rev # IdOf(helper).rev,
           helper'.revocation = "ProtocolViolation" => blame' # {}
    PROVE  SettledStep
  <1>1. helper'.phase = "Revoked" /\ helper'.revocation = why
    BY DEF EndsOwn, Ended
  <1>2. IdOf(helper) \in helper.lifetime
    BY DEF IdOf
  <1>3. why = "ProtocolViolation" => core.drifted
    BY <1>2 DEF ViewTrue
  <1> QED
    BY <1>1, <1>3 DEF SettledStep, Cause

LEMMA BlameLaid ==
    ASSUME NEW c, helper' = c.h, blame' = Blamed(c, "call", 0), helper'.revocation = "ProtocolViolation"
    PROVE  \E b \in blame' : b.error = c.error
  BY DEF Blamed

LEMMA CallsSettle ==
    ASSUME LaunchInv, Talk(helper, core, toHelper, toCore), ViewTrue(helper, core, view), HelperStep \/ HelperMoves
    PROVE  SettledStep
  <1>1. /\ helper \in HelperT /\ toCore \in Seq(SaidT) /\ view \in [rev : Nat, bytes : Bytes]
        /\ view.rev \in Nat /\ view.bytes \in Bytes /\ helper.lifetime \subseteq Life
    BY DEF LaunchInv, LaunchTypes, HelperT
  <1>2. Active => helper.lifetime # {}
    BY DEF LaunchInv, Authority
  <1>3. ASSUME NEW env, NEW dead \in Int, ReadAndHandle(env, dead)
        PROVE  SettledStep
    <2>1. view' = view
      BY <1>3 DEF ReadAndHandle
    <2> QED
      BY <1>3, <2>1, FrameSettles DEF SettledStep
  <1>4. helper.lifetime # {} => IdOf(helper).rev \in Nat
    <2>1. helper.lifetime # {} => IdOf(helper) \in Life
      BY <1>1 DEF IdOf
    <2> QED
      BY <2>1 DEF Life
  <1>5. ASSUME NEW bytes \in Payloads, NEW step \in Nat, NEW env, NEW dead \in Int,
               RegistryMutated(bytes, step, env, dead)
        PROVE  SettledStep
    <2> DEFINE l == IdOf(helper)
    <2>1. Active /\ toHelper' = toHelper
      BY <1>5 DEF RegistryMutated
    <2>2. helper.lifetime # {} /\ l.rev \in Nat
      BY <1>2, <1>4, <2>1
    <2>3. \E c : helper' = c.h /\ blame' = Blamed(c, "call", 0)
      BY <1>5 DEF RegistryMutated, Done
    <2>4. helper'.revocation = "ProtocolViolation" => blame' # {}
      BY <2>3, BlameLaid
    <2>5. /\ helper' \in HelperT
          /\ \/ /\ Renewed(helper, helper', l.rev + 1) /\ Announced(l, "RegistryMutation", l.rev + 1, bytes)
                /\ view.rev = l.rev /\ view' = [rev |-> view.rev + 1, bytes |-> bytes]
             \/ \E why \in OwnReasons :
                  EndsOwn(why) /\ (why = "ProtocolViolation" => view.rev # l.rev)
      BY <1>1, <1>5, <2>2, RegistryMutatedHandled
    <2> HIDE DEF l
    <2>6. CASE /\ Renewed(helper, helper', l.rev + 1) /\ Announced(l, "RegistryMutation", l.rev + 1, bytes)
               /\ view.rev = l.rev /\ view' = [rev |-> view.rev + 1, bytes |-> bytes]
      <3>1. view'.rev = l.rev + 1 /\ l.rev + 1 \in Nat /\ bytes \in Bytes
        BY <2>2, <2>6 DEF Bytes
      <3> QED
        BY <2>1, <2>5, <2>6, <3>1, RenewalSettles DEF l
    <2>7. CASE \E why \in OwnReasons : EndsOwn(why) /\ (why = "ProtocolViolation" => view.rev # l.rev)
      BY <2>2, <2>4, <2>7, OwnEndSettles DEF l
    <2> QED
      BY <2>5, <2>6, <2>7
  <1>6. ASSUME NEW env, NEW dead \in Int, HelperReset(env, dead)
        PROVE  SettledStep
    <2> DEFINE l == IdOf(helper)
    <2>1. Active /\ toHelper' = toHelper /\ view' = view
      BY <1>6 DEF HelperReset
    <2>2. helper.lifetime # {} /\ l.rev \in Nat
      BY <1>2, <1>4, <2>1
    <2>3. \E c : helper' = c.h /\ blame' = Blamed(c, "call", 0)
      BY <1>6 DEF HelperReset, Done
    <2>4. helper'.revocation = "ProtocolViolation" => blame' # {}
      BY <2>3, BlameLaid
    <2>5. /\ helper' \in HelperT
          /\ \/ /\ Renewed(helper, helper', l.rev) /\ Announced(l, "Reset", l.rev, view.bytes)
                /\ view.rev = l.rev
             \/ \E why \in OwnReasons :
                  EndsOwn(why) /\ (why = "ProtocolViolation" => view.rev # l.rev)
      BY <1>1, <1>6, <2>2, ResetHandled
    <2> HIDE DEF l
    <2>6. CASE /\ Renewed(helper, helper', l.rev) /\ Announced(l, "Reset", l.rev, view.bytes)
               /\ view.rev = l.rev
      BY <1>1, <2>1, <2>2, <2>5, <2>6, RenewalSettles DEF l
    <2>7. CASE \E why \in OwnReasons : EndsOwn(why) /\ (why = "ProtocolViolation" => view.rev # l.rev)
      BY <2>2, <2>4, <2>7, OwnEndSettles DEF l
    <2> QED
      BY <2>5, <2>6, <2>7
  <1>7. CASE EstablishAgain
    <2> DEFINE c == Call(helper, -1)
               r == Fail(c, ProtocolFault("AlreadyEstablished"))
    <2>1. helper' = r.h /\ blame' = Blamed(r, "call", 0)
      BY <1>7 DEF EstablishAgain, Done
    <2>2. c \in CallT
      BY <1>1 DEF Call, CallT
    <2>3. "AlreadyEstablished" \in Errors
      BY DEF Errors
    <2>4. /\ IsFault(ProtocolFault("AlreadyEstablished"))
          /\ ProtocolFault("AlreadyEstablished").error = "AlreadyEstablished"
      BY <2>3, FaultsKnown DEF ProtocolFault, Fault
    <2> HIDE DEF c
    <2>5. r.error = "AlreadyEstablished" /\ r.h.phase = "Revoked"
      BY <2>2, <2>4, Fails DEF Ended
    <2> HIDE DEF r
    <2>6. helper'.phase = "Revoked"
          /\ (helper'.revocation = "ProtocolViolation" => \E b \in blame' : b.error = "AlreadyEstablished")
      BY <2>1, <2>5, BlameLaid
    <2> QED
      BY <2>6 DEF SettledStep, Cause
  <1>8. CASE Close
    <2>1. helper'.phase = "Revoked" /\ helper'.revocation = "LocalClose"
      BY <1>1, <1>8 DEF Close, ClearAuthority, HelperT
    <2> QED
      BY <2>1 DEF SettledStep
  <1>12. 0 \in Nat /\ 1 \in Nat /\ 2 \in Nat /\ -1 \in Int /\ 0..2 \subseteq Int /\ 0..1 \subseteq Int /\ 0..2 \subseteq Nat
    OBVIOUS
  <1>13. CASE HelperStep
    BY <1>3, <1>12, <1>13 DEF HelperStep
  <1>14. CASE HelperFaultyStep
    BY <1>3, <1>12, <1>14 DEF HelperFaultyStep
  <1>15. CASE HelperMoves
    BY <1>5, <1>6, <1>7, <1>8, <1>12, <1>14, <1>15 DEF HelperMoves
  <1> QED
    BY <1>13, <1>15

-----------------------------------------------------------------------------
(* Core's moves. *)

\* k2 is k, as far as the two streams go.
SameCore(k, k2) ==
    /\ k2.seq = k.seq /\ k2.lifetime = k.lifetime /\ k2.sent = k.sent /\ k2.acked = k.acked
    /\ k2.receipt = k.receipt /\ k2.version = k.version

LEMMA TalkSame ==
    ASSUME NEW h, NEW k, NEW k2, NEW up, NEW down, Talk(h, k, up, down), SameCore(k, k2)
    PROVE  Talk(h, k2, up, down)
  <1>1. /\ k2.seq = k.seq /\ k2.lifetime = k.lifetime /\ k2.sent = k.sent /\ k2.acked = k.acked
        /\ k2.receipt = k.receipt /\ k2.version = k.version
    BY DEF SameCore
  <1>2. /\ InStep(h, k, up) /\ Current(h) /\ Lives(h, k, up, down) /\ OneHolder(k, up, down)
        /\ Turns(k, down) /\ CoreTidy(k) /\ Versions(h, k, up) /\ AcksLearnt(h, k, up, down)
        /\ OneRound(h, k, up, down) /\ OneProof(h, k, up, down)
        /\ CurrentHeld(h, k, up, down) /\ Receipts(h, k, up, down)
    BY DEF Talk
  <1>3. InStep(h, k2, up) /\ Lives(h, k2, up, down) /\ Versions(h, k2, up)
    BY <1>1, <1>2, Zenon DEF InStep, Lives, Versions
  <1>4. OneHolder(k2, up, down) /\ Turns(k2, down) /\ CoreTidy(k2)
    BY <1>1, <1>2, Zenon DEF OneHolder, Turns, CoreTidy
  <1>5. AcksLearnt(h, k2, up, down) /\ OneProof(h, k2, up, down)
    BY <1>1, <1>2, Zenon DEF AcksLearnt, OneProof
  <1>6. OneRound(h, k2, up, down)
    BY <1>1, <1>2, Zenon DEF OneRound, SentIs
  <1>7. CurrentHeld(h, k2, up, down) /\ Receipts(h, k2, up, down)
    BY <1>1, <1>2, Zenon DEF CurrentHeld, Receipts
  <1> QED
    BY <1>2, <1>3, <1>4, <1>5, <1>6, <1>7 DEF Talk

LEMMA Sent ==
    ASSUME toHelper \in Seq(FrameT), NEW rec \in CoreSays, NEW next \in CoreT, CoreSend(rec, next)
    PROVE  /\ \E f : Adds(toHelper, toHelper', f) /\ Framed(f, rec)
           /\ core'.seq = next.seq + 1 /\ core'.lifetime = next.lifetime /\ core'.sent = next.sent
           /\ core'.acked = next.acked /\ core'.receipt = next.receipt /\ core'.version = next.version
           /\ core'.rogue = next.rogue /\ core'.drifted = next.drifted /\ core'.withdrawn = next.withdrawn
           /\ view' = view /\ toCore' = toCore /\ helper' = helper
  <1> DEFINE f == FrameOf(rec)
             n == next.seq + 1
  <1>1. f \in FrameT /\ f.rec = rec
    BY DEF FrameT, FrameOf
  <1>2. /\ toHelper' = Append(toHelper, f) /\ core' = [next EXCEPT !.seq = n]
        /\ view' = view /\ toCore' = toCore /\ helper' = helper
    BY DEF CoreSend
  <1>3. Framed(f, rec)
    BY <1>1, Zenon DEF Framed
  <1> HIDE DEF f, n
  <1>4. Adds(toHelper, toHelper', f)
    BY <1>1, <1>2, WritesOn
  <1>5. /\ core'.seq = n /\ core'.lifetime = next.lifetime /\ core'.sent = next.sent
        /\ core'.acked = next.acked /\ core'.receipt = next.receipt /\ core'.version = next.version
        /\ core'.rogue = next.rogue /\ core'.drifted = next.drifted /\ core'.withdrawn = next.withdrawn
    BY <1>2 DEF CoreT
  <1> QED
    BY <1>2, <1>3, <1>4, <1>5 DEF n

TalkStep == Talk(helper, core', toHelper', toCore') /\ ViewTrue(helper, core', view')

TalkNow == Talk(helper, core, toHelper, toCore) /\ ViewTrue(helper, core, view)

\* What Core was it stays, and a withdrawal is on its way or has been heard.
Onward ==
    /\ (core.rogue => core'.rogue) /\ (core.drifted => core'.drifted)
    /\ UNCHANGED <<helper, blame>> /\ WithdrawnInv'

CoreStep == Onward /\ (TalkNow /\ helper.phase # "Revoked" /\ ~core'.rogue => TalkStep)

LEMMA SentOnward ==
    ASSUME toHelper \in Seq(FrameT), WithdrawnInv, NEW rec \in CoreSays, NEW next \in CoreT, CoreSend(rec, next),
           core.rogue => next.rogue, next.drifted = core.drifted,
           next.withdrawn => core.withdrawn \/ Withdrawing(rec)
    PROVE  Onward
  <1>1. PICK f : Adds(toHelper, toHelper', f) /\ Framed(f, rec)
    BY Sent
  <1>2. /\ core'.rogue = next.rogue /\ core'.drifted = next.drifted /\ core'.withdrawn = next.withdrawn
        /\ toCore' = toCore /\ helper' = helper
    BY Sent
  <1>3. blame' = blame
    BY DEF CoreSend
  <1>4. /\ \A i \in DOMAIN toHelper : i \in DOMAIN toHelper' /\ toHelper'[i] = toHelper[i]
        /\ Len(toHelper') \in DOMAIN toHelper' /\ toHelper'[Len(toHelper')] = f
    BY <1>1 DEF Adds, IsSeq
  <1>5. f.rec = rec
    BY <1>1 DEF Framed
  <1>6. core'.withdrawn => helper'.phase = "Revoked" \/ \E i \in DOMAIN toHelper' : Withdrawing(toHelper'[i].rec)
    <2>1. CASE core.withdrawn
      BY <1>2, <1>4, <2>1 DEF WithdrawnInv
    <2>2. CASE Withdrawing(rec)
      BY <1>4, <1>5, <2>2
    <2> QED
      BY <1>2, <2>1, <2>2
  <1>7. \A x \in Downs(toCore', "Error") : helper'.phase = "Revoked"
    BY <1>2 DEF WithdrawnInv
  <1>8. WithdrawnInv'
    BY <1>6, <1>7 DEF WithdrawnInv
  <1> QED
    BY <1>2, <1>3, <1>8 DEF Onward

LEMMA SendsEstablish ==
    ASSUME core \in CoreT, helper \in HelperT, toHelper \in Seq(FrameT), WithdrawnInv,
           NEW echo \in BOOLEAN, CoreEstablish(echo)
    PROVE  CoreStep
  <1> DEFINE rec == [kind |-> "Establish", seq |-> 1, sender |-> "core", session |-> "launch", echo |-> echo]
             b == core.rogue \/ ~echo
             next == [core EXCEPT !.echoed = echo, !.rogue = b]
  <1>1. core.seq = 0 /\ CoreSend(rec, next)
    BY DEF CoreEstablish
  <1>2. rec \in EstablishRec
    BY DEF EstablishRec
  <1>3. rec \in CoreSays
    BY <1>2, Zenon DEF CoreSays, EstablishRec
  <1>4. rec.kind = "Establish" /\ rec.seq = core.seq + 1 /\ rec.echo = echo
    BY <1>1
  <1>5. b \in BOOLEAN /\ (b => core.rogue \/ ~echo) /\ (~b => echo) /\ (core.rogue => b)
    OBVIOUS
  <1> HIDE DEF rec, b
  <1>6. next \in CoreT /\ SameCore(core, next) /\ next.rogue = b /\ next.drifted = core.drifted /\ next.withdrawn = core.withdrawn
    BY <1>5 DEF CoreT, SameCore
  <1> HIDE DEF next
  <1>7. PICK f : Adds(toHelper, toHelper', f) /\ Framed(f, rec)
    BY <1>1, <1>3, <1>6, Sent
  <1>8. /\ core'.seq = next.seq + 1 /\ core'.lifetime = next.lifetime /\ core'.sent = next.sent
        /\ core'.acked = next.acked /\ core'.receipt = next.receipt /\ core'.version = next.version
        /\ core'.rogue = next.rogue /\ core'.drifted = next.drifted
        /\ view' = view /\ toCore' = toCore
    BY <1>1, <1>3, <1>6, Sent
  <1>10. ASSUME TalkNow, ~core'.rogue
         PROVE  TalkStep
    <2>0. Talk(helper, core, toHelper, toCore)
      BY <1>10 DEF TalkNow
    <2>a. rec.echo
      BY <1>4, <1>5, <1>6, <1>8, <1>10
    <2>1. Talk(helper, core', toHelper', toCore)
      BY <2>0, <1>1, <1>3, <1>4, <1>6, <1>7, <1>8, <2>a, CoreAnnounces DEF SameCore
    <2> QED
      BY <1>10, <1>6, <1>8, <2>1 DEF TalkNow, TalkStep, ViewTrue
  <1>20. Onward
    BY <1>1, <1>3, <1>5, <1>6, SentOnward
  <1> QED
    BY <1>10, <1>20 DEF CoreStep

LEMMA SendsError ==
    ASSUME core \in CoreT, helper \in HelperT, toHelper \in Seq(FrameT), WithdrawnInv,
           CoreError
    PROVE  CoreStep
  <1> DEFINE rec == [kind |-> "Error", seq |-> core.seq + 1, sender |-> "core", session |-> "launch"]
             next == [core EXCEPT !.withdrawn = TRUE]
  <1>0. core.seq \in Nat
    BY DEF CoreT
  <1>1. core.seq # 0 /\ CoreSend(rec, next)
    BY <1>0 DEF CoreError
  <1>2. rec \in ErrorRec
    BY <1>0 DEF ErrorRec
  <1>3. rec \in CoreSays
    BY <1>2, Zenon DEF CoreSays, ErrorRec
  <1>4. rec.kind = "Error" /\ rec.seq = core.seq + 1 /\ Withdrawing(rec)
    BY DEF Withdrawing
  <1> HIDE DEF rec
  <1>6. next \in CoreT /\ SameCore(core, next) /\ next.drifted = core.drifted /\ next.rogue = core.rogue
    BY DEF CoreT, SameCore
  <1> HIDE DEF next
  <1>7. PICK f : Adds(toHelper, toHelper', f) /\ Framed(f, rec)
    BY <1>1, <1>3, <1>6, Sent
  <1>8. /\ core'.seq = next.seq + 1 /\ core'.lifetime = next.lifetime /\ core'.sent = next.sent
        /\ core'.acked = next.acked /\ core'.receipt = next.receipt /\ core'.version = next.version
        /\ core'.drifted = next.drifted
        /\ view' = view /\ toCore' = toCore
    BY <1>1, <1>3, <1>6, Sent
  <1>10. ASSUME TalkNow, ~core'.rogue
         PROVE  TalkStep
    <2>0. Talk(helper, core, toHelper, toCore)
      BY <1>10 DEF TalkNow
    <2>1. Talk(helper, core', toHelper', toCore)
      BY <2>0, <1>1, <1>3, <1>4, <1>6, <1>7, <1>8, CoreAnnounces DEF SameCore
    <2> QED
      BY <1>10, <1>6, <1>8, <2>1 DEF TalkNow, TalkStep, ViewTrue
  <1>20. Onward
    BY <1>1, <1>3, <1>4, <1>6, SentOnward
  <1> QED
    BY <1>10, <1>20 DEF CoreStep

LEMMA SendsPublish ==
    ASSUME core \in CoreT, helper \in HelperT, toHelper \in Seq(FrameT), WithdrawnInv,
           NEW bytes \in Payloads, CorePublish(bytes)
    PROVE  CoreStep
  <1>0. core.seq \in Nat /\ core.version \in Nat
    BY DEF CoreT
  <1>1. PICK l \in core.lifetime :
          /\ core.sent = {}
          /\ CoreSend([kind |-> "Publish", seq |-> core.seq + 1, sender |-> "core", session |-> "launch",
                       id |-> l.id, rev |-> l.rev, version |-> core.version + 1, ours |-> TRUE, bytes |-> bytes],
                      [core EXCEPT !.version = @ + 1, !.receipt = {},
                                   !.sent = {[id |-> l.id, rev |-> l.rev, version |-> core.version + 1]},
                                   !.rogue = @ \/ {bytes} # core.bytes])
    BY DEF CorePublish
  <1> DEFINE rec == [kind |-> "Publish", seq |-> core.seq + 1, sender |-> "core", session |-> "launch",
                     id |-> l.id, rev |-> l.rev, version |-> core.version + 1, ours |-> TRUE, bytes |-> bytes]
             ack == [id |-> l.id, rev |-> l.rev, version |-> core.version + 1]
             n == core.version + 1
             b == core.rogue \/ {bytes} # core.bytes
             next == [core EXCEPT !.version = n, !.receipt = {}, !.sent = {ack}, !.rogue = b]
  <1>2. l \in Life /\ l.id \in Nat /\ l.rev \in Nat /\ bytes \in Bytes
    BY DEF CoreT, Life, Bytes
  <1>3. rec \in PublishRec
    BY <1>0, <1>2 DEF PublishRec
  <1>4. rec \in CoreSays
    BY <1>3, Zenon DEF CoreSays, PublishRec
  <1>5. rec.kind = "Publish" /\ rec.seq = core.seq + 1 /\ rec.id = l.id /\ rec.rev = l.rev /\ rec.version = core.version + 1
    OBVIOUS
  <1>6. ack \in AckT /\ n \in Nat /\ n = core.version + 1 /\ b \in BOOLEAN /\ (core.rogue => b) /\ CoreSend(rec, next)
    BY <1>0, <1>1, <1>2 DEF AckT
  <1>7. ack = AckOf(rec)
    BY <1>5 DEF AckOf
  <1> HIDE DEF rec, ack, b, n
  <1>8. LifeOf(rec) = l
    BY <1>2, <1>5 DEF LifeOf, Life
  <1>9. /\ next \in CoreT /\ next.rogue = b /\ next.withdrawn = core.withdrawn /\ next.drifted = core.drifted /\ next.seq = core.seq /\ next.lifetime = core.lifetime
        /\ next.sent = {ack} /\ next.acked = core.acked /\ next.receipt = {} /\ next.version = n
    BY <1>6 DEF CoreT
  <1> HIDE DEF next
  <1>10. PICK f : Adds(toHelper, toHelper', f) /\ Framed(f, rec)
    BY <1>4, <1>6, <1>9, Sent
  <1>11. /\ core'.seq = next.seq + 1 /\ core'.lifetime = next.lifetime /\ core'.sent = next.sent
         /\ core'.acked = next.acked /\ core'.receipt = next.receipt /\ core'.version = next.version
         /\ core'.drifted = next.drifted
         /\ view' = view /\ toCore' = toCore
    BY <1>4, <1>6, <1>9, Sent
  <1>12. ASSUME TalkNow, ~core'.rogue
         PROVE  TalkStep
    <2>0. Talk(helper, core, toHelper, toCore)
      BY <1>12 DEF TalkNow
    <2>1. Talk(helper, core', toHelper', toCore)
      BY <2>0, <1>1, <1>4, <1>5, <1>6, <1>7, <1>8, <1>9, <1>10, <1>11, CorePublishes
    <2> QED
      BY <1>12, <1>9, <1>11, <2>1 DEF TalkNow, TalkStep, ViewTrue
  <1>20. Onward
    BY <1>1, <1>4, <1>6, <1>9, SentOnward
  <1> QED
    BY <1>12, <1>20 DEF CoreStep

LEMMA SendsBind ==
    ASSUME core \in CoreT, helper \in HelperT, toHelper \in Seq(FrameT), WithdrawnInv,
           CoreBind
    PROVE  CoreStep
  <1>0. core.seq \in Nat
    BY DEF CoreT
  <1>1. PICK ack \in core.acked :
          CoreSend([kind |-> "Bind", seq |-> core.seq + 1, sender |-> "core", session |-> "launch", ack |-> ack],
                   [core EXCEPT !.acked = {}])
    BY DEF CoreBind
  <1> DEFINE rec == [kind |-> "Bind", seq |-> core.seq + 1, sender |-> "core", session |-> "launch", ack |-> ack]
             next == [core EXCEPT !.acked = {}]
  <1>2. ack \in AckT
    BY DEF CoreT
  <1>3. rec \in BindRec
    BY <1>0, <1>2 DEF BindRec
  <1>4. rec \in CoreSays
    BY <1>3, Zenon DEF CoreSays, BindRec
  <1>5. rec.kind = "Bind" /\ rec.seq = core.seq + 1 /\ rec.ack = ack /\ CoreSend(rec, next)
    BY <1>1
  <1> HIDE DEF rec
  <1>9. /\ next \in CoreT /\ next.rogue = core.rogue /\ next.withdrawn = core.withdrawn /\ next.drifted = core.drifted /\ next.seq = core.seq /\ next.lifetime = core.lifetime
        /\ next.sent = core.sent /\ next.acked = {} /\ next.receipt = core.receipt /\ next.version = core.version
    BY DEF CoreT
  <1> HIDE DEF next
  <1>10. PICK f : Adds(toHelper, toHelper', f) /\ Framed(f, rec)
    BY <1>4, <1>5, <1>9, Sent
  <1>11. /\ core'.seq = next.seq + 1 /\ core'.lifetime = next.lifetime /\ core'.sent = next.sent
         /\ core'.acked = next.acked /\ core'.receipt = next.receipt /\ core'.version = next.version
         /\ core'.drifted = next.drifted
         /\ view' = view /\ toCore' = toCore
    BY <1>4, <1>5, <1>9, Sent
  <1>12. ASSUME TalkNow, ~core'.rogue
         PROVE  TalkStep
    <2>0. Talk(helper, core, toHelper, toCore)
      BY <1>12 DEF TalkNow
    <2>1. Talk(helper, core', toHelper', toCore)
      BY <2>0, <1>1, <1>4, <1>5, <1>9, <1>10, <1>11, CoreBinds
    <2> QED
      BY <1>12, <1>9, <1>11, <2>1 DEF TalkNow, TalkStep, ViewTrue
  <1>20. Onward
    BY <1>1, <1>4, <1>5, <1>9, SentOnward
  <1> QED
    BY <1>12, <1>20 DEF CoreStep

LEMMA SendsInvalidate ==
    ASSUME core \in CoreT, helper \in HelperT, toHelper \in Seq(FrameT), WithdrawnInv,
           NEW reason \in {"SourceMutation", "GrantLoss"}, CoreInvalidate(reason)
    PROVE  CoreStep
  <1>0. core.seq \in Nat
    BY DEF CoreT
  <1>1. PICK l \in core.lifetime :
          CoreSend([kind |-> "Invalidate", seq |-> core.seq + 1, sender |-> "core", session |-> "launch",
                    id |-> l.id, rev |-> l.rev, reason |-> reason],
                   [core EXCEPT !.lifetime = {}, !.sent = {}, !.acked = {}, !.receipt = {},
                                !.withdrawn = Withdraws(reason)])
    BY DEF CoreInvalidate
  <1> DEFINE rec == [kind |-> "Invalidate", seq |-> core.seq + 1, sender |-> "core", session |-> "launch",
                     id |-> l.id, rev |-> l.rev, reason |-> reason]
             b == Withdraws(reason)
             next == [core EXCEPT !.lifetime = {}, !.sent = {}, !.acked = {}, !.receipt = {}, !.withdrawn = b]
  <1>2. l \in Life /\ l.id \in Nat /\ l.rev \in Nat
    BY DEF CoreT, Life
  <1>3. rec \in CoreInvalidateRec
    BY <1>0, <1>2 DEF CoreInvalidateRec
  <1>4. rec \in CoreSays
    BY <1>3, Zenon DEF CoreSays, CoreInvalidateRec
  <1>5. rec.kind = "Invalidate" /\ rec.seq = core.seq + 1 /\ rec.id = l.id /\ rec.rev = l.rev /\ CoreSend(rec, next)
    BY <1>1
  <1>6. b \in BOOLEAN /\ (b => Withdrawing(rec))
    BY DEF Withdraws, Withdrawing
  <1> HIDE DEF rec, b
  <1>8. LifeOf(rec) = l
    BY <1>2, <1>5 DEF LifeOf, Life
  <1>9. /\ next \in CoreT /\ next.rogue = core.rogue /\ next.withdrawn = b /\ next.drifted = core.drifted /\ next.seq = core.seq /\ next.lifetime = {}
        /\ next.sent = {} /\ next.acked = {} /\ next.receipt = {} /\ next.version = core.version
    BY <1>6 DEF CoreT
  <1> HIDE DEF next
  <1>10. PICK f : Adds(toHelper, toHelper', f) /\ Framed(f, rec)
    BY <1>4, <1>5, <1>9, Sent
  <1>11. /\ core'.seq = next.seq + 1 /\ core'.lifetime = next.lifetime /\ core'.sent = next.sent
         /\ core'.acked = next.acked /\ core'.receipt = next.receipt /\ core'.version = next.version
         /\ core'.drifted = next.drifted
         /\ view' = view /\ toCore' = toCore
    BY <1>4, <1>5, <1>9, Sent
  <1>12. ASSUME TalkNow, ~core'.rogue
         PROVE  TalkStep
    <2>0. Talk(helper, core, toHelper, toCore)
      BY <1>12 DEF TalkNow
    <2>1. Talk(helper, core', toHelper', toCore)
      BY <2>0, <1>1, <1>4, <1>5, <1>8, <1>9, <1>10, <1>11, CoreInvalidates
    <2> QED
      BY <1>12, <1>9, <1>11, <2>1 DEF TalkNow, TalkStep, ViewTrue
  <1>20. Onward
    BY <1>1, <1>4, <1>5, <1>6, <1>9, SentOnward
  <1> QED
    BY <1>12, <1>20 DEF CoreStep

\* Core reads the next record of the helper's.
LEMMA Receives ==
    ASSUME core \in CoreT, helper \in HelperT, toHelper \in Seq(FrameT), toCore \in Seq(SaidT),
           TalkNow, CoreReceive, Head(toCore).kind # "Error"
    PROVE  TalkStep
  <1> DEFINE rec == Head(toCore)
  <1>1. /\ toCore # <<>> /\ core' = CoreLearn(rec) /\ toCore' = Tail(toCore)
        /\ UNCHANGED <<helper, view, toHelper>>
    BY DEF CoreReceive
  <1>2. rec \in SaidT /\ rec = toCore[1] /\ Skips(toCore, toCore', 1)
    BY <1>1, ReadsOff
  <1>3. IsSeq(toHelper) /\ Talk(helper, core, toHelper, toCore)
    BY StandsStill DEF TalkNow
  <1> HIDE DEF rec
  <1>4. core' \in CoreT /\ core'.seq = core.seq /\ core'.version = core.version /\ core'.drifted = core.drifted
    BY <1>1, <1>2, Learns
  <1>5. rec.kind \in {"Established", "Lifetime", "Projection", "Ack", "Bound", "Invalidate", "Error"}
    BY <1>2 DEF SaidT
  <1>6. ASSUME Talk(helper, core', toHelper, toCore')
        PROVE  TalkStep
    BY <1>1, <1>4, <1>6 DEF TalkNow, TalkStep, ViewTrue
  <1>7. CASE rec.kind \in {"Established", "Lifetime"}
    <2> DEFINE l == LifeOf(rec)
    <2>1. core' = [core EXCEPT !.lifetime = {l}, !.bytes = {}]
      BY <1>1, <1>7 DEF CoreLearn, LifeOf
    <2> HIDE DEF l
    <2>2. core'.lifetime = {l} /\ core'.sent = core.sent /\ core'.acked = core.acked /\ core'.receipt = core.receipt
      BY <2>1 DEF CoreT
    <2> QED
      BY <1>2, <1>3, <1>4, <1>6, <1>7, <2>2, CoreLearnsLife DEF l
  <1>8. CASE rec.kind = "Projection"
    <2> DEFINE x == rec.bytes
    <2>1. core' = [core EXCEPT !.bytes = {x}]
      BY <1>1, <1>8 DEF CoreLearn
    <2> HIDE DEF x
    <2>2. /\ core'.lifetime = core.lifetime /\ core'.sent = core.sent /\ core'.acked = core.acked
          /\ core'.receipt = core.receipt
      BY <2>1 DEF CoreT
    <2> QED
      BY <1>2, <1>3, <1>4, <1>6, <1>8, <2>2, CorePasses
  <1>9. CASE rec.kind = "Ack"
    <2> DEFINE a == rec.ack
    <2>1. core' = IF core.sent = {a} THEN [core EXCEPT !.acked = {a}] ELSE core
      BY <1>1, <1>9 DEF CoreLearn
    <2> HIDE DEF a
    <2>2. /\ core'.lifetime = core.lifetime /\ core'.sent = core.sent /\ core'.receipt = core.receipt
          /\ core'.acked = core.acked \/ (core.sent = {a} /\ core'.acked = {a})
      BY <2>1 DEF CoreT
    <2> QED
      BY <1>2, <1>3, <1>4, <1>6, <1>9, <2>2, CorePasses DEF a
  <1>10. CASE rec.kind = "Bound"
    <2> DEFINE a == rec.ack
    <2>1. core' = IF core.sent = {a} THEN [core EXCEPT !.receipt = {a}, !.sent = {}] ELSE core
      BY <1>1, <1>10 DEF CoreLearn
    <2> HIDE DEF a
    <2>2. /\ core'.lifetime = core.lifetime /\ core'.acked = core.acked
          /\ \/ core.sent = {a} /\ core'.sent = {} /\ core'.receipt = {a}
             \/ core.sent # {a} /\ core'.sent = core.sent /\ core'.receipt = core.receipt
      BY <2>1 DEF CoreT
    <2> QED
      BY <1>2, <1>3, <1>4, <1>6, <1>10, <2>2, CoreBound DEF a
  <1>11. CASE rec.kind = "Invalidate"
    <2>1. core' = [core EXCEPT !.lifetime = {}, !.bytes = {}, !.sent = {}, !.acked = {}, !.receipt = {}]
      BY <1>1, <1>11 DEF CoreLearn
    <2>2. core'.lifetime = {} /\ core'.sent = {} /\ core'.acked = {} /\ core'.receipt = {}
      BY <2>1 DEF CoreT
    <2> QED
      BY <1>2, <1>3, <1>4, <1>6, <1>11, <2>2, CoreForgets
  <1> QED
    BY <1>5, <1>7, <1>8, <1>9, <1>10, <1>11 DEF rec

LEMMA ReceivesOnward ==
    ASSUME core \in CoreT, toCore \in Seq(SaidT), WithdrawnInv, CoreReceive
    PROVE  Onward
  <1> DEFINE rec == Head(toCore)
  <1>1. /\ toCore # <<>> /\ core' = CoreLearn(rec) /\ toCore' = Tail(toCore)
        /\ UNCHANGED <<helper, view, toHelper, blame>>
    BY DEF CoreReceive
  <1>2. rec \in SaidT /\ 1 \in DOMAIN toCore /\ rec = toCore[1] /\ Skips(toCore, toCore', 1)
    BY <1>1, ReadsOff
  <1> HIDE DEF rec
  <1>3. core'.rogue = core.rogue /\ core'.drifted = core.drifted
    BY <1>1, <1>2, Learns
  <1>4. rec.kind = "Error" => helper.phase = "Revoked"
    BY <1>2 DEF WithdrawnInv, Downs
  <1>5. rec.kind # "Error" => (core'.withdrawn => core.withdrawn)
    <2>1. rec.kind \in {"Established", "Lifetime", "Projection", "Ack", "Bound", "Invalidate", "Error"}
      BY <1>2 DEF SaidT
    <2>2. CASE rec.kind \in {"Established", "Lifetime"}
      <3>1. \E l : core' = [core EXCEPT !.lifetime = {l}, !.bytes = {}]
        BY <1>1, <2>2 DEF CoreLearn
      <3> QED
        BY <3>1 DEF CoreT
    <2>3. CASE rec.kind = "Projection"
      <3>1. \E x : core' = [core EXCEPT !.bytes = {x}]
        BY <1>1, <2>3 DEF CoreLearn
      <3> QED
        BY <3>1 DEF CoreT
    <2>4. CASE rec.kind = "Ack"
      <3>1. \E a : core' = IF core.sent = {a} THEN [core EXCEPT !.acked = {a}] ELSE core
        BY <1>1, <2>4 DEF CoreLearn
      <3> QED
        BY <3>1 DEF CoreT
    <2>5. CASE rec.kind = "Bound"
      <3>1. \E a : core' = IF core.sent = {a} THEN [core EXCEPT !.receipt = {a}, !.sent = {}] ELSE core
        BY <1>1, <2>5 DEF CoreLearn
      <3> QED
        BY <3>1 DEF CoreT
    <2>6. CASE rec.kind = "Invalidate"
      <3>1. core' = [core EXCEPT !.lifetime = {}, !.bytes = {}, !.sent = {}, !.acked = {}, !.receipt = {}]
        BY <1>1, <2>6 DEF CoreLearn
      <3> QED
        BY <3>1 DEF CoreT
    <2> QED
      BY <2>1, <2>2, <2>3, <2>4, <2>5, <2>6
  <1>6. \A i \in Downs(toCore', "Error") : i + 1 \in Downs(toCore, "Error")
    BY <1>2, SkippedDown
  <1>7. WithdrawnInv'
    BY <1>1, <1>4, <1>5, <1>6 DEF WithdrawnInv
  <1> QED
    BY <1>1, <1>3, <1>7 DEF Onward

\* Any move of Core's.
LEMMA CoreStepTaken ==
    ASSUME LaunchInv, WithdrawnInv, CoreMoves
    PROVE  CoreStep
  <1>1. core \in CoreT /\ helper \in HelperT /\ toHelper \in Seq(FrameT) /\ toCore \in Seq(SaidT)
    BY DEF LaunchInv, LaunchTypes, FramesTrue
  <1>2. ASSUME NEW echo \in BOOLEAN, CoreEstablish(echo)
        PROVE  CoreStep
    BY <1>1, <1>2, SendsEstablish
  <1>3. ASSUME NEW bytes \in Payloads, CorePublish(bytes)
        PROVE  CoreStep
    BY <1>1, <1>3, SendsPublish
  <1>4. CASE CoreBind
    BY <1>1, <1>4, SendsBind
  <1>5. ASSUME NEW reason \in {"SourceMutation", "GrantLoss"}, CoreInvalidate(reason)
        PROVE  CoreStep
    BY <1>1, <1>5, SendsInvalidate
  <1>6. CASE CoreError
    BY <1>1, <1>6, SendsError
  <1>7. CASE CoreRogue
    <2>1. PICK f \in BadFrames : toHelper' = Append(toHelper, f)
      BY <1>7 DEF CoreRogue
    <2>2. core' = [core EXCEPT !.rogue = TRUE] /\ UNCHANGED <<helper, view, toCore, blame>>
      BY <1>7 DEF CoreRogue
    <2>3. core'.rogue = TRUE /\ core'.drifted = core.drifted /\ core'.withdrawn = core.withdrawn
      BY <1>1, <2>2 DEF CoreT
    <2>4. \A i \in DOMAIN toHelper : i \in DOMAIN toHelper' /\ toHelper'[i] = toHelper[i]
      BY <1>1, <2>1
    <2>5. WithdrawnInv'
      BY <2>2, <2>3, <2>4 DEF WithdrawnInv
    <2> QED
      BY <2>2, <2>3, <2>5 DEF CoreStep, Onward
  <1>8. CASE CoreReceive
    <2>1. Onward
      BY <1>1, <1>8, ReceivesOnward
    <2>2. ASSUME TalkNow, helper.phase # "Revoked"
          PROVE  TalkStep
      <3>1. toCore # <<>>
        BY <1>8 DEF CoreReceive
      <3>2. 1 \in DOMAIN toCore /\ Head(toCore) = toCore[1]
        BY <1>1, <3>1, ReadsOff
      <3>3. Head(toCore).kind # "Error"
        BY <2>2, <3>2 DEF WithdrawnInv, Downs
      <3> QED
        BY <1>1, <1>8, <2>2, <3>3, Receives
    <2> QED
      BY <2>1, <2>2 DEF CoreStep
  <1>9. CASE Drift
    <2>1. core' = [core EXCEPT !.drifted = TRUE] /\ UNCHANGED <<helper, toHelper, toCore, blame>>
      BY <1>9 DEF Drift
    <2>2. core'.drifted = TRUE /\ core'.rogue = core.rogue /\ core'.withdrawn = core.withdrawn /\ SameCore(core, core')
      BY <1>1, <2>1 DEF CoreT, SameCore
    <2>3. WithdrawnInv'
      BY <2>1, <2>2 DEF WithdrawnInv
    <2>4. ASSUME TalkNow PROVE TalkStep
      <3>1. Talk(helper, core', toHelper, toCore)
        BY <2>2, <2>4, TalkSame DEF TalkNow
      <3> QED
        BY <2>1, <2>2, <3>1 DEF TalkStep, ViewTrue
    <2> QED
      BY <2>1, <2>2, <2>3, <2>4 DEF CoreStep, Onward
  <1> QED
    BY <1>2, <1>3, <1>4, <1>5, <1>6, <1>7, <1>8, <1>9 DEF CoreMoves

-----------------------------------------------------------------------------
(* An error is said only as control ends. *)
Silent(said) == \A i \in DOMAIN said : said[i].kind # "Error"

LEMMA SilentOne ==
    ASSUME NEW body, NEW kind, \A n : Numbered(body, n).kind = kind, kind # "Error", NEW said,
           Spoken(<<>>, <<body>>, said)
    PROVE  Silent(said)
  <1>1. PICK n \in Nat : said = Append(<<>>, Numbered(body, n))
    BY DEF Spoken
  <1> DEFINE b == Numbered(body, n)
  <1>2. b.kind = kind
    OBVIOUS
  <1> HIDE DEF b
  <1>3. \A i \in DOMAIN said : said[i] = b
    BY <1>1 DEF b
  <1> QED
    BY <1>2, <1>3 DEF Silent

LEMMA SilentLife ==
    ASSUME NEW l, NEW bytes, NEW kind \in {"Established", "Lifetime"}, NEW said,
           Spoken(<<>>, <<LifetimeRec(kind, l), ProjectionRec(l, bytes)>>, said)
    PROVE  Silent(said)
  <1> DEFINE y == LifetimeRec(kind, l)
             z == ProjectionRec(l, bytes)
             w == <<y, z>>
  <1>1. Spoken(<<>>, w, said) /\ Len(w) # 0 /\ Len(w) # 1 /\ w[1] = y /\ w[2] = z
    OBVIOUS
  <1>2. \A n : Numbered(y, n).kind = kind /\ Numbered(z, n).kind = "Projection"
    BY DEF Numbered, LifetimeRec, ProjectionRec
  <1> HIDE DEF w, y, z
  <1>3. \E n, m \in Nat : said = Append(Append(<<>>, Numbered(w[1], n)), Numbered(w[2], m))
    BY <1>1, Zenon DEF Spoken
  <1>4. PICK n \in Nat, m \in Nat : said = Append(Append(<<>>, Numbered(y, n)), Numbered(z, m))
    BY <1>1, <1>3
  <1> DEFINE a == Numbered(y, n)
             b == Numbered(z, m)
  <1>5. a.kind # "Error" /\ b.kind # "Error"
    BY <1>2
  <1> HIDE DEF a, b
  <1>6. \A i \in DOMAIN said : said[i] = a \/ said[i] = b
    BY <1>4 DEF a, b
  <1> QED
    BY <1>5, <1>6 DEF Silent

LEMMA ComesSilent ==
    ASSUME NEW h, NEW g, NEW n, NEW rec, NEW said, Comes(h, g, n, rec, said), g.phase # "Revoked"
    PROVE  Silent(said)
  <1>1. CASE DoesEstablish(h, g, n, rec, said)
    BY <1>1, SilentLife DEF DoesEstablish
  <1>2. CASE DoesPublish(h, g, n, rec, said)
    <2> DEFINE body == [kind |-> "Ack", seq |-> 0, ack |-> AckOf(rec)]
    <2>1. \A m : Numbered(body, m).kind = "Ack"
      BY DEF Numbered
    <2>2. Spoken(<<>>, <<body>>, said)
      BY <1>2 DEF DoesPublish
    <2> HIDE DEF body
    <2> QED
      BY <2>1, <2>2, SilentOne
  <1>3. CASE DoesBind(h, g, n, rec, said)
    <2> DEFINE body == [kind |-> "Bound", seq |-> 0, ack |-> rec.ack]
    <2>1. \A m : Numbered(body, m).kind = "Bound"
      BY DEF Numbered
    <2>2. Spoken(<<>>, <<body>>, said)
      BY <1>3 DEF DoesBind
    <2> HIDE DEF body
    <2> QED
      BY <2>1, <2>2, SilentOne
  <1>4. CASE DoesRotate(h, g, n, rec, said)
    BY <1>4, SilentLife DEF DoesRotate
  <1>5. CASE DoesCross(h, g, n, rec, said)
    BY <1>5 DEF DoesCross, Silent
  <1>6. CASE EndsOver(h, g, rec)
    BY <1>6 DEF EndsOver
  <1> QED
    BY <1>1, <1>2, <1>3, <1>4, <1>5, <1>6 DEF Comes

LEMMA SilentAdded ==
    ASSUME NEW s \in Seq(SaidT), NEW said \in Seq(SaidT), Silent(said), Downs(s, "Error") = {}
    PROVE  Downs(s \o said, "Error") = {}
  <1> SUFFICES ASSUME NEW i \in DOMAIN (s \o said), (s \o said)[i].kind = "Error"
               PROVE  FALSE
    BY DEF Downs
  <1>1. \/ i \in DOMAIN s /\ (s \o said)[i] = s[i]
        \/ i - Len(s) \in DOMAIN said /\ (s \o said)[i] = said[i - Len(s)]
    OBVIOUS
  <1> QED
    BY <1>1 DEF Silent, Downs

LEMMA AnnouncesSilent ==
    ASSUME NEW s, NEW t, NEW m, NEW l, Announces(s, t, m, l), Downs(s, "Error") = {}
    PROVE  Downs(t, "Error") = {}
  <1>1. /\ Len(s) \in Nat /\ DOMAIN s = 1..Len(s) /\ DOMAIN t = 1..(m + 1)
        /\ m = Len(s) + 1 \/ m = Len(s) + 2
        /\ \A i \in 1..Len(s) : t[i] = s[i]
        /\ t[m].kind # "Error" /\ t[m + 1].kind # "Error"
        /\ m = Len(s) + 2 => t[m - 1].kind # "Error"
    BY DEF Announces, IsSeq
  <1>2. \A i \in DOMAIN t : i \in DOMAIN s \/ i = m \/ i = m + 1 \/ (i = m - 1 /\ m = Len(s) + 2)
    BY <1>1
  <1> QED
    BY <1>1, <1>2 DEF Downs

(* A withdrawal of Core's is heard, whatever the helper did meanwhile. *)
LEMMA WithdrawalKept ==
    ASSUME LaunchInv, WithdrawnInv, HelperStep \/ HelperMoves
    PROVE  WithdrawnInv'
  <1>0. helper.phase # "Revoked" /\ core' = core /\ helper' \in HelperT
    BY HelperMoved
  <1>1. /\ helper \in HelperT /\ toCore \in Seq(SaidT) /\ view \in [rev : Nat, bytes : Bytes]
        /\ view.rev \in Nat /\ view.bytes \in Bytes /\ helper.lifetime \subseteq Life /\ helper.drawn \in Nat
    BY DEF LaunchInv, LaunchTypes, HelperT
  <1>2. helper.revocation = "none" /\ (Active => helper.lifetime # {})
    BY <1>0 DEF LaunchInv, Authority
  <1>3. Downs(toCore, "Error") = {} /\ (core.withdrawn => \E i \in DOMAIN toHelper : Withdrawing(toHelper[i].rec))
    BY <1>0 DEF WithdrawnInv
  <1>4. ASSUME helper'.phase = "Revoked" PROVE WithdrawnInv'
    BY <1>4 DEF WithdrawnInv
  <1>5. ASSUME toHelper' = toHelper, Downs(toCore', "Error") = {}
        PROVE  WithdrawnInv'
    BY <1>0, <1>3, <1>5 DEF WithdrawnInv
  <1>6. ASSUME NEW env, NEW dead \in Int, ReadAndHandle(env, dead), helper'.phase # "Revoked"
        PROVE  WithdrawnInv'
    <2> DEFINE f == Head(toHelper)
               taken == Passed(f) /\ f.rec.seq = helper.in + 1
    <2>1. toHelper # <<>> /\ toHelper' = Tail(toHelper)
      BY <1>6 DEF ReadAndHandle
    <2>2. PublishTyped(f) /\ 1 \in DOMAIN toHelper /\ f = toHelper[1] /\ Skips(toHelper, toHelper', 1)
      BY <2>1, HeadRead
    <2>3. ~Withdrawing(f.rec)
      BY <1>0, <1>1, <1>2, <1>6, <2>1, <2>2, FrameHandled
    <2>4. PICK said \in Seq(SaidT) :
            /\ toCore' = toCore \o said
            /\ taken => Comes(helper, helper', helper.in + 1, f.rec, said)
            /\ ~taken => helper'.phase = "Revoked"
      BY <1>0, <1>1, <1>6, <2>1, <2>2, FrameComes
    <2> HIDE DEF f, taken
    <2>5. Downs(toCore', "Error") = {}
      <3>1. Silent(said)
        BY <1>6, <2>4, ComesSilent
      <3> QED
        BY <1>1, <1>3, <2>4, <3>1, SilentAdded
    <2>6. ASSUME NEW i \in DOMAIN toHelper, Withdrawing(toHelper[i].rec)
          PROVE  \E j \in DOMAIN toHelper' : Withdrawing(toHelper'[j].rec)
      <3>1. i # 1
        BY <2>2, <2>3, <2>6
      <3>2. i - 1 \in DOMAIN toHelper' /\ toHelper'[i - 1] = toHelper[i]
        BY <2>2, <3>1 DEF Skips, IsSeq
      <3> QED
        BY <2>6, <3>2
    <2> QED
      BY <1>0, <1>3, <2>5, <2>6 DEF WithdrawnInv
  <1>7. ASSUME Active, NEW rev \in Nat, NEW bytes \in Bytes, NEW reason \in {"RegistryMutation", "Reset"},
               Announced(IdOf(helper), reason, rev, bytes), toHelper' = toHelper
        PROVE  WithdrawnInv'
    <2>1. IdOf(helper) \in Life
      BY <1>1, <1>2, <1>7 DEF IdOf
    <2>2. Announces(toCore, toCore', Len(toCore) + 2, NextLife(helper, rev))
      BY <1>1, <1>7, <2>1, SaysRotation
    <2>3. Downs(toCore', "Error") = {}
      BY <1>3, <2>2, AnnouncesSilent
    <2> QED
      BY <1>5, <1>7, <2>3
  <1>8. ASSUME Active PROVE IdOf(helper).rev \in Nat /\ IdOf(helper).rev + 1 \in Nat /\ helper.lifetime # {}
    <2>1. IdOf(helper) \in Life
      BY <1>1, <1>2, <1>8 DEF IdOf
    <2> QED
      BY <1>2, <1>8, <2>1 DEF Life
  <1>9. ASSUME NEW bytes \in Payloads, NEW step \in Nat, NEW env, NEW dead \in Int,
               RegistryMutated(bytes, step, env, dead), helper'.phase # "Revoked"
        PROVE  WithdrawnInv'
    <2>1. Active /\ toHelper' = toHelper
      BY <1>9 DEF RegistryMutated
    <2>2. \/ Announced(IdOf(helper), "RegistryMutation", IdOf(helper).rev + 1, bytes)
          \/ \E why \in OwnReasons : EndsOwn(why)
      BY <1>1, <1>8, <1>9, <2>1, RegistryMutatedHandled
    <2>3. ~ \E why \in OwnReasons : EndsOwn(why)
      BY <1>9 DEF EndsOwn, Ended
    <2>4. bytes \in Bytes
      BY DEF Bytes
    <2> QED
      BY <1>7, <1>8, <2>1, <2>2, <2>3, <2>4
  <1>10. ASSUME NEW env, NEW dead \in Int, HelperReset(env, dead), helper'.phase # "Revoked"
        PROVE  WithdrawnInv'
    <2>1. Active /\ toHelper' = toHelper
      BY <1>10 DEF HelperReset
    <2>2. \/ Announced(IdOf(helper), "Reset", IdOf(helper).rev, view.bytes)
          \/ \E why \in OwnReasons : EndsOwn(why)
      BY <1>1, <1>8, <1>10, <2>1, ResetHandled
    <2>3. ~ \E why \in OwnReasons : EndsOwn(why)
      BY <1>10 DEF EndsOwn, Ended
    <2> QED
      BY <1>1, <1>7, <1>8, <2>1, <2>2, <2>3
  <1>11. CASE EstablishAgain
    <2> DEFINE c == Call(helper, -1)
               r == Fail(c, ProtocolFault("AlreadyEstablished"))
    <2>1. helper' = r.h
      BY <1>11 DEF EstablishAgain, Done
    <2>2. c \in CallT
      BY <1>1 DEF Call, CallT
    <2>3. "AlreadyEstablished" \in Errors
      BY DEF Errors
    <2>4. IsFault(ProtocolFault("AlreadyEstablished"))
      BY <2>3, FaultsKnown
    <2> HIDE DEF c
    <2>5. r.h.phase = "Revoked"
      BY <2>2, <2>4, Fails DEF Ended
    <2> HIDE DEF r
    <2> QED
      BY <1>4, <2>1, <2>5
  <1>12. CASE Close
    <2>1. helper'.phase = "Revoked"
      BY <1>1, <1>12 DEF Close, ClearAuthority, HelperT
    <2> QED
      BY <1>4, <2>1
  <1>13. 0 \in Nat /\ 1 \in Nat /\ 2 \in Nat /\ -1 \in Int /\ 0..2 \subseteq Int /\ 0..1 \subseteq Int /\ 0..2 \subseteq Nat
    OBVIOUS
  <1>14. CASE HelperStep
    BY <1>4, <1>6, <1>13, <1>14 DEF HelperStep
  <1>15. CASE HelperFaultyStep
    BY <1>4, <1>6, <1>13, <1>15 DEF HelperFaultyStep
  <1>16. CASE HelperMoves
    BY <1>4, <1>9, <1>10, <1>11, <1>12, <1>13, <1>15, <1>16 DEF HelperMoves
  <1> QED
    BY <1>14, <1>16

-----------------------------------------------------------------------------
(***************************************************************************)
(* The inductive invariant of the control stream, and what follows of it.  *)
(***************************************************************************)
BlameInv ==
    (helper.revocation = "ProtocolViolation" /\ ~core.rogue) => \E b \in blame : Cause(b, core.drifted)

CrossInv == LaunchInv /\ TalkInv /\ WithdrawnInv /\ BlameInv

LEMMA CrossStarts ==
    ASSUME HelperInit
    PROVE  CrossInv
  <1>1. /\ helper.phase = "AwaitingEstablish" /\ helper.in = 0 /\ helper.drawn = 0 /\ helper.lifetime = {}
        /\ helper.pending = {} /\ helper.receipt = {} /\ helper.version = 0 /\ helper.revocation = "none"
    BY DEF HelperInit, NewHelper
  <1>2. /\ core.seq = 0 /\ core.lifetime = {} /\ core.sent = {} /\ core.acked = {} /\ core.receipt = {}
        /\ core.version = 0 /\ core.withdrawn = FALSE
    BY DEF HelperInit, NewCore
  <1>3. toHelper = <<>> /\ toCore = <<>>
    BY DEF HelperInit
  <1>4. /\ DOMAIN toHelper = {} /\ Len(toHelper) = 0 /\ News(toCore) = {}
        /\ \A kind : Ups(toHelper, kind) = {} /\ Downs(toCore, kind) = {}
    BY <1>3 DEF News, Ups, Downs
  <1>5. InStep(helper, core, toHelper) /\ Current(helper)
    BY <1>1, <1>2, <1>4 DEF InStep, Current
  <1>6. /\ Lives(helper, core, toHelper, toCore) /\ OneHolder(core, toHelper, toCore) /\ Turns(core, toCore)
        /\ CoreTidy(core) /\ Versions(helper, core, toHelper)
    BY <1>1, <1>2, <1>4 DEF Lives, OneHolder, Turns, CoreTidy, Versions
  <1>7. AcksLearnt(helper, core, toHelper, toCore) /\ OneProof(helper, core, toHelper, toCore)
    BY <1>1, <1>2, <1>4 DEF AcksLearnt, OneProof, CurAcks, CurBinds
  <1>8. OneRound(helper, core, toHelper, toCore) /\ Receipts(helper, core, toHelper, toCore)
        /\ CurrentHeld(helper, core, toHelper, toCore)
    BY <1>1, <1>2, <1>4 DEF OneRound, Receipts, CurrentHeld, CurPubs, CurBounds
  <1>9. ViewTrue(helper, core, view)
    BY <1>1 DEF ViewTrue
  <1>10. TalkInv
    BY <1>5, <1>6, <1>7, <1>8, <1>9 DEF TalkInv, Talk
  <1>11. WithdrawnInv
    BY <1>2, <1>4 DEF WithdrawnInv
  <1>12. BlameInv
    BY <1>1 DEF BlameInv
  <1> QED
    BY <1>10, <1>11, <1>12, LaunchStarts DEF CrossInv

LEMMA HelperKeepsTalk ==
    ASSUME CrossInv, HelperStep \/ HelperMoves
    PROVE  TalkInv' /\ WithdrawnInv' /\ BlameInv'
  <1>1. LaunchInv /\ TalkInv /\ WithdrawnInv
    BY DEF CrossInv
  <1>2. helper.phase # "Revoked" /\ core' = core /\ Grown(helper, helper')
    BY <1>1, HelperMoved
  <1>3. helper.revocation = "none"
    BY <1>1, <1>2 DEF LaunchInv, Authority
  <1>4. WithdrawnInv'
    BY <1>1, WithdrawalKept
  <1>5. CASE core.rogue
    BY <1>2, <1>4, <1>5 DEF TalkInv, BlameInv, Conforming
  <1>6. CASE ~core.rogue
    <2>1. Talk(helper, core, toHelper, toCore) /\ ViewTrue(helper, core, view)
      BY <1>1, <1>2, <1>6 DEF TalkInv, Conforming
    <2>2. SettledStep
      BY <1>1, <2>1, CallsSettle
    <2>3. CASE /\ helper'.phase = "Revoked"
               /\ helper'.revocation = "ProtocolViolation" => \E b \in blame' : Cause(b, core.drifted)
      BY <1>2, <1>4, <2>3 DEF TalkInv, BlameInv, Conforming
    <2>4. CASE Talk(helper', core, toHelper', toCore') /\ ViewTrue(helper', core, view')
      <3>1. helper'.phase # "Revoked"
        BY <1>2, <2>4 DEF Talk, Current, Grown
      <3>2. helper'.revocation = "none"
        BY <1>2, <1>3, <3>1 DEF Grown
      <3>3. TalkInv'
        BY <1>2, <2>4 DEF TalkInv
      <3>4. BlameInv'
        BY <3>2 DEF BlameInv
      <3> QED
        BY <1>4, <3>3, <3>4
    <2> QED
      BY <2>2, <2>3, <2>4 DEF SettledStep
  <1> QED
    BY <1>5, <1>6

LEMMA CoreKeepsTalk ==
    ASSUME CrossInv, CoreMoves
    PROVE  TalkInv' /\ WithdrawnInv' /\ BlameInv'
  <1>1. LaunchInv /\ TalkInv /\ WithdrawnInv /\ BlameInv
    BY DEF CrossInv
  <1>2. CoreStep
    BY <1>1, CoreStepTaken
  <1>3. /\ (core.rogue => core'.rogue) /\ (core.drifted => core'.drifted)
        /\ helper' = helper /\ blame' = blame /\ WithdrawnInv'
    BY <1>2 DEF CoreStep, Onward
  <1>4. BlameInv'
    BY <1>1, <1>3 DEF BlameInv, Cause
  <1>5. ASSUME Conforming'
        PROVE  Talk(helper', core', toHelper', toCore') /\ ViewTrue(helper', core', view')
    <2>1. ~core'.rogue /\ ~core.rogue /\ helper.phase # "Revoked"
      BY <1>3, <1>5 DEF Conforming
    <2>2. TalkNow
      BY <1>1, <2>1 DEF TalkInv, TalkNow, Conforming
    <2>3. TalkStep
      BY <1>2, <2>1, <2>2 DEF CoreStep
    <2> QED
      BY <1>3, <2>3 DEF TalkStep
  <1>6. TalkInv'
    BY <1>5 DEF TalkInv
  <1> QED
    BY <1>3, <1>4, <1>6

LEMMA CrossKept ==
    ASSUME CrossInv, [HelperNext]_helperVars
    PROVE  CrossInv'
  <1>0. LaunchInv /\ TalkInv /\ WithdrawnInv /\ BlameInv
    BY DEF CrossInv
  <1>1. ASSUME UNCHANGED controlVars
        PROVE  TalkInv' /\ WithdrawnInv' /\ BlameInv'
    <2>1. UNCHANGED <<helper, view, core, toHelper, toCore, blame>>
      BY <1>1 DEF controlVars
    <2>2. TalkInv'
      BY <1>0, <2>1 DEF TalkInv, Conforming
    <2>3. WithdrawnInv'
      BY <1>0, <2>1 DEF WithdrawnInv
    <2>4. BlameInv'
      BY <1>0, <2>1 DEF BlameInv
    <2> QED
      BY <2>2, <2>3, <2>4
  <1>2. CASE UNCHANGED helperVars
    <2>1. UNCHANGED <<controlVars, stage, exit, manifest, peer, shake>>
      BY <1>2 DEF helperVars, launchVars
    <2>2. UNCHANGED <<helper, core, view, toCore>>
      BY <2>1 DEF controlVars
    <2>3. LaunchTypes'
      BY <1>0, <2>1, <2>2 DEF LaunchInv, LaunchTypes
    <2>4. Staged'
      BY <1>0, <2>1, <2>2 DEF LaunchInv, Staged, Gates
    <2>5. LaunchInv'
      BY <1>0, <2>1, <2>3, <2>4, ControlKept DEF LaunchInv
    <2> QED
      BY <1>1, <2>1, <2>5 DEF CrossInv
  <1>3. CASE Bootstrap
    <2>1. UNCHANGED controlVars
      BY <1>3 DEF Bootstrap
    <2> QED
      BY <1>0, <1>1, <1>3, <2>1, Bootstraps DEF CrossInv
  <1>4. CASE \E n \in 0..WireMax, w \in 0..WireMax : Shake(n, w)
    <2>1. UNCHANGED controlVars
      BY <1>4 DEF Shake
    <2>2. LaunchInv'
      BY <1>0, <1>4, Shakes
    <2> QED
      BY <1>1, <2>1, <2>2 DEF CrossInv
  <1>5. CASE stage = "control" /\ (HelperStep \/ HelperMoves) /\ Driven
    <2>1. LaunchInv'
      BY <1>0, <1>5, Drives
    <2>2. TalkInv' /\ WithdrawnInv' /\ BlameInv'
      BY <1>5, HelperKeepsTalk
    <2> QED
      BY <2>1, <2>2 DEF CrossInv
  <1>6. CASE stage = "control" /\ CoreMoves /\ UNCHANGED launchVars
    <2>1. LaunchInv'
      BY <1>0, <1>6, CoreKeeps
    <2>2. TalkInv' /\ WithdrawnInv' /\ BlameInv'
      BY <1>6, CoreKeepsTalk
    <2> QED
      BY <2>1, <2>2 DEF CrossInv
  <1> QED
    BY <1>2, <1>3, <1>4, <1>5, <1>6 DEF HelperNext

(* Records that cross a rotation are settled (state.rs step, handle_publish,
   handle_bind, handle_invalidate, registry_mutated, reset): against a Core that
   keeps to the protocol a protocol violation is raised only on a publication or
   a bind that a rotation overtook, on an invalidation that two overtook, after
   the registry moved on its own, or on a second establish; and a grant that Core
   withdraws, or an error it reports, ends control once it has been read.  For
   streams of any length, any number of rotations and any interleaving. *)
THEOREM CrossingsSettle == HelperSpec => []CrossingSettled
  <1>1. HelperInit => CrossInv
    BY CrossStarts
  <1>2. CrossInv /\ [HelperNext]_helperVars => CrossInv'
    BY CrossKept
  <1>3. CrossInv => CrossingSettled
    <2> SUFFICES ASSUME CrossInv PROVE CrossingSettled
      OBVIOUS
    <2>1. BlameInv /\ WithdrawnInv
      BY DEF CrossInv
    <2>2. toHelper = <<>> => DOMAIN toHelper = {}
      OBVIOUS
    <2>3. (core.withdrawn /\ toHelper = <<>>) => helper.phase = "Revoked"
      BY <2>1, <2>2 DEF WithdrawnInv
    <2> QED
      BY <2>1, <2>3 DEF CrossingSettled, BlameInv, Cause
  <1> QED
    BY <1>1, <1>2, <1>3, PTL DEF HelperSpec

(* With both streams drained, control standing and a Core that keeps to the
   protocol, the two ends agree on the lifetime and on the receipt, and the bytes
   behind the receipt are the registry's unless it moved on its own (state.rs
   and control_registry.rs: what Core holds is what the helper would prove). *)
THEOREM EndsAgree == HelperSpec => []Agreement
  <1>1. HelperInit => CrossInv
    BY CrossStarts
  <1>2. CrossInv /\ [HelperNext]_helperVars => CrossInv'
    BY CrossKept
  <1>3. CrossInv => Agreement
    <2> SUFFICES ASSUME CrossInv, Quiet, ~core.rogue, Active
                 PROVE  /\ core.lifetime = helper.lifetime
                        /\ core.receipt = {r.ack : r \in helper.receipt}
                        /\ ~core.drifted => \A r \in helper.receipt : r.bytes = view.bytes /\ r.ack.rev = view.rev
      BY DEF Agreement
    <2>1. toHelper = <<>> /\ toCore = <<>> /\ helper.phase # "Revoked" /\ helper.phase # "AwaitingEstablish"
      BY DEF Quiet, Active
    <2>2. Talk(helper, core, toHelper, toCore) /\ ViewTrue(helper, core, view)
      BY <2>1 DEF CrossInv, TalkInv, Conforming
    <2>3. /\ News(toCore) = {}
          /\ \A kind : Ups(toHelper, kind) = {} /\ Downs(toCore, kind) = {}
      BY <2>1 DEF News, Ups, Downs
    <2>4. /\ Lives(helper, core, toHelper, toCore) /\ OneHolder(core, toHelper, toCore) /\ CoreTidy(core)
          /\ CurrentHeld(helper, core, toHelper, toCore) /\ Receipts(helper, core, toHelper, toCore)
      BY <2>2 DEF Talk
    <2>5. PICK l \in core.lifetime : l.id = helper.drawn
      BY <2>1, <2>3, <2>4 DEF CurrentHeld, Invalidating
    <2>6. core.lifetime = {l} /\ helper.lifetime = {l}
      BY <2>4, <2>5 DEF OneHolder, Lives, Proper
    <2>7. \A r \in helper.receipt : r.ack \in core.receipt
      BY <2>3, <2>4 DEF Receipts, CurBounds, CurPubs, Invalidating
    <2>8. \A a \in core.receipt : a.id = helper.drawn
      BY <2>4, <2>5 DEF CoreTidy
    <2>9. \A a \in core.receipt : \E r \in helper.receipt : r.ack = a
      BY <2>4, <2>8 DEF Receipts
    <2>10. core.receipt = {r.ack : r \in helper.receipt}
      BY <2>7, <2>9
    <2> QED
      BY <2>2, <2>6, <2>10 DEF ViewTrue
  <1> QED
    BY <1>1, <1>2, <1>3, PTL DEF HelperSpec
=============================================================================
