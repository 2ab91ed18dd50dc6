------------------------ MODULE PendingEffectsProofs ------------------------
(***************************************************************************)
(* What the pending-effect log promises of every session, executor and     *)
(* bound: an unsettled effect stays named, and a record is never filed     *)
(* under another call.                                                     *)
(*                                                                         *)
(* The argument.  A row is identified by its call id, but what an executor *)
(* must close is the row of its own call.  The two can differ: an id freed *)
(* by the bounded cache is minted again by a later owner, whose row then   *)
(* carries the id an earlier owner is still to answer for.  Fenced says    *)
(* that such a row carries a newer epoch than the earlier owner claims, so *)
(* the store refuses the late answer.  Fenced rests on EpochsOwn: no two   *)
(* executors of a session hold the same epoch, and none holds a newer one  *)
(* than the session's row.                                                 *)
(***************************************************************************)
EXTENDS PendingEffects, FiniteSetTheorems, WellFoundedInduction, TLAPS

Delegating(x) == slot[x].phase = "delegate"

\* The tables are finite.
TablesFinite == IsFiniteSet(open) /\ IsFiniteSet(recent) /\ IsFiniteSet(heads)

\* The rows ever admitted that the two tables still hold.
Recorded == open \cup {c.row : c \in recent}

\* Every recorded row belongs to the call that wrote it.
RowsOwn ==
  \A r \in Recorded : /\ r.effect \in DOMAIN effects
                      /\ effects[r.effect].id = r.id
                      /\ effects[r.effect].session = r.session

\* A call id is on one row only, live or remembered.
IdsOnce ==
  /\ \A r \in open, c \in recent : r.id # c.row.id
  /\ \A r, q \in open : r.id = q.id => r = q

\* A running delegate stands for one call of its own, in flight.
SlotsOwn ==
  /\ \A x \in Slots : Delegating(x) =>
       /\ slot[x].effect \in DOMAIN effects
       /\ effects[slot[x].effect].outcome = "in-flight"
       /\ effects[slot[x].effect].id = slot[x].id
       /\ slot[x].id[1] = SessionOf[x]
  /\ \A x, y \in Slots : Delegating(x) /\ Delegating(y) /\ slot[x].effect = slot[y].effect
                           => x = y

\* No executor is ahead of its session's row, and no two share an epoch.
EpochsOwn ==
  /\ \A x \in Slots : Attached(x) =>
       /\ binding[SessionOf[x]] # Unbound
       /\ slot[x].epoch <= binding[SessionOf[x]].epoch
  /\ \A x, y \in Slots :
       Attached(x) /\ Attached(y) /\ SessionOf[x] = SessionOf[y] /\ slot[x].epoch = slot[y].epoch
         => x = y

\* A row that took over the id of a running call is ahead of that call's claim.
Fenced ==
  \A x \in Slots, r \in open :
    Delegating(x) /\ r.id = slot[x].id /\ r.effect # slot[x].effect
      => effects[r.effect].retired \/ slot[x].epoch < r.epoch

\* A call that is remembered while it runs was closed by direction.
Settled ==
  \A x \in Slots, c \in recent :
    Delegating(x) /\ c.row.effect = slot[x].effect
      => effects[slot[x].effect].directed \/ effects[slot[x].effect].retired

\* The remembered disposition is the answer of the call's own executor.
Truthful ==
  \A c \in recent : LET e == effects[c.row.effect]
                    IN e.directed \/ e.retired \/ e.outcome = c.disposition

\* An unsettled call keeps its row.
Rowed ==
  \A e \in DOMAIN effects : Unsettled(e) /\ ~effects[e].retired => \E r \in open : r.effect = e

\* The tables stay within their bounds.
Bounded ==
  /\ \A s \in Sessions : Cardinality(Open(s)) <= MaxOpen
  /\ Cardinality(recent) <= MaxRecent /\ Cardinality(heads) <= MaxHeads

IInv == /\ TypeOK /\ TablesFinite /\ RowsOwn /\ IdsOnce /\ SlotsOwn /\ EpochsOwn
        /\ Fenced /\ Settled /\ Truthful /\ Rowed /\ Bounded

(***************************************************************************)
(* Lemmas about the operators.                                             *)
(***************************************************************************)

\* The first free sequence exists: a set of naturals has its minimum (begin_guarded
\* takes the first candidate the store does not refuse).
LEMMA MinOfNaturals ==
  ASSUME NEW S \in SUBSET Nat, S # {}
  PROVE  Min(S) \in S
<1>1. PICK n \in S : \A m \in S : ~(<<m, n>> \in OpToRel(<, Nat))
  BY NatLessThanWellFounded, WFMin, Zenon
<1>2. \A m \in S : n <= m
  <2> SUFFICES ASSUME NEW m \in S, m < n PROVE FALSE
    OBVIOUS
  <2>1. <<m, n>> \in OpToRel(<, Nat)
    BY DEF OpToRel
  <2> QED
    BY <2>1, <1>1
<1> QED
  BY <1>2 DEF Min

\* Eviction (insert_resolved_cache) keeps only snapshots it was given, within the bound.
LEMMA KeptWithin ==
  ASSUME NEW S, IsFiniteSet(S), NEW K \in Kept(S)
  PROVE  K \subseteq S /\ IsFiniteSet(K) /\ Cardinality(K) <= MaxRecent
<1>1. K \subseteq S /\ Cardinality(K) <= MaxRecent
  BY PendingAssumption DEF Kept, kSubset
<1> QED
  BY <1>1, FS_Subset

\* What one resolve (PendingStore::resolve) may do: nothing, or close one row of that id
\* that passes both fences, which is then the only snapshot that can be new.
LEMMA ResolveCloses ==
  ASSUME TablesFinite, IdsOnce, Cardinality(recent) <= MaxRecent,
         NEW id, NEW claim, NEW g, NEW d, NEW now, Resolve(id, claim, g, d, now)
  PROVE  /\ IsFiniteSet(recent') /\ Cardinality(recent') <= MaxRecent
         /\ \/ UNCHANGED <<open, recent>>
            \/ \E r \in open : /\ r.id = id /\ claim >= r.epoch
                               /\ open' = open \ {r}
                               /\ recent' \subseteq recent \cup
                                    {[row |-> r, disposition |-> d, resolved |-> now]}
<1>1. CASE UNCHANGED <<open, recent>>
  BY <1>1 DEF TablesFinite
<1>2. CASE ~UNCHANGED <<open, recent>>
  <2>1. /\ \E q \in RowAt(id) : Admits(q, claim, g)
        /\ \E r \in RowAt(id) : /\ open' = open \ {r}
                                /\ recent' \in Kept(recent \cup
                                     {[row |-> r, disposition |-> d, resolved |-> now]})
    BY <1>2 DEF Resolve
  <2>2. PICK r \in RowAt(id) :
          /\ open' = open \ {r}
          /\ recent' \in Kept(recent \cup
               {[row |-> r, disposition |-> d, resolved |-> now]})
    BY <2>1
  <2>3. r \in open /\ r.id = id /\ claim >= r.epoch
    BY <2>1, <2>2 DEF RowAt, Admits, IdsOnce
  <2>4. IsFiniteSet(recent \cup {[row |-> r, disposition |-> d, resolved |-> now]})
    BY FS_AddElement DEF TablesFinite
  <2>5. /\ recent' \subseteq recent \cup {[row |-> r, disposition |-> d, resolved |-> now]}
        /\ IsFiniteSet(recent') /\ Cardinality(recent') <= MaxRecent
    BY <2>2, <2>4, KeptWithin
  <2> QED
    BY <2>2, <2>3, <2>5
<1> QED
  BY <1>1, <1>2

\* The calls dispatched so far are numbered from one.
LEMMA EffectsNumbered ==
  ASSUME TypeOK
  PROVE  LET n == Cardinality(DOMAIN effects)
         IN n \in 0 .. MaxEffects /\ effects \in [1 .. n -> EffectType]
<1>1. PICK n \in 0 .. MaxEffects : effects \in [1 .. n -> EffectType]
  BY DEF TypeOK
<1>2. Cardinality(1 .. n) = n
  BY <1>1, FS_Interval, PendingAssumption
<1> QED
  BY <1>1, <1>2

(***************************************************************************)
(* The initial state and the actions, one lemma each.                      *)
(***************************************************************************)

\* The empty log satisfies the inductive invariant.
LEMMA InitEstablishes == Init => IInv
<1> SUFFICES ASSUME Init PROVE IInv
  OBVIOUS
<1>1. TypeOK
  <2>1. slot \in [Slots -> SlotType]
    BY PendingAssumption DEF Init, SlotType, Epochs, NoEffect
  <2>2. effects \in [1 .. 0 -> EffectType] /\ 0 \in 0 .. MaxEffects
    BY PendingAssumption DEF Init
  <2> QED
    BY <2>1, <2>2 DEF Init, TypeOK
<1>2. TablesFinite /\ Cardinality(recent) = 0 /\ Cardinality(heads) = 0
  BY FS_EmptySet DEF Init, TablesFinite
<1>3. Bounded
  <2>1. \A s \in Sessions : Open(s) = {}
    BY DEF Init, Open
  <2> QED
    BY <1>2, <2>1, FS_EmptySet, PendingAssumption DEF Bounded
<1>4. RowsOwn /\ IdsOnce /\ Fenced /\ Settled /\ Truthful
  BY DEF Init, RowsOwn, Recorded, IdsOnce, Fenced, Settled, Truthful
<1>5. SlotsOwn /\ EpochsOwn
  BY DEF Init, SlotsOwn, EpochsOwn, Delegating, Attached
<1>6. Rowed
  BY DEF Init, Rowed
<1> QED
  BY <1>1, <1>2, <1>3, <1>4, <1>5, <1>6 DEF IInv

\* new_session binds a session no executor is attached to.
LEMMA NewSessionKeeps ==
  ASSUME IInv, NEW s \in Sessions, NEW b \in Branches, NewSession(s, b)
  PROVE  IInv'
<1> USE DEF IInv, NewSession, BindSession, ReadBinding
<1>1. TypeOK'
  <2>1. [branch |-> b, epoch |-> 1] \in [branch : Branches, epoch : 1 .. MaxEpoch]
    BY PendingAssumption
  <2>2. binding' \in [Sessions -> {Unbound} \cup [branch : Branches, epoch : 1 .. MaxEpoch]]
    BY <2>1 DEF TypeOK
  <2> QED
    BY <2>2 DEF TypeOK
<1>2. EpochsOwn'
  BY PendingAssumption DEF EpochsOwn, Attached, TypeOK
<1>3. (TablesFinite /\ RowsOwn /\ IdsOnce /\ SlotsOwn /\ Fenced /\ Settled /\ Truthful
       /\ Rowed /\ Bounded)'
  BY DEF TablesFinite, RowsOwn, Recorded, IdsOnce, SlotsOwn, Delegating, Fenced, Settled,
         Truthful, Rowed, Unsettled, Bounded, Open
<1> QED
  BY <1>1, <1>2, <1>3

\* An executor that takes no call leaves the tables alone: what remains is that the new
\* value's fences are its own.
LEMMA SetGenerationKeeps ==
  ASSUME IInv, NEW x \in Slots, NEW g \in Generations, SetGeneration(x, g)
  PROVE  IInv'
<1> USE DEF IInv, SetGeneration, Idle
<1>1. TypeOK'
  BY DEF TypeOK, SlotType
<1>2. \A y \in Slots : /\ slot'[y].phase = slot[y].phase /\ slot'[y].epoch = slot[y].epoch
                       /\ slot'[y].id = slot[y].id /\ slot'[y].effect = slot[y].effect
  BY DEF TypeOK, SlotType
<1>3. EpochsOwn' /\ SlotsOwn'
  BY <1>2 DEF EpochsOwn, SlotsOwn, Attached, Delegating
<1>4. Fenced' /\ Settled'
  BY <1>2 DEF Fenced, Settled, Delegating
<1>5. (TablesFinite /\ RowsOwn /\ IdsOnce /\ Truthful /\ Rowed /\ Bounded)'
  BY DEF TablesFinite, RowsOwn, Recorded, IdsOnce, Truthful, Rowed, Unsettled, Bounded, Open
<1> QED
  BY <1>1, <1>3, <1>4, <1>5

\* resume_session admits only a newer claim, so the slot that takes it is alone with it.
LEMMA ResumeKeeps ==
  ASSUME IInv, NEW s \in Sessions, NEW c \in Epochs, Resume(s, c)
  PROVE  IInv'
<1> USE DEF IInv, Resume, BumpSessionEpoch, ReadBinding
<1>1. binding[s] # Unbound /\ c > binding[s].epoch /\ binding[s].epoch \in 1 .. MaxEpoch
  BY DEF TypeOK
<1>2. TypeOK'
  <2>1. binding' \in [Sessions -> {Unbound} \cup [branch : Branches, epoch : 1 .. MaxEpoch]]
    BY <1>1, PendingAssumption DEF TypeOK, Epochs
  <2>2. slot' \in [Slots -> SlotType]
    <3>1. CASE slot' = slot
      BY <3>1 DEF TypeOK
    <3>2. ASSUME NEW x \in Slots, slot' = [slot EXCEPT ![x].epoch = c]
          PROVE  slot' \in [Slots -> SlotType]
      BY <3>2 DEF TypeOK, SlotType
    <3> QED
      BY <3>1, <3>2
  <2> QED
    BY <2>1, <2>2 DEF TypeOK
<1>3. \A y \in Slots :
        /\ slot'[y].phase = slot[y].phase
        /\ slot'[y].id = slot[y].id /\ slot'[y].effect = slot[y].effect
        /\ slot'[y].epoch = slot[y].epoch
             \/ (slot'[y].epoch = c /\ Idle(y) /\ SessionOf[y] = s)
  <2>1. CASE slot' = slot
    BY <2>1
  <2>2. ASSUME NEW x \in Slots, Idle(x), SessionOf[x] = s,
               slot' = [slot EXCEPT ![x].epoch = c]
        PROVE  \A y \in Slots :
                 /\ slot'[y].phase = slot[y].phase
                 /\ slot'[y].id = slot[y].id /\ slot'[y].effect = slot[y].effect
                 /\ slot'[y].epoch = slot[y].epoch
                      \/ (slot'[y].epoch = c /\ Idle(y) /\ SessionOf[y] = s)
    BY <2>2 DEF TypeOK, SlotType
  <2> QED
    BY <2>1, <2>2
<1>4. \A y \in Slots : Delegating(y) => slot'[y].epoch = slot[y].epoch
  BY <1>3 DEF Delegating, Idle
<1>5. SlotsOwn' /\ Fenced' /\ Settled'
  BY <1>3, <1>4 DEF SlotsOwn, Fenced, Settled, Delegating
<1>6. EpochsOwn'
  <2>1. \A y \in Slots : Attached(y)' =>
          /\ binding'[SessionOf[y]] # Unbound
          /\ slot'[y].epoch <= binding'[SessionOf[y]].epoch
    <3> SUFFICES ASSUME NEW y \in Slots, slot[y].phase # "none"
                 PROVE  /\ binding'[SessionOf[y]] # Unbound
                        /\ slot'[y].epoch <= binding'[SessionOf[y]].epoch
      BY <1>3 DEF Attached
    <3>1. binding[SessionOf[y]] # Unbound /\ slot[y].epoch <= binding[SessionOf[y]].epoch
      BY DEF EpochsOwn, Attached
    <3>2. CASE SessionOf[y] = s
      <4>1. binding'[s] = [branch |-> binding[s].branch, epoch |-> c]
        BY <1>1 DEF TypeOK
      <4>2. c # 0
        BY <1>1 DEF Epochs
      <4>3. slot[y].epoch \in Nat /\ binding[s].epoch \in Nat /\ c \in Nat
        BY <1>1 DEF TypeOK, SlotType, Epochs
      <4> QED
        BY <1>1, <1>3, <3>1, <3>2, <4>1, <4>2, <4>3 DEF Unbound
    <3>3. CASE SessionOf[y] # s
      BY <1>3, <3>1, <3>3, PendingAssumption DEF TypeOK
    <3> QED
      BY <3>2, <3>3
  <2>2. \A y, z \in Slots :
          Attached(y)' /\ Attached(z)' /\ SessionOf[y] = SessionOf[z]
            /\ slot'[y].epoch = slot'[z].epoch => y = z
    <3>1. \A y \in Slots : Attached(y) /\ SessionOf[y] = s => slot[y].epoch < c
      BY <1>1 DEF EpochsOwn, TypeOK, SlotType, Epochs
    <3>2. CASE slot' = slot
      BY <3>2 DEF EpochsOwn, Attached
    <3>3. ASSUME NEW x \in Slots, Idle(x), SessionOf[x] = s,
                 slot' = [slot EXCEPT ![x].epoch = c]
          PROVE  \A y, z \in Slots :
                   Attached(y)' /\ Attached(z)' /\ SessionOf[y] = SessionOf[z]
                     /\ slot'[y].epoch = slot'[z].epoch => y = z
      <4>1. slot'[x].epoch = c /\ \A y \in Slots \ {x} : slot'[y] = slot[y]
        BY <3>3 DEF TypeOK, SlotType
      <4>2. \A y \in Slots : Attached(y)' => Attached(y)
        BY <1>3 DEF Attached
      <4>3. \A y \in Slots : slot[y].epoch \in Nat
        BY DEF TypeOK, SlotType, Epochs
      <4> QED
        BY <3>1, <3>3, <4>1, <4>2, <4>3 DEF EpochsOwn, Epochs
    <3> QED
      BY <3>2, <3>3
  <2> QED
    BY <2>1, <2>2 DEF EpochsOwn
<1>7. (TablesFinite /\ RowsOwn /\ IdsOnce /\ Truthful /\ Rowed /\ Bounded)'
  BY DEF TablesFinite, RowsOwn, Recorded, IdsOnce, Truthful, Rowed, Unsettled, Bounded, Open
<1> QED
  BY <1>2, <1>5, <1>6, <1>7

\* bind_head and unbind_head change the markers only.
LEMMA HeadsKeep ==
  ASSUME IInv, NEW s \in Sessions, BindHead(s) \/ UnbindHead(s)
  PROVE  IInv'
<1> USE DEF IInv, BindHead, UnbindHead, MarkHead
<1>1. UNCHANGED <<open, recent, binding, slot, effects>>
  OBVIOUS
<1>2. TypeOK'
  BY DEF TypeOK
<1>3. TablesFinite' /\ Bounded'
  <2>1. IsFiniteSet(heads') /\ Cardinality(heads') <= MaxHeads
    BY FS_AddElement, FS_RemoveElement, FS_CardinalityType, PendingAssumption
       DEF TablesFinite, Bounded
  <2> QED
    BY <2>1 DEF TablesFinite, Bounded, Open
<1>4. (RowsOwn /\ IdsOnce /\ SlotsOwn /\ EpochsOwn /\ Fenced /\ Settled /\ Truthful /\ Rowed)'
  BY <1>1 DEF RowsOwn, Recorded, IdsOnce, SlotsOwn, EpochsOwn, Attached, Delegating, Fenced,
         Settled, Truthful, Rowed, Unsettled
<1> QED
  BY <1>2, <1>3, <1>4

\* The step changes the outcome of call k, and nothing else of any call.
Records(k, o) ==
  /\ \E n \in 0 .. MaxEffects : effects' \in [1 .. n -> EffectType]
  /\ DOMAIN effects' = DOMAIN effects
  /\ \A e \in DOMAIN effects :
       /\ effects'[e].id = effects[e].id /\ effects'[e].session = effects[e].session
       /\ effects'[e].directed = effects[e].directed
       /\ effects'[e].retired = effects[e].retired
       /\ effects'[e].outcome = IF e = k THEN o ELSE effects[e].outcome

\* Recording an outcome (the observer's side of a delegate's end) touches nothing else.
LEMMA OutcomeRecorded ==
  ASSUME TypeOK, NEW k \in DOMAIN effects,
         NEW o \in {"in-flight", "lost", "unknown"} \cup Returned,
         effects' = [effects EXCEPT ![k].outcome = o]
  PROVE  Records(k, o)
<1>1. PICK n \in 0 .. MaxEffects : effects \in [1 .. n -> EffectType]
  BY DEF TypeOK
<1>2. effects' \in [1 .. n -> EffectType]
  BY <1>1 DEF EffectType
<1> QED
  BY <1>1, <1>2 DEF EffectType, Records

\* The executor's side of a delegate's end: idle again, under the same epoch.
LEMMA Returns ==
  ASSUME TypeOK, NEW x \in Slots, NEW o, Return(x, o)
  PROVE  /\ slot' \in [Slots -> SlotType]
         /\ slot'[x].phase = "idle" /\ slot'[x].epoch = slot[x].epoch
         /\ \A y \in Slots \ {x} : slot'[y] = slot[y]
<1> DEFINE back == [slot[x] EXCEPT !.phase = "idle", !.id = <<>>, !.effect = NoEffect,
                                   !.now = 0]
<1>1. slot[x] \in SlotType
  BY DEF TypeOK
<1>2. back \in SlotType /\ back.phase = "idle" /\ back.epoch = slot[x].epoch
  <2>1. <<>> \in CallIds \cup {<<>>} /\ NoEffect \in Nat /\ 0 \in 0 .. MaxClock
    BY PendingAssumption DEF NoEffect
  <2> QED
    BY <1>1, <2>1 DEF SlotType
<1>3. slot' = [slot EXCEPT ![x] = back]
  BY DEF Return
<1> HIDE DEF back
<1> QED
  BY <1>2, <1>3 DEF TypeOK

\* PendingToolExecutor::new replaces a value; a delegate that value was running is lost,
\* and its row stays open.
LEMMA AttachKeeps ==
  ASSUME IInv, NEW x \in Slots, NEW g \in Generations, Attach(x, g)
  PROVE  IInv'
<1> USE DEF IInv
<1>1. UNCHANGED <<open, recent, binding, heads>>
  BY DEF Attach
<1>2. /\ slot'[x].phase = "idle" /\ slot'[x].epoch = binding[SessionOf[x]].epoch
      /\ \A y \in Slots \ {x} : slot'[y] = slot[y]
  BY DEF Attach, TypeOK
<1>3. binding[SessionOf[x]] # Unbound /\ binding[SessionOf[x]].epoch \in 1 .. MaxEpoch
  BY PendingAssumption DEF Attach, TypeOK
<1>4. slot' \in [Slots -> SlotType]
  <2>1. binding[SessionOf[x]].epoch \in Epochs /\ 0 \in 0 .. MaxClock
    BY <1>3, PendingAssumption DEF Epochs
  <2>2. [phase |-> "idle", seq |-> 0, epoch |-> binding[SessionOf[x]].epoch,
         generation |-> g, id |-> <<>>, effect |-> NoEffect, now |-> 0] \in SlotType
    BY <2>1 DEF SlotType, NoEffect
  <2> QED
    BY <2>2 DEF Attach, TypeOK
<1>5. /\ \E n \in 0 .. MaxEffects : effects' \in [1 .. n -> EffectType]
      /\ DOMAIN effects' = DOMAIN effects
      /\ \A e \in DOMAIN effects :
           /\ effects'[e].id = effects[e].id /\ effects'[e].session = effects[e].session
           /\ effects'[e].directed = effects[e].directed
           /\ effects'[e].retired = effects[e].retired
           /\ effects'[e].outcome = IF Delegating(x) /\ e = slot[x].effect
                                    THEN "lost" ELSE effects[e].outcome
  <2>1. CASE Delegating(x)
    <3>1. effects' = [effects EXCEPT ![slot[x].effect].outcome = "lost"]
      BY <2>1 DEF Attach, Lost, Delegating
    <3>2. slot[x].effect \in DOMAIN effects
      BY <2>1 DEF SlotsOwn
    <3>3. Records(slot[x].effect, "lost")
      <4>1. "lost" \in {"in-flight", "lost", "unknown"} \cup Returned
        OBVIOUS
      <4> QED
        BY <3>1, <3>2, <4>1, OutcomeRecorded
    <3> QED
      BY <2>1, <3>3 DEF Records
  <2>2. CASE ~Delegating(x)
    BY <2>2 DEF Attach, Lost, Delegating, TypeOK
  <2> QED
    BY <2>1, <2>2
<1>6. TypeOK'
  BY <1>1, <1>4, <1>5 DEF TypeOK
<1>7. TablesFinite' /\ IdsOnce' /\ Bounded'
  BY <1>1 DEF TablesFinite, IdsOnce, Bounded, Open
<1>8. RowsOwn'
  BY <1>1, <1>5 DEF RowsOwn, Recorded
<1>9. SlotsOwn'
  BY <1>2, <1>5 DEF SlotsOwn, Delegating
<1>10. EpochsOwn'
  <2>1. \A y \in Slots \ {x} : Attached(y) /\ SessionOf[y] = SessionOf[x]
          => slot[y].epoch # binding[SessionOf[x]].epoch
    BY DEF Attach
  <2>2. \A y \in Slots : Attached(y)' => /\ binding[SessionOf[y]] # Unbound
                                         /\ slot'[y].epoch <= binding[SessionOf[y]].epoch
    BY <1>2, <1>3 DEF EpochsOwn, Attached
  <2> QED
    BY <1>1, <1>2, <2>1, <2>2 DEF EpochsOwn, Attached
<1>11. Fenced'
  BY <1>1, <1>2, <1>5 DEF Fenced, Delegating, RowsOwn, Recorded
<1>12. Settled'
  BY <1>1, <1>2, <1>5 DEF Settled, Delegating, SlotsOwn
<1>13. Truthful'
  <2>1. \A c \in recent : c.row.effect \in DOMAIN effects
    BY DEF RowsOwn, Recorded
  <2> QED
    BY <1>1, <1>5, <2>1 DEF Truthful, Settled
<1>14. Rowed'
  BY <1>1, <1>5 DEF Rowed, Unsettled, SlotsOwn
<1> QED
  BY <1>6, <1>7, <1>8, <1>9, <1>10, <1>11, <1>12, <1>13, <1>14

\* Between its delegate and its return an executor does not change the log: EffectUnknown
\* resolves nothing, so the row stays for whoever reconciles it.
LEMMA DelegateUnknownKeeps ==
  ASSUME IInv, NEW x \in Slots, DelegateUnknown(x)
  PROVE  IInv'
<1> USE DEF IInv
<1>1. UNCHANGED <<open, recent, binding, heads>> /\ Delegating(x)
  BY DEF DelegateUnknown, Delegating
<1>2. /\ slot' \in [Slots -> SlotType]
      /\ slot'[x].phase = "idle" /\ slot'[x].epoch = slot[x].epoch
      /\ \A y \in Slots \ {x} : slot'[y] = slot[y]
  BY Returns DEF DelegateUnknown
<1>3. slot[x].effect \in DOMAIN effects
  BY <1>1 DEF SlotsOwn
<1>4. Records(slot[x].effect, "unknown")
  <2>1. "unknown" \in {"in-flight", "lost", "unknown"} \cup Returned
    OBVIOUS
  <2>2. effects' = [effects EXCEPT ![slot[x].effect].outcome = "unknown"]
    BY DEF DelegateUnknown, Return
  <2> QED
    BY <1>3, <2>1, <2>2, OutcomeRecorded
<1> USE <1>4 DEF Records
<1>5. TypeOK'
  BY <1>1, <1>2, <1>4 DEF TypeOK
<1>6. TablesFinite' /\ IdsOnce' /\ Bounded'
  BY <1>1 DEF TablesFinite, IdsOnce, Bounded, Open
<1>7. RowsOwn'
  BY <1>1, <1>4 DEF RowsOwn, Recorded
<1>8. SlotsOwn'
  BY <1>1, <1>2, <1>4 DEF SlotsOwn, Delegating
<1>9. EpochsOwn'
  BY <1>1, <1>2 DEF EpochsOwn, Attached, Delegating
<1>10. Fenced' /\ Settled'
  BY <1>1, <1>2, <1>4 DEF Fenced, Settled, Delegating, RowsOwn, Recorded, SlotsOwn
<1>11. Truthful'
  <2>1. \A c \in recent : c.row.effect \in DOMAIN effects
    BY DEF RowsOwn, Recorded
  <2> QED
    BY <1>1, <1>4, <2>1 DEF Truthful, Settled
<1>12. Rowed'
  BY <1>1, <1>4 DEF Rowed, Unsettled, SlotsOwn
<1> QED
  BY <1>5, <1>6, <1>7, <1>8, <1>9, <1>10, <1>11, <1>12

\* A definite answer closes at most one row.  The row is the call's own, or one that took
\* its id over; the second kind is fenced off by its epoch unless a superseded owner began it.
LEMMA DelegateAnswersKeeps ==
  ASSUME IInv, NEW x \in Slots, NEW o \in Answers, DelegateAnswers(x, o)
  PROVE  IInv'
<1> USE DEF IInv
<1> DEFINE mine == slot[x].effect
           Filed(r) == [row |-> r, disposition |-> o, resolved |-> slot[x].now]
<1>1. UNCHANGED <<binding, heads>> /\ Delegating(x) /\ o \in Returned
  BY PendingAssumption DEF DelegateAnswers, Delegating
<1>2. /\ slot' \in [Slots -> SlotType]
      /\ slot'[x].phase = "idle" /\ slot'[x].epoch = slot[x].epoch
      /\ \A y \in Slots \ {x} : slot'[y] = slot[y]
  BY Returns DEF DelegateAnswers
<1>3. mine \in DOMAIN effects /\ effects[mine].outcome = "in-flight"
  BY <1>1 DEF SlotsOwn
<1>4. Records(mine, o)
  <2>1. effects' = [effects EXCEPT ![mine].outcome = o]
    BY DEF DelegateAnswers, Return
  <2> QED
    BY <1>1, <1>3, <2>1, OutcomeRecorded
<1>5. /\ IsFiniteSet(recent') /\ Cardinality(recent') <= MaxRecent
      /\ \/ UNCHANGED <<open, recent>>
         \/ \E r \in open : /\ r.id = slot[x].id /\ slot[x].epoch >= r.epoch
                            /\ open' = open \ {r}
                            /\ recent' \subseteq recent \cup {Filed(r)}
  <2>1. CASE UNCHANGED <<open, recent>>
    BY <2>1 DEF TablesFinite, Bounded
  <2>2. CASE Resolve(slot[x].id, slot[x].epoch, slot[x].generation, o, slot[x].now)
    BY <2>2, ResolveCloses DEF Bounded
  <2> QED
    BY <2>1, <2>2 DEF DelegateAnswers
<1>6. \A r \in open : /\ r \in Rows /\ r.effect \in DOMAIN effects
                      /\ slot[x].epoch \in Nat /\ r.epoch \in Nat
  BY DEF TypeOK, RowsOwn, Recorded, SlotType, Rows, Epochs
<1>7. open' \subseteq open /\ TablesFinite' /\ Bounded'
  <2>1. open' \subseteq open
    BY <1>5
  <2>2. IsFiniteSet(open')
    BY <2>1, FS_Subset DEF TablesFinite
  <2>3. \A s \in Sessions : Cardinality(Open(s)') <= MaxOpen
    <3> TAKE s \in Sessions
    <3>1. IsFiniteSet(Open(s)) /\ Open(s)' \subseteq Open(s)
      BY <2>1, FS_Subset DEF Open, TablesFinite
    <3>2. /\ Cardinality(Open(s)') <= Cardinality(Open(s)) /\ Cardinality(Open(s)) <= MaxOpen
          /\ Cardinality(Open(s)') \in Nat /\ Cardinality(Open(s)) \in Nat
      BY <3>1, FS_Subset, FS_CardinalityType DEF Bounded
    <3> QED
      BY <3>2, PendingAssumption
  <2> QED
    BY <1>1, <1>5, <2>1, <2>2, <2>3 DEF TablesFinite, Bounded
<1>8. \A c \in recent' : \/ c \in recent
                         \/ \E r \in open : /\ c = Filed(r) /\ r.id = slot[x].id
                                            /\ slot[x].epoch >= r.epoch /\ r \notin open'
  BY <1>5
<1>9. \A r \in open : r.id = slot[x].id /\ slot[x].epoch >= r.epoch
                        => r.effect = mine \/ effects[r.effect].retired
  BY <1>1, <1>6 DEF Fenced
<1>10. TypeOK'
  <2>1. recent' \subseteq Snapshots
    <3> SUFFICES ASSUME NEW r \in open PROVE Filed(r) \in Snapshots
      BY <1>8 DEF TypeOK
    <3>1. slot[x].now \in 0 .. MaxClock
      BY DEF TypeOK, SlotType
    <3> QED
      BY <1>1, <1>6, <3>1 DEF Snapshots
  <2> QED
    BY <1>1, <1>2, <1>4, <1>7, <2>1 DEF TypeOK, Records
<1>11. RowsOwn'
  <2>1. Recorded' \subseteq Recorded
    BY <1>7, <1>8 DEF Recorded
  <2> QED
    BY <1>4, <2>1 DEF RowsOwn, Records
<1>12. IdsOnce'
  <2>1. \A r \in open', c \in recent' : r.id # c.row.id
    BY <1>7, <1>8 DEF IdsOnce
  <2> QED
    BY <1>7, <2>1 DEF IdsOnce
<1>13. SlotsOwn'
  BY <1>1, <1>2, <1>4 DEF SlotsOwn, Delegating, Records
<1>14. EpochsOwn'
  BY <1>1, <1>2 DEF EpochsOwn, Attached, Delegating
<1>15. Fenced'
  BY <1>2, <1>4, <1>6, <1>7 DEF Fenced, Delegating, Records
<1>16. Settled'
  <2> SUFFICES ASSUME NEW y \in Slots \ {x}, NEW c \in recent', Delegating(y),
                      c.row.effect = slot[y].effect
               PROVE  effects[slot[y].effect].directed \/ effects[slot[y].effect].retired
    BY <1>2, <1>4 DEF Settled, Delegating, Records, SlotsOwn
  <2>1. slot[y].effect # mine
    BY <1>1 DEF SlotsOwn
  <2>2. CASE c \in recent
    BY <2>2 DEF Settled
  <2>3. CASE c \notin recent
    <3>1. PICK r \in open : c = Filed(r) /\ r.id = slot[x].id /\ slot[x].epoch >= r.epoch
      BY <1>8, <2>3
    <3>2. c.row.effect = r.effect
      BY <3>1
    <3> QED
      BY <1>9, <2>1, <3>1, <3>2
  <2> QED
    BY <2>2, <2>3
<1>17. Truthful'
  <2> SUFFICES ASSUME NEW c \in recent'
               PROVE  LET e == effects'[c.row.effect]
                      IN e.directed \/ e.retired \/ e.outcome = c.disposition
    BY DEF Truthful
  <2>1. CASE c \in recent
    <3>1. c.row.effect \in DOMAIN effects
      BY <2>1 DEF RowsOwn, Recorded
    <3>2. c.row.effect = mine => effects[mine].directed \/ effects[mine].retired
      BY <1>1, <2>1 DEF Settled
    <3> QED
      BY <1>4, <2>1, <3>1, <3>2 DEF Truthful, Records
  <2>2. CASE c \notin recent
    <3>1. PICK r \in open : c = Filed(r) /\ r.id = slot[x].id /\ slot[x].epoch >= r.epoch
      BY <1>8, <2>2
    <3>2. c.row.effect = r.effect /\ c.disposition = o /\ r.effect \in DOMAIN effects
      BY <1>6, <3>1
    <3> QED
      BY <1>4, <1>9, <3>1, <3>2 DEF Records
  <2> QED
    BY <2>1, <2>2
<1>18. Rowed'
  <2> SUFFICES ASSUME NEW e \in DOMAIN effects, Unsettled(e)', ~effects[e].retired
               PROVE  \E r \in open' : r.effect = e
    BY <1>4 DEF Rowed, Records
  <2>1. e # mine /\ Unsettled(e)
    BY <1>1, <1>4 DEF Unsettled, Records, Returned
  <2>2. PICK r \in open : r.effect = e
    BY <2>1 DEF Rowed
  <2>3. r \in open'
    BY <1>5, <1>9, <2>1, <2>2
  <2> QED
    BY <2>2, <2>3
<1> QED
  BY <1>7, <1>10, <1>11, <1>12, <1>13, <1>14, <1>15, <1>16, <1>17, <1>18

\* A row closed by inspection or direction settles the call that wrote it, and no other.
LEMMA ReconcileKeeps ==
  ASSUME IInv, NEW id, NEW g, NEW d \in Directions, NEW now \in 0 .. MaxClock,
         Reconcile(id, g, d, now)
  PROVE  IInv'
<1> USE DEF IInv
<1> DEFINE Filed(r) == [row |-> r, disposition |-> d, resolved |-> now]
           Closed(e) == \E r \in open \ open' : r.effect = e
<1>1. UNCHANGED <<binding, heads, slot>>
  BY DEF Reconcile
<1>2. /\ \E n \in 0 .. MaxEffects : effects' \in [1 .. n -> EffectType]
      /\ DOMAIN effects' = DOMAIN effects
      /\ \A e \in DOMAIN effects :
           /\ effects'[e].id = effects[e].id /\ effects'[e].session = effects[e].session
           /\ effects'[e].retired = effects[e].retired
           /\ effects'[e].outcome = effects[e].outcome
           /\ effects[e].directed => effects'[e].directed
           /\ Closed(e) => effects'[e].directed
           /\ ~Closed(e) => effects'[e] = effects[e]
  <2>1. PICK n \in 0 .. MaxEffects : effects \in [1 .. n -> EffectType]
    BY DEF TypeOK
  <2>2. effects' = [e \in DOMAIN effects |->
                      IF Closed(e) THEN [effects[e] EXCEPT !.directed = TRUE] ELSE effects[e]]
    BY DEF Reconcile
  <2>3. \A e \in DOMAIN effects :
          /\ [effects[e] EXCEPT !.directed = TRUE] \in EffectType
          /\ [effects[e] EXCEPT !.directed = TRUE].directed
          /\ [effects[e] EXCEPT !.directed = TRUE].id = effects[e].id
          /\ [effects[e] EXCEPT !.directed = TRUE].session = effects[e].session
          /\ [effects[e] EXCEPT !.directed = TRUE].retired = effects[e].retired
          /\ [effects[e] EXCEPT !.directed = TRUE].outcome = effects[e].outcome
    BY <2>1 DEF EffectType
  <2> HIDE DEF Closed
  <2> QED
    BY <2>1, <2>2, <2>3
<1>3. /\ IsFiniteSet(recent') /\ Cardinality(recent') <= MaxRecent
      /\ \/ UNCHANGED <<open, recent>>
         \/ \E r \in open : /\ open' = open \ {r}
                            /\ recent' \subseteq recent \cup {Filed(r)}
  <2>1. Resolve(id, binding[id[1]].epoch, g, d, now)
    BY DEF Reconcile
  <2> QED
    BY <2>1, ResolveCloses DEF Bounded
<1>4. open' \subseteq open /\ TablesFinite' /\ Bounded'
  <2>1. open' \subseteq open
    BY <1>3
  <2>2. IsFiniteSet(open')
    BY <2>1, FS_Subset DEF TablesFinite
  <2>3. \A s \in Sessions : Cardinality(Open(s)') <= MaxOpen
    <3> TAKE s \in Sessions
    <3>1. IsFiniteSet(Open(s)) /\ Open(s)' \subseteq Open(s)
      BY <2>1, FS_Subset DEF Open, TablesFinite
    <3>2. /\ Cardinality(Open(s)') <= Cardinality(Open(s)) /\ Cardinality(Open(s)) <= MaxOpen
          /\ Cardinality(Open(s)') \in Nat /\ Cardinality(Open(s)) \in Nat
      BY <3>1, FS_Subset, FS_CardinalityType DEF Bounded
    <3> QED
      BY <3>2, PendingAssumption
  <2> QED
    BY <1>1, <1>3, <2>1, <2>2, <2>3 DEF TablesFinite, Bounded
<1>5. \A c \in recent' : \/ c \in recent
                         \/ \E r \in open : c = Filed(r) /\ r \notin open'
  BY <1>3
<1>6. \A r \in open : r \in Rows /\ r.effect \in DOMAIN effects
  BY DEF TypeOK, RowsOwn, Recorded
<1>7. TypeOK'
  <2>1. recent' \subseteq Snapshots
    <3> SUFFICES ASSUME NEW r \in open PROVE Filed(r) \in Snapshots
      BY <1>5 DEF TypeOK
    <3> QED
      BY <1>6 DEF Snapshots
  <2> QED
    BY <1>1, <1>2, <1>4, <2>1 DEF TypeOK
<1>8. RowsOwn'
  <2>1. Recorded' \subseteq Recorded
    BY <1>4, <1>5 DEF Recorded
  <2> QED
    BY <1>2, <2>1 DEF RowsOwn
<1>9. IdsOnce'
  <2>1. \A r \in open', c \in recent' : r.id # c.row.id
    BY <1>4, <1>5 DEF IdsOnce
  <2> QED
    BY <1>4, <2>1 DEF IdsOnce
<1>10. SlotsOwn' /\ EpochsOwn'
  BY <1>1, <1>2 DEF SlotsOwn, EpochsOwn, Attached, Delegating
<1>11. Fenced'
  BY <1>1, <1>2, <1>4, <1>6 DEF Fenced, Delegating
<1>12. \A c \in recent' \ recent : /\ c.row.effect \in DOMAIN effects
                                   /\ effects'[c.row.effect].directed
  <2> SUFFICES ASSUME NEW r \in open, r \notin open'
               PROVE  r.effect \in DOMAIN effects /\ effects'[r.effect].directed
    BY <1>5
  <2> QED
    BY <1>2, <1>6
<1>13. \A c \in recent : c.row.effect \in DOMAIN effects
  BY DEF RowsOwn, Recorded
<1>14. Settled'
  BY <1>1, <1>2, <1>12, <1>13 DEF Settled, Delegating
<1>15. Truthful'
  BY <1>2, <1>12, <1>13 DEF Truthful
<1>16. Rowed'
  <2> SUFFICES ASSUME NEW e \in DOMAIN effects, Unsettled(e)', ~effects[e].retired
               PROVE  \E r \in open' : r.effect = e
    BY <1>2 DEF Rowed
  <2>1. Unsettled(e) /\ ~Closed(e)
    BY <1>2 DEF Unsettled
  <2> QED
    BY <2>1 DEF Rowed
<1> QED
  BY <1>4, <1>7, <1>8, <1>9, <1>10, <1>11, <1>14, <1>15, <1>16

\* begin takes an id that is neither live nor remembered and a place under the open
\* bound; its row, its call and its delegate are new together.
LEMMA DispatchKeeps ==
  ASSUME IInv, NEW x \in Slots, NEW now \in 0 .. MaxClock, Dispatch(x, now)
  PROVE  IInv'
<1> USE DEF IInv
<1> DEFINE n == Min(FreeSeqs(x))
           id == <<SessionOf[x], n>>
           k == Cardinality(DOMAIN effects) + 1
           row == [id |-> id, session |-> SessionOf[x], generation |-> slot[x].generation,
                   epoch |-> slot[x].epoch, effect |-> k]
           call == [session |-> SessionOf[x], id |-> id, outcome |-> "in-flight",
                    directed |-> FALSE, retired |-> slot[x].epoch < binding[SessionOf[x]].epoch]
           busy == [slot[x] EXCEPT !.phase = "delegate", !.seq = n + 1,
                                   !.id = id, !.effect = k, !.now = now]
<1>1. /\ open' = open \cup {row}
      /\ slot' = [slot EXCEPT ![x] = busy]
      /\ effects' = [e \in 1 .. k |-> IF e = k THEN call ELSE effects[e]]
      /\ UNCHANGED <<recent, binding, heads>>
      /\ slot[x].phase = "idle" /\ FreeSeqs(x) # {}
      /\ Cardinality(DOMAIN effects) < MaxEffects
      /\ Cardinality(Open(SessionOf[x])) < MaxOpen
  BY DEF Dispatch, Begin, Idle, BeginAdmits
<1>2. slot[x] \in SlotType /\ SessionOf[x] \in Sessions
  BY PendingAssumption DEF TypeOK
<1>3. n \in Nat /\ ~Taken(id)
  <2>1. FreeSeqs(x) \in SUBSET Nat
    BY <1>2, PendingAssumption DEF FreeSeqs, SlotType
  <2>2. n \in FreeSeqs(x)
    BY <1>1, <2>1, MinOfNaturals
  <2> QED
    BY <2>1, <2>2 DEF FreeSeqs
<1> HIDE DEF n
<1>4. /\ k \in Nat /\ k <= MaxEffects /\ k \notin DOMAIN effects
      /\ DOMAIN effects = 1 .. (k - 1) /\ effects \in [1 .. (k - 1) -> EffectType]
  BY <1>1, EffectsNumbered, PendingAssumption
<1> HIDE DEF k
<1>5. id \in CallIds
  BY <1>2, <1>3 DEF CallIds
<1>6. /\ row \in Rows /\ row.id = id /\ row.session = SessionOf[x]
      /\ row.epoch = slot[x].epoch /\ row.effect = k
  BY <1>2, <1>4, <1>5 DEF Rows, SlotType
<1>7. /\ busy \in SlotType /\ busy.phase = "delegate" /\ busy.effect = k
      /\ busy.id = id /\ busy.epoch = slot[x].epoch
  <2>1. n + 1 \in Nat /\ id \in CallIds \cup {<<>>} /\ k \in Nat
    BY <1>3, <1>4, <1>5
  <2> HIDE DEF id
  <2> QED
    BY <1>2, <2>1 DEF SlotType
<1>8. /\ call \in EffectType /\ call.id = id /\ call.session = SessionOf[x]
      /\ call.outcome = "in-flight"
      /\ call.retired = (slot[x].epoch < binding[SessionOf[x]].epoch)
  BY <1>2, <1>5 DEF EffectType
<1> HIDE DEF row, busy, call
<1>9. /\ effects' \in [1 .. k -> EffectType] /\ k \in 0 .. MaxEffects
      /\ effects'[k] = call /\ k \in DOMAIN effects'
      /\ \A e \in DOMAIN effects : e \in DOMAIN effects' /\ effects'[e] = effects[e] /\ e # k
      /\ \A e \in DOMAIN effects' : e = k \/ e \in DOMAIN effects
  <2>1. k \in 0 .. MaxEffects /\ k \in 1 .. k
    BY <1>1, <1>4, EffectsNumbered, PendingAssumption DEF k
  <2>2. \A e \in 1 .. k : e = k \/ e \in 1 .. (k - 1)
    BY <1>4
  <2>3. \A e \in 1 .. (k - 1) : e \in 1 .. k /\ e # k
    BY <1>4
  <2>4. DOMAIN effects' = 1 .. k /\ \A e \in 1 .. k : effects'[e] = IF e = k THEN call ELSE effects[e]
    BY <1>1
  <2>5. \A e \in 1 .. k : effects'[e] \in EffectType
    BY <1>4, <1>8, <2>2, <2>4
  <2>6. effects' \in [1 .. k -> EffectType]
    BY <1>1, <2>4, <2>5
  <2> QED
    BY <1>4, <2>1, <2>2, <2>3, <2>4, <2>6
<1>10. /\ slot' \in [Slots -> SlotType] /\ slot'[x] = busy
       /\ \A y \in Slots \ {x} : slot'[y] = slot[y]
  BY <1>1, <1>7 DEF TypeOK
<1>11. TypeOK'
  BY <1>1, <1>6, <1>9, <1>10 DEF TypeOK
<1>12. \A r \in Recorded : r.id # id /\ r.effect \in DOMAIN effects
  BY <1>3 DEF Recorded, Taken, RowAt, RowsOwn
<1>13. TablesFinite'
  BY <1>1, FS_AddElement DEF TablesFinite
<1>14. Bounded'
  <2>1. \A s \in Sessions : Cardinality(Open(s)') <= MaxOpen
    <3> TAKE s \in Sessions
    <3>1. IsFiniteSet(Open(s)) /\ Cardinality(Open(s)) <= MaxOpen
      BY FS_Subset DEF Open, TablesFinite, Bounded
    <3>2. CASE s = SessionOf[x]
      <4>1. Open(s)' = Open(s) \cup {row}
        BY <1>1, <1>6, <3>2 DEF Open
      <4>2. Cardinality(Open(s)) \in Nat /\ Cardinality(Open(s)) < MaxOpen
        BY <1>1, <3>1, <3>2, FS_CardinalityType
      <4>3. \/ Cardinality(Open(s)') = Cardinality(Open(s))
            \/ Cardinality(Open(s)') = Cardinality(Open(s)) + 1
        BY <3>1, <4>1, FS_AddElement
      <4> QED
        BY <4>2, <4>3, PendingAssumption
    <3>3. CASE s # SessionOf[x]
      <4>1. Open(s)' = Open(s)
        BY <1>1, <1>6, <3>3 DEF Open
      <4> QED
        BY <3>1, <4>1
    <3> QED
      BY <3>2, <3>3
  <2> QED
    BY <1>1, <2>1 DEF Bounded
<1>15. RowsOwn'
  <2>1. Recorded' = Recorded \cup {row}
    BY <1>1 DEF Recorded
  <2> QED
    BY <1>6, <1>8, <1>9, <1>12, <2>1 DEF RowsOwn
<1>16. IdsOnce'
  BY <1>1, <1>6, <1>12 DEF IdsOnce, Recorded
<1>17. SlotsOwn'
  <2>1. \A y \in Slots : Delegating(y)' =>
          /\ slot'[y].effect \in DOMAIN effects'
          /\ effects'[slot'[y].effect].outcome = "in-flight"
          /\ effects'[slot'[y].effect].id = slot'[y].id
          /\ slot'[y].id[1] = SessionOf[y]
    BY <1>7, <1>8, <1>9, <1>10 DEF SlotsOwn, Delegating
  <2>2. \A y \in Slots \ {x} : Delegating(y) => slot[y].effect # k
    BY <1>9 DEF SlotsOwn
  <2> QED
    BY <1>7, <1>10, <2>1, <2>2 DEF SlotsOwn, Delegating
<1>18. EpochsOwn'
  BY <1>1, <1>7, <1>10 DEF EpochsOwn, Attached
<1>19. Fenced'
  <2> SUFFICES ASSUME NEW y \in Slots, NEW r \in open', Delegating(y)',
                      r.id = slot'[y].id, r.effect # slot'[y].effect
               PROVE  effects'[r.effect].retired \/ slot'[y].epoch < r.epoch
    BY DEF Fenced
  <2>1. CASE r \in open
    <3>1. y # x /\ slot'[y] = slot[y]
      BY <1>7, <1>10, <1>12, <2>1 DEF Recorded
    <3> QED
      BY <1>9, <1>12, <2>1, <3>1 DEF Fenced, Delegating, Recorded
  <2>2. CASE r = row
    <3>1. y # x /\ slot'[y] = slot[y] /\ Delegating(y)
      BY <1>6, <1>7, <1>10, <2>2 DEF Delegating
    <3>2. SessionOf[y] = SessionOf[x]
      BY <1>6, <2>2, <3>1 DEF SlotsOwn
    <3>3. /\ slot[y].epoch <= binding[SessionOf[x]].epoch
          /\ slot[x].epoch <= binding[SessionOf[x]].epoch
          /\ slot[y].epoch # slot[x].epoch
      BY <1>1, <3>1, <3>2 DEF EpochsOwn, Attached, Delegating
    <3>4. /\ slot[x].epoch \in Nat /\ slot[y].epoch \in Nat
          /\ binding[SessionOf[x]].epoch \in Nat
      BY <1>2, <3>1, PendingAssumption DEF TypeOK, SlotType, Epochs, Unbound
    <3>5. effects'[r.effect] = call /\ r.epoch = slot[x].epoch /\ slot'[y].epoch = slot[y].epoch
      BY <1>6, <1>9, <2>2, <3>1
    <3>6. CASE slot[x].epoch < binding[SessionOf[x]].epoch
      BY <1>8, <3>5, <3>6
    <3>7. CASE ~(slot[x].epoch < binding[SessionOf[x]].epoch)
      BY <3>3, <3>4, <3>5, <3>7
    <3> QED
      BY <3>6, <3>7
  <2> QED
    BY <1>1, <2>1, <2>2
<1>20. Settled'
  <2> SUFFICES ASSUME NEW y \in Slots, NEW c \in recent, Delegating(y)',
                      c.row.effect = slot'[y].effect
               PROVE  effects'[c.row.effect].directed \/ effects'[c.row.effect].retired
    BY <1>1 DEF Settled
  <2>1. c.row.effect \in DOMAIN effects
    BY <1>12 DEF Recorded
  <2>2. y # x /\ slot'[y] = slot[y]
    BY <1>7, <1>9, <1>10, <2>1
  <2> QED
    BY <1>9, <2>1, <2>2 DEF Settled, Delegating
<1>21. Truthful'
  BY <1>1, <1>9, <1>12 DEF Truthful, Recorded
<1>22. Rowed'
  BY <1>1, <1>6, <1>9 DEF Rowed, Unsettled
<1> QED
  BY <1>11, <1>13, <1>14, <1>15, <1>16, <1>17, <1>18, <1>19, <1>20, <1>21, <1>22

(***************************************************************************)
(* The theorems.                                                           *)
(***************************************************************************)

\* The invariant is inductive: one case per action.
LEMMA NextKeeps == IInv /\ [Next]_vars => IInv'
<1> SUFFICES ASSUME IInv, [Next]_vars PROVE IInv'
  OBVIOUS
<1>1. CASE \E s \in Sessions, b \in Branches : NewSession(s, b)
  BY <1>1, NewSessionKeeps
<1>2. CASE \E x \in Slots, g \in Generations : Attach(x, g) \/ SetGeneration(x, g)
  BY <1>2, AttachKeeps, SetGenerationKeeps
<1>3. CASE \E s \in Sessions, c \in Epochs : Resume(s, c)
  BY <1>3, ResumeKeeps
<1>4. CASE \E s \in Sessions : BindHead(s) \/ UnbindHead(s)
  BY <1>4, HeadsKeep
<1>5. CASE \E x \in Slots, now \in 0 .. MaxClock : Dispatch(x, now)
  BY <1>5, DispatchKeeps
<1>6. CASE \E x \in Slots, o \in Answers : DelegateAnswers(x, o)
  BY <1>6, DelegateAnswersKeeps
<1>7. CASE \E x \in Slots : DelegateUnknown(x)
  BY <1>7, DelegateUnknownKeeps
<1>8. CASE \E r \in open, g \in Generations, d \in Directions, now \in 0 .. MaxClock :
             Reconcile(r.id, g, d, now)
  BY <1>8, ReconcileKeeps
<1>9. CASE UNCHANGED vars
  BY <1>9 DEF vars, IInv, TypeOK, TablesFinite, RowsOwn, Recorded, IdsOnce, SlotsOwn, EpochsOwn,
              Attached, Delegating, Fenced, Settled, Truthful, Rowed, Unsettled, Bounded, Open
<1> QED
  BY <1>1, <1>2, <1>3, <1>4, <1>5, <1>6, <1>7, <1>8, <1>9 DEF Next

\* What the invariant says of a resume.
LEMMA RowedIsNamed == IInv => UnsettledNamed
<1> SUFFICES ASSUME IInv PROVE UnsettledNamed
  OBVIOUS
<1> USE DEF IInv
<1>1. ASSUME NEW e \in DOMAIN effects, Unsettled(e), ~effects[e].retired
      PROVE  LET s == effects[e].session IN
             /\ \E r \in open : r.effect = e
             /\ effects[e].id \in ListOpen(s)
             /\ effects[e].id \in UnknownsForBranch(binding[s].branch)
             /\ s \in heads => effects[e].id \in UnknownsForHead
  <2>1. PICK r \in open : r.effect = e
    BY <1>1 DEF Rowed
  <2>2. effects[e].id = r.id /\ effects[e].session = r.session /\ r.session \in Sessions
    BY <2>1 DEF RowsOwn, Recorded, TypeOK, Rows
  <2>3. effects[e].id \in ListOpen(r.session)
    BY <2>1, <2>2 DEF ListOpen, Open
  <2> QED
    BY <2>1, <2>2, <2>3 DEF UnknownsForBranch, BoundTo, UnknownsForHead, ListHeadSessions
<1> QED
  BY <1>1 DEF UnsettledNamed, Bounded

\* Every unsettled effect of an owner that was current when it began keeps its row and is
\* named by every resume that covers its session, for all executors, bounds and schedules
\* of the pending-effect log.
THEOREM UnsettledNamedHolds == Spec => []UnsettledNamed
BY InitEstablishes, NextKeeps, RowedIsNamed, PTL DEF Spec

\* No answer is filed under another call's row, and no call id is on two records.
THEOREM RecordsTruthfulHolds == Spec => []RecordsTruthful
<1>1. IInv => RecordsTruthful
  BY DEF IInv, Truthful, IdsOnce, RecordsTruthful
<1> QED
  BY <1>1, InitEstablishes, NextKeeps, PTL DEF Spec

\* The tables and the executors keep their types.
THEOREM PendingTyped == Spec => []TypeOK
<1>1. IInv => TypeOK
  BY DEF IInv
<1> QED
  BY <1>1, InitEstablishes, NextKeeps, PTL DEF Spec

=============================================================================
