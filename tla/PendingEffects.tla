--------------------------- MODULE PendingEffects ---------------------------
(***************************************************************************)
(* The pending-effect log (session/pending.rs), the executor adapter that  *)
(* writes it around every tool call (slice/pending_host.rs), the session   *)
(* epoch rows that fence its owners (session/sessions.rs) and the kernel's *)
(* resume and HEAD-scope verbs over both (slice/wheel_kernel.rs).          *)
(*                                                                         *)
(* A slot is one PendingToolExecutor value bound to a session.  Slots, the *)
(* kernel and the user share one connection, each call of the store being  *)
(* one transaction under its lock; what interleaves is the delegate, which *)
(* runs between `begin` and `resolve` with no lock held.  A call id is the *)
(* pair the mint hashes, so two ids are equal exactly when their session   *)
(* and sequence are.                                                       *)
(***************************************************************************)
EXTENDS Integers, FiniteSets, FiniteSetsExt

CONSTANTS
  Sessions,        \* session ids
  Branches,        \* branch names a session can be bound to
  Slots,           \* executor adapters
  SessionOf,       \* the session each slot is bound to
  Generations,     \* task-generation tokens
  Answers,         \* definite delegate outcomes
  Directions,      \* dispositions the host or the user records by inspection
  MaxOpen,         \* MAX_OPEN_PENDING_PER_SESSION
  MaxRecent,       \* MAX_RESOLVED_RECENT
  MaxMint,         \* MAX_CALL_ID_MINT_ATTEMPTS
  MaxHeads,        \* MAX_HEAD_MARKERS
  MaxEpoch,        \* bound: epochs a claim may carry
  MaxClock,        \* bound: caller-supplied timestamps
  MaxEffects       \* bound: calls dispatched in a behaviour

\* PendingDisposition: what an executor records, and what only a person may.
Returned == {"success", "denied", "failed"}
Directed == {"refused", "unknown-reconciled", "unknown-escalated", "abandoned"}

ASSUME PendingAssumption ==
  /\ SessionOf \in [Slots -> Sessions]
  /\ MaxOpen \in Nat \ {0} /\ MaxRecent \in Nat \ {0} /\ MaxMint \in Nat \ {0}
  /\ MaxHeads \in Nat /\ MaxEpoch \in Nat \ {0} /\ MaxClock \in Nat /\ MaxEffects \in Nat
  /\ Generations # {}
  /\ Answers \subseteq Returned /\ Directions \subseteq Directed

VARIABLES
  open,      \* table pending_effects: the live rows
  recent,    \* table pending_resolved_recent: the newest resolved snapshots
  binding,   \* table session_bindings: per session its branch and epoch, or Unbound
  heads,     \* table pending_head_scope: the marked sessions
  slot,      \* the executor values
  effects    \* observer: every dispatched call, by the order of its dispatch

vars == <<open, recent, binding, heads, slot, effects>>

Epochs == 0 .. MaxEpoch
CallIds == Sessions \X Nat
NoEffect == 0

Unbound == [branch |-> "none", epoch |-> 0]

Rows == [id : CallIds, session : Sessions, generation : Generations,
         epoch : Epochs, effect : Nat]
Snapshots == [row : Rows, disposition : Returned \cup Directions, resolved : 0 .. MaxClock]

Open(s) == {r \in open : r.session = s}
RowAt(id) == {r \in open : r.id = id}

Taken(id) == \/ RowAt(id) # {}
             \/ \E c \in recent : c.row.id = id

(***************************************************************************)
(* PendingStore::list_open and the resume reads over it.                   *)
(***************************************************************************)
ListOpen(s) == {r.id : r \in Open(s)}

\* read_binding: none or one row.
ReadBinding(s) == {row \in {binding[s]} : row # Unbound}

\* list_sessions, restricted to one branch.
BoundTo(b) == {s \in Sessions : binding[s].branch = b}

UnknownsForBranch(b) == UNION {ListOpen(s) : s \in BoundTo(b)}

ListHeadSessions == {s \in Sessions : s \in heads}

UnknownsForHead == UNION {ListOpen(s) : s \in ListHeadSessions}

(***************************************************************************)
(* insert_resolved_cache: keep the MaxRecent snapshots with the greatest   *)
(* resolved_at_ms, which a caller with an older clock may not be among;    *)
(* ties fall by the hash order of the ids, which is arbitrary.             *)
(***************************************************************************)
Kept(S) ==
  IF Cardinality(S) <= MaxRecent THEN {S}
  ELSE {K \in kSubset(MaxRecent, S) :
          \A k \in K, e \in S \ K : e.resolved <= k.resolved}

(***************************************************************************)
(* PendingStore::resolve on an open row: both fences, then delete and      *)
(* remember in one transaction.  A refusal, a duplicate of a remembered id *)
(* (the same disposition or a conflicting one) and an unknown id write     *)
(* nothing.  The snapshot insert fails, and with it the transaction, when  *)
(* the cache already holds the id.                                         *)
(***************************************************************************)
\* Mutant: the epoch fence is not consulted.
AdmitsAnyEpoch(row, claim, generation) == generation = row.generation

Admits(row, claim, generation) ==
  /\ claim >= row.epoch
  /\ generation = row.generation

Resolve(id, claim, generation, disposition, now) ==
  IF \E r \in RowAt(id) : /\ Admits(r, claim, generation)
                          /\ \A c \in recent : c.row.id # id
  THEN \E r \in RowAt(id) :
         /\ open' = open \ {r}
         /\ recent' \in Kept(recent \cup
              {[row |-> r, disposition |-> disposition, resolved |-> now]})
  ELSE UNCHANGED <<open, recent>>

(***************************************************************************)
(* begin_guarded: the sequences the mint tries, the first free one within  *)
(* the attempt bound being the one admitted.                               *)
(***************************************************************************)
FreeSeqs(x) ==
  {n \in slot[x].seq .. (slot[x].seq + MaxMint - 1) : ~Taken(<<SessionOf[x], n>>)}

Idle(x) == slot[x].phase = "idle"
Attached(x) == slot[x].phase # "none"

Init ==
  /\ open = {} /\ recent = {} /\ heads = {}
  /\ binding = [s \in Sessions |-> Unbound]
  /\ slot = [x \in Slots |-> [phase |-> "none", seq |-> 0, epoch |-> 0,
                              generation |-> CHOOSE g \in Generations : TRUE,
                              id |-> <<>>, effect |-> NoEffect, now |-> 0]]
  /\ effects = <<>>

\* bind_session: one transaction; a bound id refuses.
BindSession(s, b, epoch) ==
  /\ ReadBinding(s) = {}
  /\ binding' = [binding EXCEPT ![s] = [branch |-> b, epoch |-> epoch]]

\* bump_session_epoch: one transaction; only a strictly newer claim is admitted.
BumpSessionEpoch(s, claim) ==
  /\ \E row \in ReadBinding(s) : claim > row.epoch
  /\ binding' = [binding EXCEPT ![s].epoch = claim]

\* WheelKernel::new_session: the row mints epoch 1.
NewSession(s, b) ==
  /\ BindSession(s, b, 1)
  /\ UNCHANGED <<open, recent, heads, slot, effects>>

(***************************************************************************)
(* PendingToolExecutor::new under the session's admitted epoch.  The value *)
(* it replaces is dropped: a delegate it was running never comes back, and *)
(* the mint counter restarts while the rows stay.                          *)
(***************************************************************************)
Lost(x) ==
  IF slot[x].phase = "delegate"
  THEN [effects EXCEPT ![slot[x].effect].outcome = "lost"]
  ELSE effects

Attach(x, generation) ==
  /\ binding[SessionOf[x]] # Unbound
  /\ \A y \in Slots \ {x} : Attached(y) /\ SessionOf[y] = SessionOf[x]
                              => slot[y].epoch # binding[SessionOf[x]].epoch
  /\ slot' = [slot EXCEPT ![x] =
       [phase |-> "idle", seq |-> 0, epoch |-> binding[SessionOf[x]].epoch,
        generation |-> generation, id |-> <<>>, effect |-> NoEffect, now |-> 0]]
  /\ effects' = Lost(x)
  /\ UNCHANGED <<open, recent, binding, heads>>

\* set_generation: the task's generation moved on (never during a call: &mut self).
SetGeneration(x, generation) ==
  /\ Idle(x)
  /\ slot' = [slot EXCEPT ![x].generation = generation]
  /\ UNCHANGED <<open, recent, binding, heads, effects>>

(***************************************************************************)
(* WheelKernel::resume_session on a session id: report ListOpen(s), then   *)
(* bump_session_epoch.  The owner may be a slot that keeps its counter and *)
(* takes the new epoch (set_epoch); otherwise no slot holds the new epoch  *)
(* until an Attach.                                                        *)
(* (A resume on a branch or on HEAD reports UnknownsForBranch(b) or        *)
(* UnknownsForHead and writes no row.)                                     *)
(***************************************************************************)
Resume(s, claim) ==
  /\ Cardinality(Open(s)) <= MaxOpen
  /\ BumpSessionEpoch(s, claim)
  /\ \/ slot' = slot
     \/ \E x \in Slots : /\ Idle(x) /\ SessionOf[x] = s
                         /\ slot' = [slot EXCEPT ![x].epoch = claim]
  /\ UNCHANGED <<open, recent, heads, effects>>

\* PendingStore::bind_head: an unmarked session within the marker bound.
MarkHead(s) ==
  /\ s \notin heads
  /\ Cardinality(heads) < MaxHeads
  /\ heads' = heads \cup {s}

\* bind_head_session: of a bound session only.
BindHead(s) ==
  /\ ReadBinding(s) # {}
  /\ MarkHead(s)
  /\ UNCHANGED <<open, recent, binding, slot, effects>>

UnbindHead(s) ==
  /\ s \in heads
  /\ heads' = heads \ {s}
  /\ UNCHANGED <<open, recent, binding, slot, effects>>

(***************************************************************************)
(* execute_with_context up to the delegate.  The row is committed before   *)
(* the delegate is contacted; at the open bound, with the mint exhausted   *)
(* or on a storage failure nothing is dispatched (no state changes).       *)
(***************************************************************************)
BeginAdmits(x) ==
  /\ Cardinality(Open(SessionOf[x])) < MaxOpen
  /\ FreeSeqs(x) # {}

Begin(x, n, now) ==
  LET id == <<SessionOf[x], n>>
      k == Cardinality(DOMAIN effects) + 1
  IN /\ open' = open \cup
          {[id |-> id, session |-> SessionOf[x], generation |-> slot[x].generation,
            epoch |-> slot[x].epoch, effect |-> k]}
     /\ slot' = [slot EXCEPT ![x] = [@ EXCEPT !.phase = "delegate", !.seq = n + 1,
                                              !.id = id, !.effect = k, !.now = now]]
     /\ effects' = [e \in 1 .. k |->
          IF e = k THEN [session |-> SessionOf[x], id |-> id, outcome |-> "in-flight", directed |-> FALSE,
                             retired |-> slot[x].epoch < binding[SessionOf[x]].epoch]
          ELSE effects[e]]

Dispatch(x, now) ==
  /\ Idle(x)
  /\ Cardinality(DOMAIN effects) < MaxEffects
  /\ BeginAdmits(x)
  /\ Begin(x, Min(FreeSeqs(x)), now)
  /\ UNCHANGED <<recent, binding, heads>>

(***************************************************************************)
(* execute_with_context after the delegate.  A definite answer resolves    *)
(* best-effort under the slot's own fences and the time of the dispatch;   *)
(* the store may also fail, which leaves the row; EffectUnknown resolves   *)
(* nothing.                                                                *)
(***************************************************************************)
Return(x, outcome) ==
  /\ slot' = [slot EXCEPT ![x] = [@ EXCEPT !.phase = "idle", !.id = <<>>, !.effect = NoEffect,
                                              !.now = 0]]
  /\ effects' = [effects EXCEPT ![slot[x].effect].outcome = outcome]

DelegateAnswers(x, outcome) ==
  /\ slot[x].phase = "delegate"
  /\ Return(x, outcome)
  /\ \/ Resolve(slot[x].id, slot[x].epoch, slot[x].generation, outcome, slot[x].now)
     \/ UNCHANGED <<open, recent>>
  /\ UNCHANGED <<binding, heads>>

\* Mutant: EffectUnknown is closed as a failure.
DelegateUnknownFailed(x) ==
  /\ slot[x].phase = "delegate"
  /\ Return(x, "unknown")
  /\ Resolve(slot[x].id, slot[x].epoch, slot[x].generation, "failed", slot[x].now)
  /\ UNCHANGED <<binding, heads>>

DelegateUnknown(x) ==
  /\ slot[x].phase = "delegate"
  /\ Return(x, "unknown")
  /\ UNCHANGED <<open, recent, binding, heads>>

(***************************************************************************)
(* The host or the user closes a row by inspection or direction, under the *)
(* session's admitted epoch.                                               *)
(***************************************************************************)
Reconcile(id, generation, disposition, now) ==
  /\ Resolve(id, binding[id[1]].epoch, generation, disposition, now)
  /\ effects' = [e \in DOMAIN effects |->
       IF \E r \in open \ open' : r.effect = e
       THEN [effects[e] EXCEPT !.directed = TRUE] ELSE effects[e]]
  /\ UNCHANGED <<binding, heads, slot>>

Next ==
  \/ \E s \in Sessions, b \in Branches : NewSession(s, b)
  \/ \E x \in Slots, g \in Generations : Attach(x, g) \/ SetGeneration(x, g)
  \/ \E s \in Sessions, c \in Epochs : Resume(s, c)
  \/ \E s \in Sessions : BindHead(s) \/ UnbindHead(s)
  \/ \E x \in Slots, now \in 0 .. MaxClock : Dispatch(x, now)
  \/ \E x \in Slots, o \in Answers : DelegateAnswers(x, o)
  \/ \E x \in Slots : DelegateUnknown(x)
  \/ \E r \in open, g \in Generations, d \in Directions, now \in 0 .. MaxClock :
       Reconcile(r.id, g, d, now)

Spec == Init /\ [][Next]_vars

(***************************************************************************)
(* Properties.                                                             *)
(***************************************************************************)
SlotType == [phase : {"none", "idle", "delegate"}, seq : Nat, epoch : Epochs,
             generation : Generations, id : CallIds \cup {<<>>}, effect : Nat,
             now : 0 .. MaxClock]
EffectType == [session : Sessions, id : CallIds, directed : BOOLEAN, retired : BOOLEAN,
               outcome : {"in-flight", "lost", "unknown"} \cup Returned]

TypeOK ==
  /\ open \subseteq Rows
  /\ recent \subseteq Snapshots
  /\ binding \in [Sessions -> {Unbound} \cup [branch : Branches, epoch : 1 .. MaxEpoch]]
  /\ heads \subseteq Sessions
  /\ slot \in [Slots -> SlotType]
  /\ \E n \in 0 .. MaxEffects : effects \in [1 .. n -> EffectType]

\* A call whose effect is not settled: still running, never answered, or answered
\* with EffectUnknown, and not closed by inspection or direction.
Unsettled(e) == /\ effects[e].outcome \in {"in-flight", "lost", "unknown"}
                /\ ~effects[e].directed

\* Every unsettled effect keeps its own open row, whatever other executors of the
\* session (superseded ones included) return in the meantime, and each resume that
\* covers its session names it: by session, by the session's branch and, when the
\* session is marked, by HEAD (pending_host.rs: "no effect can outrun its record");
\* and the tables a resume fans out over stay within their bounds.  It is said of
\* calls dispatched by the session's owner of that moment: `begin` refuses no
\* superseded owner, and the row of a call such an owner starts is not protected
\* from a late answer of the owner that superseded it.
UnsettledNamed ==
  /\ \A e \in DOMAIN effects : Unsettled(e) /\ ~effects[e].retired =>
       LET s == effects[e].session IN
       /\ \E r \in open : r.effect = e
       /\ effects[e].id \in ListOpen(s)
       /\ effects[e].id \in UnknownsForBranch(binding[s].branch)
       /\ s \in heads => effects[e].id \in UnknownsForHead
  /\ \A s \in Sessions : Cardinality(Open(s)) <= MaxOpen
  /\ Cardinality(recent) <= MaxRecent /\ Cardinality(heads) <= MaxHeads

\* What the log remembers of a call is what its own executor was told, unless the
\* user directed otherwise: no answer is filed under another call's row.  A call id
\* is in the live table or in the cache, never in both (the insert of a resolve would
\* hit the primary key and the row could never be closed), and never on two rows.
\* (Again said of the calls of owners that were not superseded when they began.)
RecordsTruthful ==
  /\ \A c \in recent : LET e == effects[c.row.effect]
                       IN e.directed \/ e.retired \/ e.outcome = c.disposition
  /\ \A r \in open, c \in recent : r.id # c.row.id
  /\ \A r, q \in open : r.id = q.id => r = q

=============================================================================
