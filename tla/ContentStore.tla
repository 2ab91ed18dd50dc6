---------------------------- MODULE ContentStore ----------------------------
(***************************************************************************)
(* The session plane under one kernel: the content-addressed store         *)
(* (session/content_store.rs), the typed branch verbs and their reflog     *)
(* (session/session_refs.rs), merge and garbage collection                 *)
(* (slice/merge.rs) and the working tree of the kernel above them          *)
(* (slice/wheel_kernel.rs).                                                *)
(*                                                                         *)
(* Every verb is one transaction on the kernel's single connection, so     *)
(* each is one step; what must hold is what any sequence of verbs leaves   *)
(* behind.  A hash is the index of the content it names in `contents`:     *)
(* equal contents have one hash for ever, also after the row is deleted.   *)
(* Hash order, in which collection deletes, is arbitrary.                  *)
(***************************************************************************)
EXTENDS Integers, Sequences, FiniteSets, FiniteSetsExt

CONSTANTS
  Slots,        \* slot names of the context tree
  Payloads,     \* slot and spilled contents
  Branches,     \* names under heads/
  Times,        \* caller-supplied timestamps, an interval 0 .. n
  MaxDeletes,   \* GcOptions::max_deletes_per_call
  MaxPrune,     \* MAX_REFLOG_PRUNE_ROWS
  MaxContents,  \* bound: distinct checkpoints ever written
  MaxMoves      \* bound: reflog rows ever appended

ASSUME StoreAssumption ==
  /\ Times \subseteq Nat /\ Times # {}
  /\ MaxDeletes \in Nat /\ MaxPrune \in Nat
  /\ MaxContents \in Nat /\ MaxMoves \in Nat
  /\ "HEAD" \notin Branches /\ "none" \notin Payloads

VARIABLES
  contents,     \* what each checkpoint hash names, row present or not
  checkpoints,  \* table checkpoints: the hashes with a row
  trees,        \* table blobs: encoded trees
  payloads,     \* table blobs: slot and spilled payloads
  refs,         \* table refs
  reflog,       \* table reflog
  moves,        \* sqlite_sequence of reflog
  pinned,       \* payloads named by the args digests of open pending effects
  tree,         \* kernel: active_tree
  head          \* kernel: head_checkpoint

store == <<contents, checkpoints, trees, payloads>>
kernel == <<tree, head>>
vars == <<contents, checkpoints, trees, payloads, refs, reflog, moves, pinned, tree, head>>

Hashes == 1 .. MaxContents
Absent == 0                      \* no such ref; as new_hash, the tombstone
Empty == "none"
RefNames == {"HEAD"} \cup Branches
Trees == [Slots -> Payloads \cup {Empty}]
EmptyTree == [s \in Slots |-> Empty]
Entries(t) == {t[s] : s \in Slots} \ {Empty}

\* What a checkpoint hash covers; the time stands for the rationale and summary too.
Contents == [parents : {<<>>} \cup [{1} -> Hashes] \cup [{1, 2} -> Hashes],
             tree : Trees, at : Times]
Rows == [seq : 1 .. MaxMoves, ref : Branches, old : Hashes \cup {Absent},
         new : Hashes \cup {Absent}, at : Times]

HasCheckpoint(h) == h \in checkpoints
HasBlob(t) == t \in trees          \* get_blob finds the encoded tree

ParentSet(c) == {c.parents[i] : i \in DOMAIN c.parents}
Parents(h) == ParentSet(contents[h])
TreeOf(h) == contents[h].tree

\* What the walk along the parents reaches over the rows that exist.  A parent
\* exists before its child, so its index is the smaller one.
reached[k \in Hashes] ==
  {k} \cup IF k \in checkpoints THEN UNION {reached[p] : p \in Parents(k)} ELSE {}

Ancestors(h) == reached[h]

(***************************************************************************)
(* Writing a checkpoint: the id is the hash of the content with its        *)
(* parents sorted; an existing row or blob is kept as it is.               *)
(***************************************************************************)
SameDigest(c, d) ==
  /\ Len(c.parents) = Len(d.parents) /\ ParentSet(c) = ParentSet(d)
  /\ c.tree = d.tree /\ c.at = d.at

HashOf(c) ==
  LET known == {i \in DOMAIN contents : SameDigest(contents[i], c)}
  IN  IF known # {} THEN CHOOSE i \in known : TRUE ELSE Len(contents) + 1

WriteCheckpoint(c) ==
  /\ HashOf(c) <= MaxContents
  /\ \A p \in ParentSet(c) : HasCheckpoint(p)
  /\ contents' = IF HashOf(c) \in DOMAIN contents THEN contents ELSE Append(contents, c)
  /\ checkpoints' = checkpoints \cup {HashOf(c)}
  /\ trees' = trees \cup {c.tree}
  /\ UNCHANGED payloads

\* append_reflog_tx, for the moves of one transaction in order.
RowAt(i, ref, old, new, at) ==
  [seq |-> moves + i, ref |-> ref, old |-> old, new |-> new, at |-> at]

Log(rows) ==
  /\ moves + Cardinality(rows) <= MaxMoves
  /\ moves' = moves + Cardinality(rows)
  /\ reflog' = reflog \cup rows

(***************************************************************************)
(* commit_checkpoint of the kernel: on HEAD alone, or with a branch in the *)
(* same transaction.                                                       *)
(***************************************************************************)
Draft(at) ==
  [parents |-> IF head = Absent THEN <<>> ELSE <<head>>, tree |-> tree, at |-> at]

CommitHead(at) ==
  /\ WriteCheckpoint(Draft(at))
  /\ refs' = [refs EXCEPT !["HEAD"] = HashOf(Draft(at))]
  /\ head' = HashOf(Draft(at))
  /\ UNCHANGED <<reflog, moves, pinned, tree>>

CommitBranch(b, at) ==
  /\ WriteCheckpoint(Draft(at))
  /\ refs' = [refs EXCEPT !["HEAD"] = HashOf(Draft(at)), ![b] = HashOf(Draft(at))]
  /\ Log({RowAt(1, b, refs[b], HashOf(Draft(at)), at)})
  /\ head' = HashOf(Draft(at))
  /\ UNCHANGED <<pinned, tree>>

(***************************************************************************)
(* Slots, and blobs stored outside every tree (auto-spilled output).       *)
(***************************************************************************)
PutSlot(s, p) ==
  /\ payloads' = payloads \cup {p}
  /\ tree' = [tree EXCEPT ![s] = p]
  /\ UNCHANGED <<contents, checkpoints, trees, refs, reflog, moves, pinned, head>>

RemoveSlot(s) ==
  /\ tree[s] # Empty
  /\ tree' = [tree EXCEPT ![s] = Empty]
  /\ UNCHANGED <<store, refs, reflog, moves, pinned, head>>

SpillBlob(p) ==
  /\ p \notin payloads
  /\ payloads' = payloads \cup {p}
  /\ UNCHANGED <<contents, checkpoints, trees, refs, reflog, moves, pinned, kernel>>

\* The pending log (PendingEffects) opens and resolves an entry whose args digest
\* may name a payload, stored or not.
OpenPending(p) ==
  /\ p \notin pinned
  /\ pinned' = pinned \cup {p}
  /\ UNCHANGED <<store, refs, reflog, moves, kernel>>

ResolvePending(p) ==
  /\ p \in pinned
  /\ pinned' = pinned \ {p}
  /\ UNCHANGED <<store, refs, reflog, moves, kernel>>

(***************************************************************************)
(* The branch verbs.                                                       *)
(***************************************************************************)
GetRef(name) == refs[name]

CreateBranch(b, h, at) ==
  /\ HasCheckpoint(h) /\ GetRef(b) = Absent
  /\ refs' = [refs EXCEPT ![b] = h]
  /\ Log({RowAt(1, b, Absent, h, at)})
  /\ UNCHANGED <<store, pinned, kernel>>

\* merge_base: the first ancestor of a met by a breadth-first walk from b.
WalkFrom(b) ==
  LET queue[n \in 0 .. MaxContents] ==
        IF n = 0 THEN <<b>>
        ELSE LET q == queue[n - 1]
                 seen == {q[i] : i \in DOMAIN q}
                 Unseen(h) == h \notin seen
             IN  IF n > Len(q) \/ q[n] \notin checkpoints THEN q
                 ELSE q \o SelectSeq(contents[q[n]].parents, Unseen)
  IN  queue[MaxContents]

MergeBase(a, b) ==
  LET walk == WalkFrom(b)
      hits == {i \in DOMAIN walk : walk[i] \in Ancestors(a)}
  IN  IF hits = {} THEN Absent ELSE walk[Min(hits)]

UpdateBranch(b, h, at, ff) ==
  /\ HasCheckpoint(h) /\ GetRef(b) # Absent
  /\ ff => MergeBase(GetRef(b), h) = GetRef(b)
  /\ refs' = [refs EXCEPT ![b] = h]
  /\ Log({RowAt(1, b, refs[b], h, at)})
  /\ UNCHANGED <<store, pinned, kernel>>

DeleteBranch(b, at) ==
  /\ GetRef(b) # Absent
  /\ refs' = [refs EXCEPT ![b] = Absent]
  /\ Log({RowAt(1, b, refs[b], Absent, at)})
  /\ UNCHANGED <<store, pinned, kernel>>

RenameBranch(b, c, at) ==
  /\ b # c /\ GetRef(b) # Absent /\ GetRef(c) = Absent
  /\ refs' = [refs EXCEPT ![b] = Absent, ![c] = refs[b]]
  /\ Log({RowAt(1, b, refs[b], Absent, at), RowAt(2, c, Absent, refs[b], at)})
  /\ UNCHANGED <<store, pinned, kernel>>

(***************************************************************************)
(* prune_reflog: rows of one ref older than a bound, oldest first, never   *)
(* the newest and never a tombstone inside its grace.                      *)
(***************************************************************************)
LogOf(b) == {r \in reflog : r.ref = b}
Newest(b) == CHOOSE r \in LogOf(b) : \A q \in LogOf(b) : q.seq <= r.seq

\* Mutant: no floor row.
PrunableNoFloor(b, older, grace) ==
  {r \in LogOf(b) : r.at < older /\ ~ (r.new = Absent /\ r.at >= grace)}

Prunable(b, older, grace) ==
  LET log == LogOf(b)
  IN  {r \in log : /\ \E q \in log : q.seq > r.seq
                   /\ r.at < older
                   /\ ~ (r.new = Absent /\ r.at >= grace)}

\* max is max_rows after the clamp to MAX_REFLOG_PRUNE_ROWS.
PruneReflog(b, older, grace, max) ==
  LET old == Prunable(b, older, grace)
      victims == {r \in old : Cardinality({q \in old : q.seq < r.seq}) < max}
  IN  /\ victims # {}
      /\ reflog' = reflog \ victims
      /\ UNCHANGED <<store, refs, moves, pinned, kernel>>

(***************************************************************************)
(* working_tree_dirty: the gate of resume, merge and collection.  It fails *)
(* when the checkpoint the kernel stands on, or its tree, is gone.         *)
(***************************************************************************)
HeadLoads == HasCheckpoint(head) /\ HasBlob(TreeOf(head))

\* Mutant: the gate passes whatever the slots hold.
WorkingTreeAny == head = Absent \/ HeadLoads

WorkingTreeClean ==
  \/ head = Absent /\ tree = EmptyTree
  \/ head # Absent /\ HeadLoads /\ tree = TreeOf(head)

Resume(ref) ==
  /\ WorkingTreeClean
  /\ HasCheckpoint(GetRef(ref)) /\ HasBlob(TreeOf(GetRef(ref)))
  /\ tree' = TreeOf(GetRef(ref))
  /\ head' = GetRef(ref)
  /\ UNCHANGED <<store, refs, reflog, moves, pinned>>

(***************************************************************************)
(* merge_commit: strict merge base, three-way merge of the slots, and one  *)
(* two-parent commit, which the working tree then follows.                 *)
(***************************************************************************)
MergeBases(a, b) ==
  LET common == Ancestors(a) \cap Ancestors(b)
  IN  {c \in common : \A d \in common \ {c} : c \notin Ancestors(d)}

\* Mutant: a deletion on their side is not carried over.
Merge3Added(base, ours, theirs) ==
  [s \in Slots |-> IF ours[s] = base[s] /\ theirs[s] # Empty THEN theirs[s] ELSE ours[s]]

Merge3(base, ours, theirs) ==
  [s \in Slots |-> IF ours[s] = base[s] THEN theirs[s] ELSE ours[s]]
Conflicts(base, ours, theirs) ==
  {s \in Slots : ours[s] # base[s] /\ theirs[s] # base[s] /\ ours[s] # theirs[s]}

SyncTo(t) == tree' = t

\* materialize_tree: the row and its tree can be read.
Materialized(h) == HasCheckpoint(h) /\ HasBlob(TreeOf(h))

MergeCommit(theirs, b, at) ==
  /\ head # Absent
  /\ theirs \in checkpoints
  /\ theirs # head => Ancestors(head) \cup Ancestors(theirs) \subseteq checkpoints
  /\ \E bases \in {MergeBases(head, theirs)} : \E base \in bases :
       LET o == TreeOf(head)
           t == TreeOf(theirs)
           c == [parents |-> <<head, theirs>>, tree |-> Merge3(TreeOf(base), o, t), at |-> at]
       IN  /\ bases = {base}
           /\ \A h \in {base, head, theirs} : Materialized(h)
           /\ Conflicts(TreeOf(base), o, t) = {}
           /\ WriteCheckpoint(c)
           /\ refs' = [refs EXCEPT !["HEAD"] = HashOf(c), ![b] = HashOf(c)]
           /\ Log({RowAt(1, b, refs[b], HashOf(c), at)})
           /\ head' = HashOf(c)
           /\ SyncTo(c.tree)
  /\ UNCHANGED pinned

\* The kernel merges into its head, from a clean tree, and follows the result.
KernelMerge(theirs, b, at) == WorkingTreeClean /\ MergeCommit(theirs, b, at)

(***************************************************************************)
(* collect_garbage.                                                        *)
(***************************************************************************)
RefTargets == {refs[r] : r \in RefNames} \ {Absent}

Roots(since) ==
  LET window == {r \in reflog : r.at >= since}
  IN  RefTargets \cup (UNION {{r.old, r.new} : r \in window} \ {Absent})

\* The rows a walk from the roots reaches; a root without a row is skipped.
Live(since) ==
  LET seeds == Roots(since) \cap checkpoints
      closed == {S \in SUBSET checkpoints :
                   seeds \subseteq S /\ \A h \in S : Parents(h) \cap checkpoints \subseteq S}
  IN  {h \in checkpoints : \A S \in closed : h \in S}

\* gc_compute refuses a store whose live part is torn.
Torn(live) ==
  \/ ~ RefTargets \subseteq checkpoints
  \/ \E h \in live : ~ Parents(h) \subseteq live \/ ~ HasBlob(TreeOf(h))

DeadCheckpoints(live) == checkpoints \ live

DeadTrees(live) == trees \ {TreeOf(h) : h \in live}

\* Mutant: open pending effects pin nothing.
DeadPayloadsUnpinned(live) == payloads \ UNION {Entries(TreeOf(h)) : h \in live}

DeadPayloads(live) == payloads \ (pinned \cup UNION {Entries(TreeOf(h)) : h \in live})

\* bound_report: how many checkpoints go, then how many blobs, in one batch.
BoundReport(dead, blobs) ==
  LET budget == Min({MaxDeletes, dead + blobs})
      first == Min({dead, budget})
  IN  [deletedCheckpoints |-> first, deletedBlobs |-> budget - first]

\* delete_checkpoints_and_blobs: one transaction.
DeleteBatch(C, T, P) ==
  /\ checkpoints' = checkpoints \ C
  /\ trees' = trees \ T
  /\ payloads' = payloads \ P

CollectGarbage(since) ==
  /\ \E live \in {Live(since)} :
       LET dead == DeadCheckpoints(live)
           report == BoundReport(Cardinality(dead),
                       Cardinality(DeadTrees(live)) + Cardinality(DeadPayloads(live)))
       IN  /\ ~ Torn(live)
           /\ report # [deletedCheckpoints |-> 0, deletedBlobs |-> 0]
           /\ \E C \in kSubset(report.deletedCheckpoints, dead) :
              \E T \in SUBSET DeadTrees(live), P \in SUBSET DeadPayloads(live) :
                /\ Cardinality(T) + Cardinality(P) = report.deletedBlobs
                /\ DeleteBatch(C, T, P)
  /\ UNCHANGED <<contents, refs, reflog, moves, pinned, kernel>>

\* The kernel collects from a clean tree only: uncommitted slots are no roots.
KernelCollect(since) == WorkingTreeClean /\ CollectGarbage(since)

-----------------------------------------------------------------------------
Init ==
  /\ contents = <<>> /\ checkpoints = {} /\ trees = {} /\ payloads = {}
  /\ refs = [r \in RefNames |-> Absent]
  /\ reflog = {} /\ moves = 0 /\ pinned = {}
  /\ tree = EmptyTree /\ head = Absent

\* A caller's thresholds: any of the timestamps, or one after all of them.
Thresholds == Times \cup {Max(Times) + 1}

Next ==
  \/ \E at \in Times : CommitHead(at)
  \/ \E b \in Branches, at \in Times :
       \/ CommitBranch(b, at)
       \/ \E h \in checkpoints : \/ CreateBranch(b, h, at)
                                 \/ \E ff \in BOOLEAN : UpdateBranch(b, h, at, ff)
                                 \/ KernelMerge(h, b, at)
       \/ DeleteBranch(b, at)
       \/ \E c \in Branches : RenameBranch(b, c, at)
  \/ \E s \in Slots : RemoveSlot(s) \/ \E p \in Payloads : PutSlot(s, p)
  \/ \E p \in Payloads : SpillBlob(p) \/ OpenPending(p) \/ ResolvePending(p)
  \/ \E b \in Branches, older \in Thresholds, grace \in Thresholds, max \in 1 .. MaxPrune :
       PruneReflog(b, older, grace, max)
  \/ \E r \in RefNames : Resume(r)
  \/ \E since \in Thresholds : KernelCollect(since)

Spec == Init /\ [][Next]_vars

-----------------------------------------------------------------------------
(* Each variable has its type. *)
TypeOK ==
  /\ contents \in Seq(Contents) /\ Len(contents) <= MaxContents
  /\ checkpoints \subseteq DOMAIN contents
  /\ trees \subseteq Trees /\ payloads \subseteq Payloads /\ pinned \subseteq Payloads
  /\ refs \in [RefNames -> DOMAIN contents \cup {Absent}]
  /\ reflog \subseteq Rows /\ moves \in 0 .. MaxMoves
  /\ tree \in Trees /\ head \in DOMAIN contents \cup {Absent}

(* When every collection may take all it finds, no sequence of commits,     *)
(* branch moves, prunes and collections tears the store: whatever a ref     *)
(* reaches has its row, its tree and its slot payloads.  The slots of the   *)
(* working tree are readable as long as the checkpoint it stands on is.     *)
StoreIntact ==
  /\ RefTargets \subseteq checkpoints
  /\ \A h \in checkpoints : /\ Parents(h) \subseteq checkpoints
                            /\ TreeOf(h) \in trees
                            /\ Entries(TreeOf(h)) \subseteq payloads
  /\ (head = Absent \/ HeadLoads) => Entries(tree) \subseteq payloads

(* No step loses what is in use: a stored payload that the args digest of   *)
(* an open pending effect names stays while the effect is open (AI-0199),   *)
(* and whatever moves the head of the kernel (a commit, a resume, a merge)  *)
(* leaves the working tree equal to the tree of the new head, so the next   *)
(* commit on top of it undoes nothing that a merge or resume brought in.    *)
InUseKept ==
  [][/\ pinned \cap pinned' \cap payloads \subseteq payloads'
     /\ head' # head => tree' = contents'[head'].tree]_vars

(* The reflog explains every branch: the newest row of a branch names its   *)
(* tip, or is the tombstone of an absent one, however much was pruned.      *)
ReflogExplains ==
  \A b \in Branches : refs[b] = IF LogOf(b) = {} THEN Absent ELSE Newest(b).new

(* No merge loses an edit: in a merge of two lineages with one merge base,  *)
(* a slot that one side changed has that side's value, and one that neither *)
(* side changed has the value of the base.                                  *)
lineage[k \in DOMAIN contents] == {k} \cup UNION {lineage[p] : p \in Parents(k)}

KeepsEdits(base, ours, theirs, merged) ==
  \A s \in Slots :
    /\ \A side \in {ours, theirs} : side[s] # base[s] => merged[s] = side[s]
    /\ merged[s] # base[s] => ours[s] # base[s] \/ theirs[s] # base[s]

MergeKeepsEdits ==
  \A c \in DOMAIN contents : Len(contents[c].parents) = 2 =>
    LET ours == contents[c].parents[1]
        theirs == contents[c].parents[2]
        common == lineage[ours] \cap lineage[theirs]
    IN  \E base \in common :
          /\ common \subseteq lineage[base]
          /\ KeepsEdits(TreeOf(base), TreeOf(ours), TreeOf(theirs), TreeOf(c))

(* content_store.rs, merge_base: "Find the lowest common ancestor (LCA /     *)
(* `merge_base`) of two checkpoints in the DAG", and session_refs.rs,       *)
(* update_branch: a fast-forward is refused "unless the current tip is an   *)
(* ancestor of the target".  So of a tip and one of its descendants it must *)
(* be the tip.                                                              *)
FastForwardComplete ==
  \A a, b \in checkpoints : a \in Ancestors(b) => MergeBase(a, b) = a
=============================================================================
