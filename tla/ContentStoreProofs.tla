------------------------- MODULE ContentStoreProofs -------------------------
(***************************************************************************)
(* What the refs plane and the collector promise for every set of slots,   *)
(* payloads and branches and every sequence of verbs: the reflog explains  *)
(* every branch, no step loses what is in use, no merge loses an edit and, *)
(* when a collection may take all the checkpoints it finds, the store is   *)
(* never torn.                                                             *)
(***************************************************************************)
EXTENDS ContentStore, FiniteSetTheorems, SequenceTheorems, NaturalsInduction, WellFoundedInduction, TLAPS

(***************************************************************************)
(* Writing a checkpoint.                                                   *)
(***************************************************************************)

\* A hash is an index into the contents, and no hash is Absent.
LEMMA HashesNumbered ==
  ASSUME TypeOK
  PROVE  /\ Len(contents) \in Nat /\ DOMAIN contents = 1 .. Len(contents)
         /\ DOMAIN contents \subseteq Hashes /\ Absent \notin Hashes
BY StoreAssumption DEF TypeOK, Hashes, Absent

LEMMA RowTyped ==
  ASSUME TypeOK, NEW h \in DOMAIN contents
  PROVE  contents[h] \in Contents /\ TreeOf(h) \in Trees
<1>1. contents[h] \in Contents
  BY DEF TypeOK
<1>2. \A c \in Contents : c.tree \in Trees
  BY DEF Contents
<1> QED
  BY <1>1, <1>2 DEF TreeOf

\* What a write of c leaves: h names contents with c's digest, and every other
\* hash names what it named.
Names(h, c) ==
  /\ h \in DOMAIN contents' /\ h \in Nat \ {0}
  /\ contents' \in Seq(Contents) /\ Len(contents') <= MaxContents
  /\ DOMAIN contents \subseteq DOMAIN contents'
  /\ \A i \in DOMAIN contents : contents'[i] = contents[i]
  /\ contents'[h].tree = c.tree /\ ParentSet(contents'[h]) = ParentSet(c)
  /\ ParentSet(c) \subseteq checkpoints
  /\ checkpoints' = checkpoints \cup {h}
  /\ trees' = trees \cup {c.tree} /\ payloads' = payloads

\* commit_checkpoint_tx: the row under the content's hash, an existing one kept.
LEMMA WriteNames ==
  ASSUME TypeOK, NEW c \in Contents, WriteCheckpoint(c)
  PROVE  Names(HashOf(c), c)
<1> DEFINE known == {i \in DOMAIN contents : SameDigest(contents[i], c)}
<1>1. contents \in Seq(Contents) /\ Len(contents) <= MaxContents /\ Len(contents) \in Nat
      /\ DOMAIN contents = 1 .. Len(contents)
  BY DEF TypeOK
<1>2. /\ checkpoints' = checkpoints \cup {HashOf(c)} /\ trees' = trees \cup {c.tree}
      /\ payloads' = payloads /\ ParentSet(c) \subseteq checkpoints
      /\ HashOf(c) <= MaxContents
  BY DEF WriteCheckpoint, HasCheckpoint
<1>3. CASE known # {}
  <2>a. HashOf(c) = CHOOSE i \in known : TRUE
    BY <1>3 DEF HashOf
  <2> HIDE DEF known
  <2>b. (CHOOSE i \in known : TRUE) \in known
    BY <1>3
  <2> USE DEF known
  <2>1. HashOf(c) \in known
    BY <2>a, <2>b
  <2>2. contents' = contents
    BY <2>1 DEF WriteCheckpoint
  <2> QED
    BY <1>1, <1>2, <2>1, <2>2 DEF Names, SameDigest
<1>4. CASE known = {}
  <2>1. HashOf(c) = Len(contents) + 1
    BY <1>4 DEF HashOf
  <2>a. HashOf(c) \notin DOMAIN contents
    BY <1>1, <2>1
  <2>2. contents' = Append(contents, c)
    BY <2>a DEF WriteCheckpoint
  <2>3. /\ contents' \in Seq(Contents) /\ Len(contents') = Len(contents) + 1
        /\ \A i \in DOMAIN contents : contents'[i] = contents[i]
        /\ contents'[HashOf(c)] = c
    BY <1>1, <2>1, <2>2
  <2> QED
    BY <1>1, <1>2, <2>1, <2>3 DEF Names
<1> QED
  BY <1>3, <1>4

(***************************************************************************)
(* Types.  The blob tables are finite: every step adds at most one blob.   *)
(***************************************************************************)
TablesFinite == IsFiniteSet(trees) /\ IsFiniteSet(payloads)

LEMMA DraftTyped ==
  ASSUME TypeOK, NEW at \in Times
  PROVE  /\ Draft(at) \in Contents /\ Draft(at).tree = tree
         /\ ParentSet(Draft(at)) = IF head = Absent THEN {} ELSE {head}
<1> DEFINE ps == IF head = Absent THEN <<>> ELSE <<head>>
<1>1. head # Absent => head \in Hashes
  BY HashesNumbered DEF TypeOK
<1>2. ps \in {<<>>} \cup [{1} -> Hashes] \cup [{1, 2} -> Hashes]
  <2>1. CASE head = Absent
    BY <2>1
  <2>2. CASE head # Absent
    <3>1. <<head>> = [i \in {1} |-> head]
      OBVIOUS
    <3> QED
      BY <1>1, <2>2, <3>1
  <2> QED
    BY <2>1, <2>2
<1>3. {ps[i] : i \in DOMAIN ps} = IF head = Absent THEN {} ELSE {head}
  OBVIOUS
<1>4. Draft(at) = [parents |-> ps, tree |-> tree, at |-> at]
  BY DEF Draft
<1>5. tree \in Trees
  BY DEF TypeOK
<1> HIDE DEF ps
<1>6. Draft(at) \in Contents
  BY <1>2, <1>4, <1>5 DEF Contents
<1>7. Draft(at).tree = tree /\ Draft(at).parents = ps
  BY <1>4
<1> QED
  BY <1>3, <1>6, <1>7 DEF ParentSet

\* A write and whatever else keeps the types of the other variables.
LEMMA WriteTyped ==
  ASSUME TypeOK, TablesFinite, NEW c \in Contents, WriteCheckpoint(c),
         refs' \in [RefNames -> DOMAIN contents' \cup {Absent}],
         reflog' \subseteq Rows, moves' \in 0 .. MaxMoves, pinned' = pinned,
         tree' \in Trees, head' = HashOf(c)
  PROVE  TypeOK' /\ TablesFinite'
<1>1. Names(HashOf(c), c)
  BY WriteNames
<1>2. c.tree \in Trees
  BY DEF Contents
<1>3. TypeOK'
  BY <1>1, <1>2 DEF Names, TypeOK
<1>4. TablesFinite'
  BY <1>1, FS_AddElement DEF Names, TablesFinite
<1> QED
  BY <1>3, <1>4

\* One row of a move: numbered next, of the branch's type.
LoggedOne(b, o, n, at) ==
  /\ moves' = moves + 1 /\ moves' \in 0 .. MaxMoves
  /\ RowAt(1, b, o, n, at) \in Rows
  /\ reflog' = reflog \cup {RowAt(1, b, o, n, at)} /\ reflog' \subseteq Rows

\* The two rows of a rename.
LoggedTwo(b, c, h, at) ==
  /\ moves' = moves + 2 /\ moves' \in 0 .. MaxMoves
  /\ RowAt(1, b, h, Absent, at) \in Rows /\ RowAt(2, c, Absent, h, at) \in Rows
  /\ reflog' = reflog \cup {RowAt(1, b, h, Absent, at), RowAt(2, c, Absent, h, at)}
  /\ reflog' \subseteq Rows

LEMMA LogOne ==
  ASSUME TypeOK, NEW b \in Branches, NEW o \in Hashes \cup {Absent},
         NEW n \in Hashes \cup {Absent}, NEW at \in Times, Log({RowAt(1, b, o, n, at)})
  PROVE  LoggedOne(b, o, n, at)
<1>1. Cardinality({RowAt(1, b, o, n, at)}) = 1
  BY FS_Singleton
<1>2. moves' = moves + 1 /\ moves + 1 <= MaxMoves /\ reflog' = reflog \cup {RowAt(1, b, o, n, at)}
  BY <1>1 DEF Log
<1>3. RowAt(1, b, o, n, at) \in Rows
  BY <1>2, StoreAssumption DEF TypeOK, RowAt, Rows
<1> QED
  BY <1>2, <1>3, StoreAssumption DEF TypeOK, LoggedOne

LEMMA LogTwo ==
  ASSUME TypeOK, NEW b \in Branches, NEW c \in Branches,
         NEW h \in Hashes \cup {Absent}, NEW at \in Times,
         Log({RowAt(1, b, h, Absent, at), RowAt(2, c, Absent, h, at)})
  PROVE  LoggedTwo(b, c, h, at)
<1> DEFINE r == RowAt(1, b, h, Absent, at)
           q == RowAt(2, c, Absent, h, at)
<1>1. r.seq # q.seq
  BY DEF RowAt, TypeOK
<1>2. IsFiniteSet({r}) /\ Cardinality({r}) = 1
  BY FS_Singleton
<1>a. q \notin {r}
  BY <1>1
<1> HIDE DEF r, q
<1>b. Cardinality({r} \cup {q}) = Cardinality({r}) + 1
  BY <1>a, <1>2, FS_AddElement, Zenon
<1>3. Cardinality({r} \cup {q}) = 2
  BY <1>b, <1>2
<1>4. {r} \cup {q} = {r, q}
  OBVIOUS
<1>5. Cardinality({r, q}) = 2
  BY <1>3, <1>4
<1>6. moves' = moves + 2 /\ moves + 2 <= MaxMoves /\ reflog' = reflog \cup {r, q}
  BY <1>5 DEF Log, r, q
<1> USE DEF r, q
<1>7. r \in Rows /\ q \in Rows
  BY <1>6, StoreAssumption DEF TypeOK, RowAt, Rows
<1> QED
  BY <1>6, <1>7, StoreAssumption DEF TypeOK, LoggedTwo

\* What a commit of c on HEAD and the branch b does.
Committed(c, b, at) ==
  /\ WriteCheckpoint(c)
  /\ refs' = [refs EXCEPT !["HEAD"] = HashOf(c), ![b] = HashOf(c)]
  /\ Log({RowAt(1, b, refs[b], HashOf(c), at)})
  /\ head' = HashOf(c) /\ tree' = c.tree /\ pinned' = pinned

\* A merge is a commit whose tree takes every slot from one of three checkpoints
\* the store holds.
LEMMA MergeCommits ==
  ASSUME TypeOK, NEW theirs \in checkpoints, NEW b \in Branches, NEW at \in Times,
         KernelMerge(theirs, b, at)
  PROVE  \E c \in Contents, base \in checkpoints :
           /\ Committed(c, b, at) /\ head \in checkpoints
           /\ c.tree = Merge3(TreeOf(base), TreeOf(head), TreeOf(theirs))
<1>1. PICK base \in MergeBases(head, theirs) :
        LET c == [parents |-> <<head, theirs>>,
                  tree |-> Merge3(TreeOf(base), TreeOf(head), TreeOf(theirs)), at |-> at]
        IN  /\ \A h \in {base, head, theirs} : Materialized(h)
            /\ WriteCheckpoint(c)
            /\ refs' = [refs EXCEPT !["HEAD"] = HashOf(c), ![b] = HashOf(c)]
            /\ Log({RowAt(1, b, refs[b], HashOf(c), at)})
            /\ head' = HashOf(c) /\ tree' = c.tree
  BY Zenon DEF KernelMerge, MergeCommit, SyncTo
<1>2. pinned' = pinned
  BY DEF KernelMerge, MergeCommit
<1> DEFINE m == Merge3(TreeOf(base), TreeOf(head), TreeOf(theirs))
           c == [parents |-> <<head, theirs>>, tree |-> m, at |-> at]
<1>3. base \in checkpoints /\ head \in checkpoints
  BY <1>1 DEF Materialized, HasCheckpoint
<1>4. \A h \in checkpoints : h \in Hashes /\ TreeOf(h) \in Trees
  BY HashesNumbered, RowTyped DEF TypeOK
<1>5. m \in Trees
  BY <1>3, <1>4 DEF Merge3, Trees
<1>6. <<head, theirs>> \in [{1, 2} -> Hashes]
  <2>1. <<head, theirs>> = [i \in {1, 2} |-> IF i = 1 THEN head ELSE theirs]
    OBVIOUS
  <2> QED
    BY <2>1, <1>3, <1>4
<1>7. Committed(c, b, at)
  BY <1>1, <1>2 DEF Committed
<1>8. c.tree = m
  OBVIOUS
<1>9. c \in Contents
  <2> HIDE DEF m
  <2> QED
    BY <1>5, <1>6 DEF Contents
<1> HIDE DEF c
<1> QED
  BY <1>3, <1>7, <1>8, <1>9

LEMMA CommitTyped ==
  ASSUME TypeOK, TablesFinite, NEW c \in Contents, NEW b \in Branches, NEW at \in Times,
         Committed(c, b, at)
  PROVE  TypeOK' /\ TablesFinite'
<1>1. Names(HashOf(c), c)
  BY WriteNames DEF Committed
<1>2. HashOf(c) \in Hashes
  BY <1>1 DEF Names, Committed, WriteCheckpoint, Hashes
<1>3. refs[b] \in Hashes \cup {Absent}
  BY HashesNumbered DEF TypeOK, RefNames
<1>4. moves' \in 0 .. MaxMoves /\ reflog' \subseteq Rows
  BY <1>2, <1>3, LogOne DEF Committed, LoggedOne
<1>5. refs' \in [RefNames -> DOMAIN contents' \cup {Absent}]
  BY <1>1 DEF Names, Committed, TypeOK, RefNames
<1>6. tree' \in Trees
  BY DEF Committed, Contents
<1> QED
  BY <1>4, <1>5, <1>6, WriteTyped DEF Committed

LEMMA BranchCommits ==
  ASSUME TypeOK, NEW b \in Branches, NEW at \in Times, CommitBranch(b, at)
  PROVE  Committed(Draft(at), b, at)
BY DraftTyped DEF CommitBranch, Committed

LEMMA CommitHeadTyped ==
  ASSUME TypeOK, TablesFinite, NEW at \in Times, CommitHead(at)
  PROVE  TypeOK' /\ TablesFinite'
<1>1. Draft(at) \in Contents
  BY DraftTyped
<1>2. Names(HashOf(Draft(at)), Draft(at))
  BY <1>1, WriteNames DEF CommitHead
<1>3. refs' \in [RefNames -> DOMAIN contents' \cup {Absent}]
  BY <1>2 DEF Names, CommitHead, TypeOK, RefNames
<1> QED
  BY <1>1, <1>3, WriteTyped DEF CommitHead, TypeOK

\* A move of refs alone: what every branch verb but a commit changes.
LEMMA MoveTyped ==
  ASSUME TypeOK, TablesFinite, UNCHANGED <<store, pinned, kernel>>,
         refs' \in [RefNames -> DOMAIN contents \cup {Absent}],
         reflog' \subseteq Rows, moves' \in 0 .. MaxMoves
  PROVE  TypeOK' /\ TablesFinite'
BY DEF TypeOK, TablesFinite, store, kernel

LEMMA TypeStep ==
  ASSUME TypeOK, TablesFinite, [Next]_vars
  PROVE  TypeOK' /\ TablesFinite'
<1>0. \A r \in RefNames : refs[r] \in DOMAIN contents \cup {Absent}
                          /\ refs[r] \in Hashes \cup {Absent}
  BY HashesNumbered DEF TypeOK
<1>a. \A h \in checkpoints : h \in DOMAIN contents /\ h \in Hashes /\ TreeOf(h) \in Trees
  BY HashesNumbered, RowTyped DEF TypeOK
<1>1. ASSUME NEW at \in Times, CommitHead(at) PROVE TypeOK' /\ TablesFinite'
  BY <1>1, CommitHeadTyped
<1>2. ASSUME NEW b \in Branches, NEW at \in Times, CommitBranch(b, at)
      PROVE  TypeOK' /\ TablesFinite'
  BY <1>2, BranchCommits, DraftTyped, CommitTyped
<1>3. ASSUME NEW b \in Branches, NEW at \in Times, NEW h \in checkpoints, CreateBranch(b, h, at)
      PROVE  TypeOK' /\ TablesFinite'
  <2>1. moves' \in 0 .. MaxMoves /\ reflog' \subseteq Rows
    BY <1>3, <1>a, LogOne DEF CreateBranch, LoggedOne
  <2>2. refs' \in [RefNames -> DOMAIN contents \cup {Absent}]
    BY <1>3, <1>a DEF CreateBranch, TypeOK, RefNames
  <2> QED
    BY <1>3, <2>1, <2>2, MoveTyped DEF CreateBranch
<1>4. ASSUME NEW b \in Branches, NEW at \in Times, NEW h \in checkpoints, NEW ff \in BOOLEAN,
             UpdateBranch(b, h, at, ff)
      PROVE  TypeOK' /\ TablesFinite'
  <2>0. refs[b] \in Hashes \cup {Absent} /\ h \in Hashes \cup {Absent}
        /\ Log({RowAt(1, b, refs[b], h, at)}) /\ reflog \subseteq Rows
    BY <1>4, <1>a, <1>0 DEF UpdateBranch, RefNames, TypeOK
  <2>1. moves' \in 0 .. MaxMoves /\ reflog' \subseteq Rows
    BY <2>0, LogOne DEF LoggedOne
  <2>2. refs' \in [RefNames -> DOMAIN contents \cup {Absent}]
    BY <1>4, <1>a DEF UpdateBranch, TypeOK, RefNames
  <2> QED
    BY <1>4, <2>1, <2>2, MoveTyped DEF UpdateBranch
<1>5. ASSUME NEW b \in Branches, NEW at \in Times, NEW h \in checkpoints, KernelMerge(h, b, at)
      PROVE  TypeOK' /\ TablesFinite'
  BY <1>5, MergeCommits, CommitTyped
<1>6. ASSUME NEW b \in Branches, NEW at \in Times, DeleteBranch(b, at)
      PROVE  TypeOK' /\ TablesFinite'
  <2>0. refs[b] \in Hashes \cup {Absent} /\ Absent \in Hashes \cup {Absent}
        /\ Log({RowAt(1, b, refs[b], Absent, at)}) /\ reflog \subseteq Rows
    BY <1>6, <1>0 DEF DeleteBranch, RefNames, TypeOK
  <2>1. moves' \in 0 .. MaxMoves /\ reflog' \subseteq Rows
    BY <2>0, LogOne DEF LoggedOne
  <2>2. refs' \in [RefNames -> DOMAIN contents \cup {Absent}]
    BY <1>6 DEF DeleteBranch, TypeOK, RefNames
  <2> QED
    BY <1>6, <2>1, <2>2, MoveTyped DEF DeleteBranch
<1>7. ASSUME NEW b \in Branches, NEW c \in Branches, NEW at \in Times, RenameBranch(b, c, at)
      PROVE  TypeOK' /\ TablesFinite'
  <2>0. refs[b] \in Hashes \cup {Absent} /\ refs[b] \in DOMAIN contents \cup {Absent}
    BY <1>0 DEF RefNames
  <2>a. Log({RowAt(1, b, refs[b], Absent, at), RowAt(2, c, Absent, refs[b], at)})
        /\ reflog \subseteq Rows
    BY <1>7 DEF RenameBranch, TypeOK
  <2>1. moves' \in 0 .. MaxMoves /\ reflog' \subseteq Rows
    BY <2>0, <2>a, LogTwo DEF LoggedTwo
  <2>2. refs' \in [RefNames -> DOMAIN contents \cup {Absent}]
    BY <1>7, <2>0 DEF RenameBranch, TypeOK, RefNames
  <2> QED
    BY <1>7, <2>1, <2>2, MoveTyped DEF RenameBranch
<1>8. ASSUME NEW s \in Slots, RemoveSlot(s) PROVE TypeOK' /\ TablesFinite'
  BY <1>8 DEF RemoveSlot, TypeOK, TablesFinite, Trees, store
<1>9. ASSUME NEW s \in Slots, NEW p \in Payloads, PutSlot(s, p) PROVE TypeOK' /\ TablesFinite'
  <2>1. TypeOK'
    BY <1>9 DEF PutSlot, TypeOK, Trees
  <2> QED
    BY <1>9, <2>1, FS_AddElement DEF PutSlot, TablesFinite
<1>10. ASSUME NEW p \in Payloads, SpillBlob(p) \/ OpenPending(p) \/ ResolvePending(p)
       PROVE  TypeOK' /\ TablesFinite'
  <2>1. TypeOK'
    BY <1>10 DEF SpillBlob, OpenPending, ResolvePending, TypeOK, store, kernel
  <2> QED
    BY <1>10, <2>1, FS_AddElement
    DEF SpillBlob, OpenPending, ResolvePending, TablesFinite, store
<1>11. ASSUME NEW b \in Branches, NEW older, NEW grace, NEW max, PruneReflog(b, older, grace, max)
       PROVE  TypeOK' /\ TablesFinite'
  BY <1>11 DEF PruneReflog, TypeOK, TablesFinite, store, kernel
<1>12. ASSUME NEW r \in RefNames, Resume(r) PROVE TypeOK' /\ TablesFinite'
  BY <1>12, <1>a, <1>0 DEF Resume, TypeOK, TablesFinite, store, GetRef, HasCheckpoint
<1>13. ASSUME NEW since, KernelCollect(since) PROVE TypeOK' /\ TablesFinite'
  <2>1. /\ checkpoints' \subseteq checkpoints /\ trees' \subseteq trees
        /\ payloads' \subseteq payloads
        /\ UNCHANGED <<contents, refs, reflog, moves, pinned, kernel>>
    BY <1>13, Zenon DEF KernelCollect, CollectGarbage, DeleteBatch
  <2>2. TypeOK'
    BY <2>1 DEF TypeOK, kernel
  <2> QED
    BY <2>1, <2>2, FS_Subset DEF TablesFinite
<1>14. CASE UNCHANGED vars
  BY <1>14 DEF vars, TypeOK, TablesFinite
<1> QED
  BY <1>1, <1>2, <1>3, <1>4, <1>5, <1>6, <1>7, <1>8, <1>9, <1>10, <1>11, <1>12, <1>13, <1>14, Zenon
  DEF Next

(***************************************************************************)
(* The reflog.  ReflogExplains is not inductive: a prune may only leave it *)
(* true if the newest row exists and is unlike every other.  So the rows   *)
(* are numbered without repetition up to `moves`, and a branch is absent   *)
(* and without rows, or the latest of its rows names its tip.              *)
(***************************************************************************)
Numbered ==
  /\ \A r \in reflog : r.seq <= moves
  /\ \A r, q \in reflog : r.seq = q.seq => r = q

Tipped(b) ==
  \/ LogOf(b) = {} /\ refs[b] = Absent
  \/ \E r \in LogOf(b) : r.new = refs[b] /\ \A q \in LogOf(b) : q.seq <= r.seq

LogInv == TypeOK /\ TablesFinite /\ Numbered /\ \A b \in Branches : Tipped(b)

\* The newest row is the one Newest chooses.
LEMMA TipIsNewest ==
  ASSUME LogInv
  PROVE  ReflogExplains
<1> SUFFICES ASSUME NEW b \in Branches
             PROVE  refs[b] = IF LogOf(b) = {} THEN Absent ELSE Newest(b).new
  BY DEF ReflogExplains
<1>1. CASE LogOf(b) = {}
  BY <1>1 DEF LogInv, Tipped
<1>2. CASE LogOf(b) # {}
  <2>1. PICK r \in LogOf(b) : r.new = refs[b] /\ \A q \in LogOf(b) : q.seq <= r.seq
    BY <1>2 DEF LogInv, Tipped
  <2>2. Newest(b) \in LogOf(b) /\ \A q \in LogOf(b) : q.seq <= Newest(b).seq
    BY <2>1 DEF Newest
  <2>3. Newest(b).seq <= r.seq /\ r.seq <= Newest(b).seq
    BY <2>1, <2>2
  <2>4. r \in reflog /\ Newest(b) \in reflog
    BY <2>2 DEF LogOf
  <2>5. r.seq \in Int /\ Newest(b).seq \in Int
    BY <2>4 DEF LogInv, TypeOK, Rows
  <2>6. r = Newest(b)
    BY <2>3, <2>4, <2>5 DEF LogInv, Numbered
  <2> QED
    BY <1>2, <2>1, <2>6
<1> QED
  BY <1>1, <1>2

\* A move of one branch, logged by one row.
LEMMA MoveLogged ==
  ASSUME LogInv, NEW b \in Branches, NEW o, NEW n, NEW at, LoggedOne(b, o, n, at),
         refs'[b] = n, \A c \in Branches : c # b => refs'[c] = refs[c]
  PROVE  Numbered' /\ \A c \in Branches : Tipped(c)'
<1> DEFINE row == RowAt(1, b, o, n, at)
<1>1. row.seq = moves + 1 /\ row.ref = b /\ row.new = n
  BY DEF RowAt
<1>2. reflog' = reflog \cup {row} /\ moves' = moves + 1 /\ moves \in Nat
  BY DEF LoggedOne, LogInv, TypeOK
<1>3. \A r \in reflog : r.seq <= moves /\ r.seq \in Nat
  BY DEF LogInv, Numbered, TypeOK, Rows
<1>4. \A r, q \in reflog : r.seq = q.seq => r = q
  BY DEF LogInv, Numbered
<1>5. \A c \in Branches : Tipped(c)
  BY DEF LogInv
<1> HIDE DEF row
<1>6. \A r \in reflog : r.seq < row.seq
  BY <1>1, <1>2, <1>3
<1>7. Numbered'
  <2>1. \A r \in reflog' : r.seq <= moves'
    BY <1>1, <1>2, <1>3
  <2>2. \A r, q \in reflog' : r.seq = q.seq => r = q
    <3> SUFFICES ASSUME NEW r \in reflog', NEW q \in reflog', r.seq = q.seq PROVE r = q
      OBVIOUS
    <3>1. CASE r \in reflog /\ q \in reflog
      BY <3>1, <1>4
    <3>2. CASE r = row /\ q \in reflog
      BY <3>2, <1>1, <1>2, <1>3
    <3>3. CASE r \in reflog /\ q = row
      BY <3>3, <1>1, <1>2, <1>3
    <3> QED
      BY <3>1, <3>2, <3>3, <1>2
  <2> QED
    BY <2>1, <2>2 DEF Numbered
<1>8. ASSUME NEW c \in Branches PROVE Tipped(c)'
  <2>1. CASE c = b
    <3>1. row \in LogOf(b)' /\ row.new = refs'[b]
      BY <1>1, <1>2 DEF LogOf
    <3>2. \A q \in LogOf(b)' : q.seq <= row.seq
      BY <1>1, <1>2, <1>3 DEF LogOf
    <3> QED
      BY <2>1, <3>1, <3>2 DEF Tipped
  <2>2. CASE c # b
    <3>1. LogOf(c)' = LogOf(c)
      BY <2>2, <1>1, <1>2 DEF LogOf
    <3> QED
      BY <2>2, <3>1, <1>5 DEF Tipped
  <2> QED
    BY <2>1, <2>2
<1> QED
  BY <1>7, <1>8

\* A rename, logged by two rows: the tombstone and the new name's first row.
LEMMA RenameLogged ==
  ASSUME LogInv, NEW b \in Branches, NEW c \in Branches, b # c, NEW h, NEW at,
         LoggedTwo(b, c, h, at), refs'[b] = Absent, refs'[c] = h,
         \A d \in Branches : d # b /\ d # c => refs'[d] = refs[d]
  PROVE  Numbered' /\ \A d \in Branches : Tipped(d)'
<1> DEFINE row == RowAt(1, b, h, Absent, at)
           rew == RowAt(2, c, Absent, h, at)
<1>1. /\ row.seq = moves + 1 /\ row.ref = b /\ row.new = Absent
      /\ rew.seq = moves + 2 /\ rew.ref = c /\ rew.new = h
  BY DEF RowAt
<1>2. reflog' = reflog \cup {row, rew} /\ moves' = moves + 2 /\ moves \in Nat
  BY DEF LoggedTwo, LogInv, TypeOK
<1>3. \A r \in reflog : r.seq <= moves /\ r.seq \in Nat
  BY DEF LogInv, Numbered, TypeOK, Rows
<1>4. \A r, q \in reflog : r.seq = q.seq => r = q
  BY DEF LogInv, Numbered
<1>5. \A d \in Branches : Tipped(d)
  BY DEF LogInv
<1> HIDE DEF row, rew
<1>7. Numbered'
  <2>1. \A r \in reflog' : r.seq <= moves'
    BY <1>1, <1>2, <1>3
  <2>2. \A r, q \in reflog' : r.seq = q.seq => r = q
    <3> SUFFICES ASSUME NEW r \in reflog', NEW q \in reflog', r.seq = q.seq PROVE r = q
      OBVIOUS
    <3>1. CASE r \in reflog /\ q \in reflog
      BY <3>1, <1>4
    <3>2. CASE r \in {row, rew} /\ q \in reflog
      BY <3>2, <1>1, <1>2, <1>3
    <3>3. CASE r \in reflog /\ q \in {row, rew}
      BY <3>3, <1>1, <1>2, <1>3
    <3>4. CASE r \in {row, rew} /\ q \in {row, rew}
      BY <3>4, <1>1, <1>2
    <3> QED
      BY <3>1, <3>2, <3>3, <3>4, <1>2
  <2> QED
    BY <2>1, <2>2 DEF Numbered
<1>8. ASSUME NEW d \in Branches PROVE Tipped(d)'
  <2>1. CASE d = b
    <3>1. row \in LogOf(b)' /\ row.new = refs'[b]
      BY <1>1, <1>2 DEF LogOf
    <3>2. \A q \in LogOf(b)' : q.seq <= row.seq
      BY <1>1, <1>2, <1>3 DEF LogOf
    <3> QED
      BY <2>1, <3>1, <3>2 DEF Tipped
  <2>2. CASE d = c
    <3>1. rew \in LogOf(c)' /\ rew.new = refs'[c]
      BY <1>1, <1>2 DEF LogOf
    <3>2. \A q \in LogOf(c)' : q.seq <= rew.seq
      BY <1>1, <1>2, <1>3 DEF LogOf
    <3> QED
      BY <2>2, <3>1, <3>2 DEF Tipped
  <2>3. CASE d # b /\ d # c
    <3>1. LogOf(d)' = LogOf(d)
      BY <2>3, <1>1, <1>2 DEF LogOf
    <3> QED
      BY <2>3, <3>1, <1>5 DEF Tipped
  <2> QED
    BY <2>1, <2>2, <2>3
<1> QED
  BY <1>7, <1>8

\* A prune takes rows that a later row of the same branch outlives.
LEMMA PruneLogged ==
  ASSUME LogInv, NEW b \in Branches, NEW older, NEW grace, NEW max,
         PruneReflog(b, older, grace, max)
  PROVE  Numbered' /\ \A c \in Branches : Tipped(c)'
<1>1. PICK victims \in SUBSET Prunable(b, older, grace) : reflog' = reflog \ victims
  BY DEF PruneReflog
<1>2. moves' = moves /\ refs' = refs
  BY DEF PruneReflog
<1>3. Numbered'
  BY <1>1, <1>2 DEF Numbered, LogInv
<1>4. ASSUME NEW c \in Branches PROVE Tipped(c)'
  <2>1. LogOf(c)' = LogOf(c) \ victims
    BY <1>1 DEF LogOf
  <2>2. CASE LogOf(c) = {} /\ refs[c] = Absent
    BY <2>1, <2>2, <1>2 DEF Tipped
  <2>3. ASSUME NEW r \in LogOf(c), r.new = refs[c], \A q \in LogOf(c) : q.seq <= r.seq
        PROVE  Tipped(c)'
    <3>1. \A q \in LogOf(c) : q.seq \in Int
      BY DEF LogOf, LogInv, TypeOK, Rows
    <3>2. r \notin victims
      <4> SUFFICES ASSUME r \in victims PROVE FALSE
        OBVIOUS
      <4>1. r \in LogOf(b) /\ \E q \in LogOf(b) : q.seq > r.seq
        BY <1>1 DEF Prunable
      <4>2. c = b
        BY <4>1 DEF LogOf
      <4> QED
        BY <4>1, <4>2, <3>1, <2>3
    <3> QED
      BY <2>1, <2>3, <3>2, <1>2 DEF Tipped
  <2> QED
    BY <2>2, <2>3 DEF LogInv, Tipped
<1> QED
  BY <1>3, <1>4

LEMMA LogStep ==
  ASSUME LogInv, [Next]_vars
  PROVE  LogInv'
<1> DEFINE Goal == Numbered' /\ \A c \in Branches : Tipped(c)'
<1>0. TypeOK /\ TablesFinite /\ TypeOK' /\ TablesFinite'
  BY TypeStep DEF LogInv
<1>a. /\ \A b \in Branches : b \in RefNames /\ b # "HEAD"
      /\ \A b \in Branches : refs[b] \in Hashes \cup {Absent}
      /\ refs \in [RefNames -> DOMAIN contents \cup {Absent}]
      /\ \A h \in checkpoints : h \in Hashes \cup {Absent}
  BY <1>0, HashesNumbered, StoreAssumption DEF TypeOK, RefNames
\* A step that moves no branch and logs nothing.
<1>b. ASSUME reflog' = reflog, moves' = moves, \A b \in Branches : refs'[b] = refs[b]
      PROVE  Goal
  BY <1>b DEF LogInv, Numbered, Tipped, LogOf
<1>c. ASSUME NEW c \in Contents, NEW b \in Branches, NEW at \in Times, Committed(c, b, at)
      PROVE  Goal
  <2>1. HashOf(c) \in Hashes \cup {Absent}
    BY <1>0, <1>c, WriteNames DEF Names, Committed, WriteCheckpoint, Hashes
  <2>2. LoggedOne(b, refs[b], HashOf(c), at)
    BY <1>0, <1>a, <1>c, <2>1, LogOne DEF Committed
  <2>3. refs'[b] = HashOf(c) /\ \A d \in Branches : d # b => refs'[d] = refs[d]
    BY <1>a, <1>c DEF Committed
  <2> QED
    BY <2>2, <2>3, MoveLogged
<1>1. ASSUME NEW at \in Times, CommitHead(at) PROVE Goal
  <2>1. \A b \in Branches : refs'[b] = refs[b]
    BY <1>a, <1>1 DEF CommitHead
  <2> QED
    BY <1>1, <1>b, <2>1 DEF CommitHead
<1>2. ASSUME NEW b \in Branches, NEW at \in Times, CommitBranch(b, at) PROVE Goal
  BY <1>0, <1>2, <1>c, BranchCommits, DraftTyped
<1>3. ASSUME NEW b \in Branches, NEW at \in Times, NEW h \in checkpoints, CreateBranch(b, h, at)
      PROVE  Goal
  <2>1. LoggedOne(b, Absent, h, at)
    BY <1>0, <1>a, <1>3, LogOne DEF CreateBranch
  <2>2. refs'[b] = h /\ \A d \in Branches : d # b => refs'[d] = refs[d]
    BY <1>a, <1>3 DEF CreateBranch
  <2> QED
    BY <2>1, <2>2, MoveLogged
<1>4. ASSUME NEW b \in Branches, NEW at \in Times, NEW h \in checkpoints, NEW ff \in BOOLEAN,
             UpdateBranch(b, h, at, ff)
      PROVE  Goal
  <2>0. Log({RowAt(1, b, refs[b], h, at)}) /\ refs' = [refs EXCEPT ![b] = h]
    BY <1>4 DEF UpdateBranch
  <2>1. LoggedOne(b, refs[b], h, at)
    BY <1>0, <1>a, <2>0, LogOne
  <2>2. refs'[b] = h /\ \A d \in Branches : d # b => refs'[d] = refs[d]
    BY <1>a, <2>0
  <2> QED
    BY <2>1, <2>2, MoveLogged
<1>5. ASSUME NEW b \in Branches, NEW at \in Times, NEW h \in checkpoints, KernelMerge(h, b, at)
      PROVE  Goal
  BY <1>0, <1>5, <1>c, MergeCommits
<1>6. ASSUME NEW b \in Branches, NEW at \in Times, DeleteBranch(b, at) PROVE Goal
  <2>1. LoggedOne(b, refs[b], Absent, at)
    BY <1>0, <1>a, <1>6, LogOne DEF DeleteBranch
  <2>2. refs'[b] = Absent /\ \A d \in Branches : d # b => refs'[d] = refs[d]
    BY <1>a, <1>6 DEF DeleteBranch
  <2> QED
    BY <2>1, <2>2, MoveLogged
<1>7. ASSUME NEW b \in Branches, NEW c \in Branches, NEW at \in Times, RenameBranch(b, c, at)
      PROVE  Goal
  <2>1. LoggedTwo(b, c, refs[b], at)
    BY <1>0, <1>a, <1>7, LogTwo DEF RenameBranch
  <2>2. /\ b # c /\ refs'[b] = Absent /\ refs'[c] = refs[b]
        /\ \A d \in Branches : d # b /\ d # c => refs'[d] = refs[d]
    BY <1>a, <1>7 DEF RenameBranch
  <2> QED
    BY <2>1, <2>2, RenameLogged
<1>8. ASSUME NEW s \in Slots, RemoveSlot(s) \/ \E p \in Payloads : PutSlot(s, p) PROVE Goal
  BY <1>8, <1>b DEF RemoveSlot, PutSlot
<1>9. ASSUME NEW p \in Payloads, SpillBlob(p) \/ OpenPending(p) \/ ResolvePending(p) PROVE Goal
  BY <1>9, <1>b DEF SpillBlob, OpenPending, ResolvePending
<1>10. ASSUME NEW b \in Branches, NEW older, NEW grace, NEW max, PruneReflog(b, older, grace, max)
       PROVE  Goal
  BY <1>10, PruneLogged
<1>11. ASSUME NEW r \in RefNames, Resume(r) PROVE Goal
  BY <1>11, <1>b DEF Resume
<1>12. ASSUME NEW since, KernelCollect(since) PROVE Goal
  <2>1. reflog' = reflog /\ moves' = moves /\ refs' = refs
    BY <1>12 DEF KernelCollect, CollectGarbage
  <2> QED
    BY <2>1, <1>b
<1>13. ASSUME UNCHANGED vars PROVE Goal
  BY <1>13, <1>b DEF vars
<1>14. Goal
  <2> HIDE DEF Goal
  <2> QED
    BY <1>1, <1>2, <1>3, <1>4, <1>5, <1>6, <1>7, <1>8, <1>9, <1>10, <1>11, <1>12, <1>13, Zenon
    DEF Next
<1> QED
  BY <1>0, <1>14 DEF LogInv

LEMMA InitTyped ==
  ASSUME Init
  PROVE  TypeOK /\ TablesFinite
<1>1. EmptyTree \in Trees
  BY DEF EmptyTree, Trees
<1>2. IsFiniteSet({})
  BY FS_EmptySet
<1> QED
  BY <1>1, <1>2, StoreAssumption DEF Init, TypeOK, TablesFinite, Absent

(* The tables and the kernel's two fields keep their types. *)
THEOREM StoreTyped == Spec => []TypeOK
<1>1. Init => TypeOK /\ TablesFinite
  BY InitTyped
<1>2. TypeOK /\ TablesFinite /\ [Next]_vars => TypeOK' /\ TablesFinite'
  BY TypeStep
<1> QED
  BY <1>1, <1>2, PTL DEF Spec

(* The newest reflog row of a branch names its tip, or is the tombstone of  *)
(* an absent one, after any sequence of commits, branch verbs, merges and   *)
(* prunes: prune_reflog keeps the floor row whatever its thresholds are.    *)
THEOREM ReflogExplainsHolds == Spec => []ReflogExplains
<1>1. Init => LogInv
  <2> SUFFICES ASSUME Init PROVE LogInv
    OBVIOUS
  <2>1. \A b \in Branches : LogOf(b) = {} /\ refs[b] = Absent
    BY DEF Init, LogOf, RefNames
  <2>2. Numbered
    BY DEF Init, Numbered
  <2> QED
    BY <2>1, <2>2, InitTyped DEF LogInv, Tipped
<1>2. LogInv /\ [Next]_vars => LogInv'
  BY LogStep
<1>3. LogInv => ReflogExplains
  BY TipIsNewest
<1> QED
  BY <1>1, <1>2, <1>3, PTL DEF Spec

(***************************************************************************)
(* The collector.  StoreIntact is inductive once the types are known: a    *)
(* commit needs its parent's row, hence the head it builds on loads, hence *)
(* the slots it stores are readable; a collection leaves exactly the live  *)
(* rows when it may take all the dead ones, and those are closed.          *)
(***************************************************************************)
StoreInv == TypeOK /\ TablesFinite /\ StoreIntact

\* The two minima of bound_report.
LEMMA MinOfTwo ==
  ASSUME NEW m \in Nat, NEW n \in Nat
  PROVE  Min({m, n}) = IF m <= n THEN m ELSE n
<1> DEFINE S == {m, n}
           k == IF m <= n THEN m ELSE n
<1>1. k \in S /\ \A y \in S : k <= y
  OBVIOUS
<1>2. \A x \in S : (\A y \in S : x <= y) => x = k
  OBVIOUS
<1>3. Min(S) \in S /\ \A y \in S : Min(S) <= y
  <2> HIDE DEF S, k
  <2> QED
    BY <1>1 DEF Min
<1> HIDE DEF S, k
<1>4. Min(S) = k
  BY <1>2, <1>3
<1> QED
  BY <1>4 DEF S, k

\* A walk from the roots stays within the rows and reaches every ref that has one.
LEMMA LiveRooted ==
  ASSUME NEW since
  PROVE  Live(since) \subseteq checkpoints /\ RefTargets \cap checkpoints \subseteq Live(since)
BY DEF Live, Roots

\* A whole collection leaves the live rows and touches no live blob.
LEMMA CollectsAll ==
  ASSUME TypeOK, TablesFinite, MaxDeletes >= MaxContents, NEW since, CollectGarbage(since)
  PROVE  /\ checkpoints' = Live(since) /\ ~ Torn(Live(since))
         /\ \A h \in Live(since) :
              /\ TreeOf(h) \in trees => TreeOf(h) \in trees'
              /\ Entries(TreeOf(h)) \cap payloads \subseteq payloads'
<1> DEFINE live == Live(since)
           dead == DeadCheckpoints(live)
           blobs == Cardinality(DeadTrees(live)) + Cardinality(DeadPayloads(live))
<1>1. PICK C, T, P :
        /\ C \in kSubset(BoundReport(Cardinality(dead), blobs).deletedCheckpoints, dead)
        /\ T \in SUBSET DeadTrees(live) /\ P \in SUBSET DeadPayloads(live)
        /\ DeleteBatch(C, T, P)
  BY Zenon DEF CollectGarbage
<1>2. ~ Torn(live)
  BY Zenon DEF CollectGarbage
<1>3. dead \subseteq 1 .. MaxContents /\ dead \subseteq checkpoints
  BY HashesNumbered DEF TypeOK, DeadCheckpoints, Hashes
<1>4. IsFiniteSet(dead) /\ Cardinality(dead) \in Nat /\ Cardinality(dead) <= MaxContents
  <2>1. IsFiniteSet(1 .. MaxContents) /\ Cardinality(1 .. MaxContents) = MaxContents
    BY FS_Interval, StoreAssumption
  <2> HIDE DEF dead
  <2>2. IsFiniteSet(dead) /\ Cardinality(dead) <= MaxContents
    BY <1>3, <2>1, FS_Subset
  <2> QED
    BY <2>2, FS_CardinalityType
<1>5. blobs \in Nat
  <2>1. DeadTrees(live) \subseteq trees /\ DeadPayloads(live) \subseteq payloads
    BY DEF DeadTrees, DeadPayloads
  <2>2. IsFiniteSet(DeadTrees(live)) /\ IsFiniteSet(DeadPayloads(live))
    BY <2>1, FS_Subset DEF TablesFinite
  <2> QED
    BY <2>2, FS_CardinalityType
<1>6. BoundReport(Cardinality(dead), blobs).deletedCheckpoints = Cardinality(dead)
  <2> HIDE DEF dead, blobs
  <2> DEFINE n == Cardinality(dead)
  <2>0. n \in Nat /\ n <= MaxDeletes /\ MaxDeletes \in Nat /\ n + blobs \in Nat
    BY <1>4, <1>5, StoreAssumption
  <2> HIDE DEF n
  <2>1. Min({MaxDeletes, n + blobs}) = IF MaxDeletes <= n + blobs THEN MaxDeletes ELSE n + blobs
    BY <2>0, MinOfTwo
  <2>2. Min({MaxDeletes, n + blobs}) \in Nat /\ n <= Min({MaxDeletes, n + blobs})
    BY <2>0, <2>1, <1>5
  <2>3. Min({n, Min({MaxDeletes, n + blobs})}) = n
    BY <2>0, <2>2, MinOfTwo
  <2>4. BoundReport(n, blobs).deletedCheckpoints = n
    BY <2>3 DEF BoundReport
  <2> QED
    BY <2>4 DEF n
<1>7. C = dead
  <2>1. C \in SUBSET dead /\ Cardinality(C) = Cardinality(dead)
    BY <1>1, <1>6 DEF kSubset
  <2> HIDE DEF dead
  <2> QED
    BY <2>1, <1>4, FS_Subset
<1>8. live \subseteq checkpoints
  BY LiveRooted
<1>9. checkpoints' = live
  BY <1>1, <1>7, <1>8 DEF DeleteBatch, DeadCheckpoints
<1>10. ASSUME NEW h \in live
       PROVE  /\ TreeOf(h) \in trees => TreeOf(h) \in trees'
              /\ Entries(TreeOf(h)) \cap payloads \subseteq payloads'
  BY <1>1 DEF DeleteBatch, DeadTrees, DeadPayloads
<1> QED
  BY <1>2, <1>9, <1>10

\* A write whose slots are readable keeps the store whole.
LEMMA WriteIntact ==
  ASSUME StoreInv, NEW c \in Contents, WriteCheckpoint(c), Entries(c.tree) \subseteq payloads,
         {refs'[r] : r \in RefNames} \subseteq {refs[r] : r \in RefNames} \cup {HashOf(c)},
         tree' = c.tree
  PROVE  StoreIntact'
<1>1. Names(HashOf(c), c)
  BY WriteNames DEF StoreInv
<1>2. RefTargets' \subseteq checkpoints'
  BY <1>1 DEF Names, StoreInv, StoreIntact, RefTargets
<1>3. ASSUME NEW h \in checkpoints'
      PROVE  /\ Parents(h)' \subseteq checkpoints' /\ TreeOf(h)' \in trees'
             /\ Entries(TreeOf(h))' \subseteq payloads'
  <2>1. CASE h = HashOf(c)
    BY <2>1, <1>1 DEF Names, Parents, TreeOf, Entries, ParentSet
  <2>2. CASE h \in checkpoints
    <3>1. contents'[h] = contents[h]
      BY <2>2, <1>1 DEF Names, StoreInv, TypeOK
    <3>2. /\ Parents(h) \subseteq checkpoints /\ TreeOf(h) \in trees
          /\ Entries(TreeOf(h)) \subseteq payloads
      BY <2>2 DEF StoreInv, StoreIntact
    <3> QED
      BY <3>1, <3>2, <1>1 DEF Names, Parents, TreeOf, Entries, ParentSet
  <2> QED
    BY <2>1, <2>2, <1>1 DEF Names
<1>4. Entries(tree)' \subseteq payloads'
  BY <1>1 DEF Names, Entries
<1> QED
  BY <1>2, <1>3, <1>4 DEF StoreIntact

\* The commit of the working tree: its parent's row exists, so its slots are readable.
LEMMA DraftReadable ==
  ASSUME StoreInv, NEW at \in Times, WriteCheckpoint(Draft(at))
  PROVE  Draft(at) \in Contents /\ Draft(at).tree = tree /\ Entries(tree) \subseteq payloads
<1>1. Draft(at) \in Contents /\ Draft(at).tree = tree
      /\ ParentSet(Draft(at)) = IF head = Absent THEN {} ELSE {head}
  BY DraftTyped DEF StoreInv
<1>2. head = Absent \/ head \in checkpoints
  BY <1>1 DEF WriteCheckpoint, HasCheckpoint
<1>3. head = Absent \/ HeadLoads
  BY <1>2 DEF HeadLoads, HasCheckpoint, HasBlob, StoreInv, StoreIntact
<1> QED
  BY <1>1, <1>3 DEF StoreInv, StoreIntact

LEMMA MergeReadable ==
  ASSUME StoreInv, NEW x \in checkpoints, NEW y \in checkpoints, NEW z \in checkpoints
  PROVE  Entries(Merge3(TreeOf(x), TreeOf(y), TreeOf(z))) \subseteq payloads
<1>1. /\ Entries(TreeOf(x)) \subseteq payloads /\ Entries(TreeOf(y)) \subseteq payloads
      /\ Entries(TreeOf(z)) \subseteq payloads
  BY DEF StoreInv, StoreIntact
<1> QED
  BY <1>1 DEF Entries, Merge3

\* A step that leaves the store and moves refs only to rows that exist.
LEMMA MoveIntact ==
  ASSUME StoreInv, UNCHANGED <<store, pinned, kernel>>,
         {refs'[r] : r \in RefNames} \subseteq {refs[r] : r \in RefNames} \cup checkpoints \cup {Absent}
  PROVE  StoreIntact'
<1>1. RefTargets' \subseteq checkpoints'
  BY DEF StoreInv, StoreIntact, RefTargets, store
<1>2. \A h \in checkpoints' : /\ Parents(h)' \subseteq checkpoints' /\ TreeOf(h)' \in trees'
                              /\ Entries(TreeOf(h))' \subseteq payloads'
  BY DEF StoreInv, StoreIntact, store, Parents, ParentSet, TreeOf, Entries
<1>3. (head = Absent \/ HeadLoads)' => Entries(tree)' \subseteq payloads'
  BY DEF StoreInv, StoreIntact, store, kernel, HeadLoads, HasCheckpoint, HasBlob, TreeOf, Entries
<1> QED
  BY <1>1, <1>2, <1>3 DEF StoreIntact

LEMMA CollectIntact ==
  ASSUME StoreInv, MaxDeletes >= MaxContents, NEW since, KernelCollect(since)
  PROVE  StoreIntact'
<1> DEFINE live == Live(since)
<1>1. /\ checkpoints' = live /\ ~ Torn(live)
      /\ \A h \in live : /\ TreeOf(h) \in trees => TreeOf(h) \in trees'
                         /\ Entries(TreeOf(h)) \cap payloads \subseteq payloads'
  BY CollectsAll DEF StoreInv, KernelCollect
<1>2. contents' = contents /\ refs' = refs /\ tree' = tree /\ head' = head
  BY DEF KernelCollect, CollectGarbage, kernel
<1>3. live \subseteq checkpoints /\ RefTargets \cap checkpoints \subseteq live
  BY LiveRooted
<1> HIDE DEF live
<1>4. RefTargets' \subseteq checkpoints'
  BY <1>1, <1>2, <1>3 DEF RefTargets, StoreInv, StoreIntact
<1>5. \A h \in live : /\ Parents(h) \subseteq live /\ TreeOf(h) \in trees'
                      /\ Entries(TreeOf(h)) \subseteq payloads'
  BY <1>1, <1>3 DEF Torn, HasBlob, StoreInv, StoreIntact
<1>6. \A h \in checkpoints' : /\ Parents(h)' \subseteq checkpoints' /\ TreeOf(h)' \in trees'
                              /\ Entries(TreeOf(h))' \subseteq payloads'
  BY <1>1, <1>2, <1>5 DEF Parents, ParentSet, TreeOf, Entries
<1>7. (head = Absent \/ HeadLoads)' => Entries(tree)' \subseteq payloads'
  <2>1. CASE head = Absent
    <3>1. tree = EmptyTree
      BY <2>1 DEF KernelCollect, WorkingTreeClean
    <3> QED
      BY <3>1, <1>2 DEF EmptyTree, Entries
  <2>2. CASE head # Absent /\ HeadLoads'
    <3>1. tree = TreeOf(head)
      BY <2>2 DEF KernelCollect, WorkingTreeClean
    <3>2. head \in live
      BY <2>2, <1>1, <1>2 DEF HeadLoads, HasCheckpoint
    <3> QED
      BY <3>1, <3>2, <1>2, <1>5 DEF Entries
  <2> QED
    BY <2>1, <2>2, <1>2
<1> QED
  BY <1>4, <1>6, <1>7 DEF StoreIntact

LEMMA IntactStep ==
  ASSUME StoreInv, MaxDeletes >= MaxContents, [Next]_vars
  PROVE  StoreInv'
<1>0. TypeOK /\ TypeOK' /\ TablesFinite'
  BY TypeStep DEF StoreInv
<1>a. refs \in [RefNames -> DOMAIN contents \cup {Absent}] /\ tree \in Trees
      /\ \A b \in Branches : b \in RefNames
  BY DEF StoreInv, TypeOK, RefNames
<1>1. ASSUME NEW at \in Times, CommitHead(at) PROVE StoreIntact'
  <2>1. Draft(at) \in Contents /\ Draft(at).tree = tree /\ Entries(tree) \subseteq payloads
    BY <1>1, DraftReadable DEF CommitHead
  <2>2. {refs'[r] : r \in RefNames} \subseteq {refs[r] : r \in RefNames} \cup {HashOf(Draft(at))}
    BY <1>1, <1>a DEF CommitHead
  <2> QED
    BY <1>1, <2>1, <2>2, WriteIntact DEF CommitHead
<1>c. ASSUME NEW c \in Contents, NEW b \in Branches, NEW at \in Times, Committed(c, b, at),
             Entries(c.tree) \subseteq payloads
      PROVE  StoreIntact'
  <2>1. {refs'[r] : r \in RefNames} \subseteq {refs[r] : r \in RefNames} \cup {HashOf(c)}
    BY <1>c, <1>a DEF Committed
  <2> QED
    BY <1>c, <2>1, WriteIntact DEF Committed
<1>2. ASSUME NEW b \in Branches, NEW at \in Times, CommitBranch(b, at) PROVE StoreIntact'
  <2>1. Committed(Draft(at), b, at)
    BY <1>0, <1>2, BranchCommits
  <2>2. Draft(at) \in Contents /\ Draft(at).tree = tree /\ Entries(tree) \subseteq payloads
    BY <1>2, DraftReadable DEF CommitBranch
  <2> QED
    BY <1>c, <2>1, <2>2
<1>3. ASSUME NEW b \in Branches, NEW at \in Times, NEW h \in checkpoints,
             CreateBranch(b, h, at) \/ \E ff \in BOOLEAN : UpdateBranch(b, h, at, ff)
      PROVE  StoreIntact'
  <2>1. UNCHANGED <<store, pinned, kernel>> /\ refs' = [refs EXCEPT ![b] = h]
    BY <1>3 DEF CreateBranch, UpdateBranch
  <2> QED
    BY <2>1, <1>a, MoveIntact
<1>5. ASSUME NEW b \in Branches, NEW at \in Times, NEW h \in checkpoints, KernelMerge(h, b, at)
      PROVE  StoreIntact'
  <2>1. PICK c \in Contents, base \in checkpoints :
          /\ Committed(c, b, at) /\ head \in checkpoints
          /\ c.tree = Merge3(TreeOf(base), TreeOf(head), TreeOf(h))
    BY <1>0, <1>5, MergeCommits
  <2>2. Entries(c.tree) \subseteq payloads
    BY <2>1, MergeReadable
  <2> QED
    BY <1>c, <2>1, <2>2
<1>6. ASSUME NEW b \in Branches, NEW at \in Times, DeleteBranch(b, at) PROVE StoreIntact'
  <2>1. UNCHANGED <<store, pinned, kernel>> /\ refs' = [refs EXCEPT ![b] = Absent]
    BY <1>6 DEF DeleteBranch
  <2> QED
    BY <2>1, <1>a, MoveIntact
<1>7. ASSUME NEW b \in Branches, NEW c \in Branches, NEW at \in Times, RenameBranch(b, c, at)
      PROVE  StoreIntact'
  <2>1. UNCHANGED <<store, pinned, kernel>> /\ refs' = [refs EXCEPT ![b] = Absent, ![c] = refs[b]]
    BY <1>7 DEF RenameBranch
  <2> QED
    BY <2>1, <1>a, MoveIntact
<1>8. ASSUME NEW s \in Slots, NEW p \in Payloads \cup {Empty}, tree' = [tree EXCEPT ![s] = p],
             payloads' = payloads \cup ({p} \ {Empty}),
             UNCHANGED <<contents, checkpoints, trees, refs, reflog, moves, pinned, head>>
      PROVE  StoreIntact'
  <2>1. Entries(tree') \subseteq Entries(tree) \cup ({p} \ {Empty})
    BY <1>8, <1>a DEF Entries, Trees
  <2>2. RefTargets' \subseteq checkpoints'
    BY <1>8 DEF StoreInv, StoreIntact, RefTargets
  <2>3. \A h \in checkpoints' : /\ Parents(h)' \subseteq checkpoints' /\ TreeOf(h)' \in trees'
                                /\ Entries(TreeOf(h))' \subseteq payloads'
    BY <1>8 DEF StoreInv, StoreIntact, Parents, ParentSet, TreeOf, Entries
  <2>4. (head = Absent \/ HeadLoads)' => (head = Absent \/ HeadLoads)
    BY <1>8 DEF HeadLoads, HasCheckpoint, HasBlob, TreeOf
  <2>5. (head = Absent \/ HeadLoads)' => Entries(tree') \subseteq payloads'
    BY <2>1, <2>4, <1>8 DEF StoreInv, StoreIntact
  <2>6. Entries(tree)' = Entries(tree')
    BY DEF Entries
  <2> QED
    BY <2>2, <2>3, <2>5, <2>6 DEF StoreIntact
<1>9. ASSUME NEW s \in Slots, RemoveSlot(s) PROVE StoreIntact'
  <2>1. /\ tree' = [tree EXCEPT ![s] = Empty] /\ payloads' = payloads \cup ({Empty} \ {Empty})
        /\ UNCHANGED <<contents, checkpoints, trees, refs, reflog, moves, pinned, head>>
    BY <1>9 DEF RemoveSlot, store
  <2> QED
    BY <2>1, <1>8
<1>10. ASSUME NEW s \in Slots, NEW p \in Payloads, PutSlot(s, p) PROVE StoreIntact'
  <2>0. p # Empty
    BY StoreAssumption DEF Empty
  <2>1. /\ tree' = [tree EXCEPT ![s] = p] /\ payloads' = payloads \cup ({p} \ {Empty})
        /\ UNCHANGED <<contents, checkpoints, trees, refs, reflog, moves, pinned, head>>
    BY <1>10, <2>0 DEF PutSlot
  <2> QED
    BY <2>1, <1>8
<1>11. ASSUME NEW p \in Payloads, SpillBlob(p) PROVE StoreIntact'
  BY <1>11 DEF SpillBlob, StoreInv, StoreIntact, RefTargets, Parents, ParentSet, TreeOf, Entries,
               HeadLoads, HasCheckpoint, HasBlob, kernel
<1>12. ASSUME NEW p \in Payloads, OpenPending(p) \/ ResolvePending(p) PROVE StoreIntact'
  BY <1>12 DEF OpenPending, ResolvePending, StoreInv, StoreIntact, RefTargets, Parents, ParentSet,
               TreeOf, Entries, HeadLoads, HasCheckpoint, HasBlob, kernel, store
<1>13. ASSUME NEW b \in Branches, NEW older, NEW grace, NEW max, PruneReflog(b, older, grace, max)
       PROVE  StoreIntact'
  <2>1. UNCHANGED <<store, pinned, kernel>> /\ refs' = refs
    BY <1>13 DEF PruneReflog
  <2> QED
    BY <2>1, MoveIntact
<1>14. ASSUME NEW r \in RefNames, Resume(r) PROVE StoreIntact'
  <2>1. refs[r] \in checkpoints /\ tree' = TreeOf(refs[r])
        /\ UNCHANGED <<store, refs, reflog, moves, pinned>>
    BY <1>14 DEF Resume, GetRef, HasCheckpoint
  <2>2. Entries(TreeOf(refs[r])) \subseteq payloads
    BY <2>1 DEF StoreInv, StoreIntact
  <2> QED
    BY <2>1, <2>2 DEF StoreInv, StoreIntact, RefTargets, Parents, ParentSet, TreeOf, Entries, store
<1>15. ASSUME NEW since, KernelCollect(since) PROVE StoreIntact'
  BY <1>15, CollectIntact
<1>16. ASSUME UNCHANGED vars PROVE StoreIntact'
  <2>1. UNCHANGED <<store, pinned, kernel>> /\ refs' = refs
    BY <1>16 DEF vars, store, kernel
  <2> QED
    BY <2>1, MoveIntact
<1>17. StoreIntact'
  BY <1>1, <1>2, <1>3, <1>5, <1>6, <1>7, <1>9, <1>10, <1>11, <1>12, <1>13, <1>14, <1>15, <1>16, Zenon
  DEF Next
<1> QED
  BY <1>0, <1>17 DEF StoreInv

(* When every collection may take all it finds, no sequence of commits,     *)
(* branch moves, prunes and collections leaves a ref without its row or a   *)
(* row without its parents, its tree or its payloads, whatever collected    *)
(* and rewritten rows share their hashes.                                   *)
THEOREM StoreIntactHolds ==
  ASSUME MaxDeletes >= MaxContents
  PROVE  Spec => []StoreIntact
<1>1. Init => StoreInv
  <2> SUFFICES ASSUME Init PROVE StoreInv
    OBVIOUS
  <2>1. Entries(tree) = {} /\ RefTargets = {} /\ checkpoints = {}
    BY DEF Init, Entries, EmptyTree, RefTargets
  <2> QED
    BY <2>1, InitTyped DEF StoreInv, StoreIntact
<1>2. StoreInv /\ [Next]_vars => StoreInv'
  BY IntactStep
<1>3. StoreInv => StoreIntact
  BY DEF StoreInv
<1> QED
  BY <1>1, <1>2, <1>3, PTL DEF Spec

(***************************************************************************)
(* What a step may never lose.                                             *)
(***************************************************************************)
InUseStep == /\ pinned \cap pinned' \cap payloads \subseteq payloads'
             /\ head' # head => tree' = contents'[head'].tree

LEMMA NothingLost ==
  ASSUME TypeOK, [Next]_vars
  PROVE  InUseStep
<1>1. ASSUME NEW c \in Contents, WriteCheckpoint(c), head' = HashOf(c), tree' = c.tree
      PROVE  InUseStep
  <2>1. Names(HashOf(c), c)
    BY <1>1, WriteNames
  <2> QED
    BY <1>1, <2>1 DEF Names, InUseStep
<1>2. ASSUME NEW at \in Times, CommitHead(at) PROVE InUseStep
  BY <1>1, <1>2, DraftTyped DEF CommitHead
<1>3. ASSUME NEW b \in Branches, NEW at \in Times, CommitBranch(b, at) PROVE InUseStep
  BY <1>1, <1>3, DraftTyped DEF CommitBranch
<1>4. ASSUME NEW b \in Branches, NEW at \in Times, NEW h \in checkpoints, KernelMerge(h, b, at)
      PROVE  InUseStep
  BY <1>1, <1>4, MergeCommits DEF Committed
<1>5. ASSUME NEW r \in RefNames, Resume(r) PROVE InUseStep
  BY <1>5 DEF Resume, InUseStep, store, TreeOf
<1>6. ASSUME NEW since, KernelCollect(since) PROVE InUseStep
  <2>1. payloads \ payloads' \subseteq DeadPayloads(Live(since))
    BY <1>6, Zenon DEF KernelCollect, CollectGarbage, DeleteBatch
  <2>2. head' = head
    BY <1>6 DEF KernelCollect, CollectGarbage, kernel
  <2> QED
    BY <2>1, <2>2 DEF DeadPayloads, InUseStep
<1>7. ASSUME payloads \subseteq payloads', head' = head PROVE InUseStep
  BY <1>7 DEF InUseStep
<1>8. ASSUME NEW b \in Branches, NEW at \in Times, NEW h \in checkpoints,
             CreateBranch(b, h, at) \/ \E ff \in BOOLEAN : UpdateBranch(b, h, at, ff)
      PROVE  InUseStep
  BY <1>7, <1>8 DEF CreateBranch, UpdateBranch, store, kernel
<1>9. ASSUME NEW b \in Branches, NEW at \in Times,
             DeleteBranch(b, at) \/ \E c \in Branches : RenameBranch(b, c, at)
      PROVE  InUseStep
  BY <1>7, <1>9 DEF DeleteBranch, RenameBranch, store, kernel
<1>10. ASSUME NEW s \in Slots, RemoveSlot(s) \/ \E p \in Payloads : PutSlot(s, p) PROVE InUseStep
  BY <1>7, <1>10 DEF RemoveSlot, PutSlot, store
<1>11. ASSUME NEW p \in Payloads, SpillBlob(p) \/ OpenPending(p) \/ ResolvePending(p)
       PROVE  InUseStep
  BY <1>7, <1>11 DEF SpillBlob, OpenPending, ResolvePending, store, kernel
<1>12. ASSUME NEW b \in Branches, NEW older, NEW grace, NEW max, PruneReflog(b, older, grace, max)
       PROVE  InUseStep
  BY <1>7, <1>12 DEF PruneReflog, store, kernel
<1>13. ASSUME UNCHANGED vars PROVE InUseStep
  BY <1>7, <1>13 DEF vars
<1> QED
  BY <1>2, <1>3, <1>4, <1>5, <1>6, <1>8, <1>9, <1>10, <1>11, <1>12, <1>13, Zenon DEF Next

(* A collection never takes the payload an open pending effect names, and   *)
(* whatever moves the kernel's head brings the working tree along.          *)
THEOREM InUseIsKept == Spec => InUseKept
<1>1. Init => TypeOK /\ TablesFinite
  BY InitTyped
<1>2. TypeOK /\ TablesFinite /\ [Next]_vars => TypeOK' /\ TablesFinite'
  BY TypeStep
<1>3. TypeOK /\ [Next]_vars => [/\ pinned \cap pinned' \cap payloads \subseteq payloads'
                                /\ head' # head => tree' = contents'[head'].tree]_vars
  BY NothingLost DEF InUseStep
<1> QED
  BY <1>1, <1>2, <1>3, PTL DEF Spec, InUseKept

(***************************************************************************)
(* Walks along the parents.  P gives the parents of each of the hashes     *)
(* 1 .. n, all older than it; a walk f gives what each of them reaches.    *)
(***************************************************************************)
Older(P, n) == \A k \in 1 .. n : P[k] \subseteq 1 .. (k - 1)

IsWalk(f, P, n) == f = [k \in 1 .. n |-> {k} \cup UNION {f[p] : p \in P[k]}]

LEMMA LeastNatural ==
  ASSUME NEW S \in SUBSET Nat, S # {}
  PROVE  \E n \in S : \A x \in S : n <= x
<1>1. PICK n \in S : \A x \in S : <<x, n>> \notin OpToRel(<, Nat)
  BY NatLessThanWellFounded, WFMin, Zenon
<1>2. ASSUME NEW x \in S, x < n
      PROVE  FALSE
  <2>1. <<x, n>> \in OpToRel(<, Nat)
    BY <1>2 DEF OpToRel
  <2> QED
    BY <2>1, <1>1
<1> QED
  BY <1>2

LEMMA WalkStep ==
  ASSUME NEW n, NEW P, NEW f, IsWalk(f, P, n), NEW k \in 1 .. n
  PROVE  f[k] = {k} \cup UNION {f[p] : p \in P[k]}
<1> DEFINE g == [j \in 1 .. n |-> {j} \cup UNION {f[p] : p \in P[j]}]
<1>1. g[k] = {k} \cup UNION {f[p] : p \in P[k]}
  OBVIOUS
<1>2. f = g
  BY DEF IsWalk
<1> HIDE DEF g
<1> QED
  BY <1>1, <1>2

\* The recursion is well founded, so there is a walk.
LEMMA WalkExists ==
  ASSUME NEW n \in Nat, NEW P, Older(P, n)
  PROVE  \E f : IsWalk(f, P, n)
<1> DEFINE Bad == {m \in 0 .. n : ~ \E f : IsWalk(f, P, m)}
<1>1. Bad = {}
  <2> SUFFICES ASSUME Bad # {}
               PROVE  FALSE
    OBVIOUS
  <2>1. PICK m \in Bad : \A x \in Bad : m <= x
    <3>1. Bad \in SUBSET Nat
      OBVIOUS
    <3> HIDE DEF Bad
    <3> QED
      BY <3>1, LeastNatural
  <2>2. m # 0
    <3> DEFINE f == [k \in 1 .. 0 |-> {}]
    <3>1. IsWalk(f, P, 0)
      BY DEF IsWalk
    <3> QED
      BY <2>1, <3>1
  <2>3. m - 1 \in 0 .. n /\ m - 1 \notin Bad /\ m \in 1 .. n
    BY <2>1, <2>2
  <2>4. PICK f : IsWalk(f, P, m - 1)
    BY <2>3
  <2> DEFINE g == [k \in 1 .. m |-> IF k = m THEN {m} \cup UNION {f[p] : p \in P[m]} ELSE f[k]]
  <2>5. \A k \in 1 .. (m - 1) : g[k] = f[k]
    BY <2>3
  <2>6. g[m] = {m} \cup UNION {f[p] : p \in P[m]}
    BY <2>3
  <2>7. DOMAIN g = 1 .. m
    OBVIOUS
  <2>8. g = [k \in 1 .. m |-> g[k]]
    OBVIOUS
  <2> HIDE DEF g
  <2>9. ASSUME NEW k \in 1 .. m
        PROVE  g[k] = {k} \cup UNION {g[p] : p \in P[k]}
    <3>1. \A p \in P[k] : p \in 1 .. (m - 1) /\ g[p] = f[p]
      BY <2>3, <2>5 DEF Older
    <3>2. {g[p] : p \in P[k]} = {f[p] : p \in P[k]}
      BY <3>1
    <3>3. g[k] = {k} \cup UNION {f[p] : p \in P[k]}
      <4>1. CASE k = m
        BY <2>6, <4>1
      <4>2. CASE k # m
        <5>1. k \in 1 .. (m - 1)
          BY <2>3, <4>2
        <5> QED
          BY <2>4, <2>5, <5>1, WalkStep
      <4> QED
        BY <4>1, <4>2
    <3> QED
      BY <3>2, <3>3
  <2>10. IsWalk(g, P, m)
    BY <2>8, <2>9 DEF IsWalk
  <2> QED
    BY <2>1, <2>10
<1> QED
  BY <1>1

\* A walk reaches where it starts, and nothing newer.
LEMMA WalkOlder ==
  ASSUME NEW n \in Nat, NEW P, Older(P, n), NEW f, IsWalk(f, P, n)
  PROVE  \A k \in 1 .. n : k \in f[k] /\ f[k] \subseteq 1 .. k
<1> DEFINE Bad == {k \in 1 .. n : ~(f[k] \subseteq 1 .. k)}
<1>1. Bad = {}
  <2> SUFFICES ASSUME Bad # {}
               PROVE  FALSE
    OBVIOUS
  <2>1. PICK k \in Bad : \A x \in Bad : k <= x
    <3>1. Bad \in SUBSET Nat
      OBVIOUS
    <3> HIDE DEF Bad
    <3> QED
      BY <3>1, LeastNatural
  <2>2. \A p \in P[k] : p \in 1 .. (k - 1) /\ p \in 1 .. n /\ p \notin Bad
    BY <2>1 DEF Older
  <2>3. \A p \in P[k] : f[p] \subseteq 1 .. k
    BY <2>1, <2>2
  <2>4. f[k] = {k} \cup UNION {f[p] : p \in P[k]}
    BY <2>1, WalkStep
  <2>5. f[k] \subseteq 1 .. k
    BY <2>1, <2>3, <2>4
  <2> QED
    BY <2>1, <2>5
<1>2. \A k \in 1 .. n : k \in f[k]
  BY WalkStep
<1> QED
  BY <1>1, <1>2

\* What is reached from something reached is reached.
LEMMA WalkOnward ==
  ASSUME NEW n \in Nat, NEW P, Older(P, n), NEW f, IsWalk(f, P, n)
  PROVE  \A k \in 1 .. n : \A y \in f[k] : f[y] \subseteq f[k]
<1> DEFINE Bad == {k \in 1 .. n : \E y \in f[k] : ~(f[y] \subseteq f[k])}
<1>1. Bad = {}
  <2> SUFFICES ASSUME Bad # {}
               PROVE  FALSE
    OBVIOUS
  <2>1. PICK k \in Bad : \A x \in Bad : k <= x
    <3>1. Bad \in SUBSET Nat
      OBVIOUS
    <3> HIDE DEF Bad
    <3> QED
      BY <3>1, LeastNatural
  <2>2. \A p \in P[k] : p \in 1 .. n /\ p \notin Bad
    BY <2>1 DEF Older
  <2>3. f[k] = {k} \cup UNION {f[p] : p \in P[k]}
    BY <2>1, WalkStep
  <2>4. ASSUME NEW y \in f[k]
        PROVE  f[y] \subseteq f[k]
    <3>1. CASE y = k
      BY <3>1
    <3>2. CASE y # k
      <4>1. PICK p \in P[k] : y \in f[p]
        BY <2>3, <2>4, <3>2
      <4>2. f[y] \subseteq f[p]
        BY <2>2, <4>1
      <4> QED
        BY <2>3, <4>1, <4>2
    <3> QED
      BY <3>1, <3>2
  <2> QED
    BY <2>1, <2>4
<1> QED
  BY <1>1

\* Two walks agree on a set that their parents agree on and do not leave.
Shared(P, Q, K) == \A k \in K : P[k] = Q[k] /\ P[k] \subseteq K

LEMMA WalksAgree ==
  ASSUME NEW n \in Nat, NEW m \in Nat, NEW P, NEW Q, NEW f, NEW g,
         Older(P, n), IsWalk(f, P, n), IsWalk(g, Q, m),
         NEW K \in SUBSET (1 .. n), K \in SUBSET (1 .. m), Shared(P, Q, K)
  PROVE  \A k \in K : f[k] = g[k]
<1> DEFINE Bad == {k \in K : f[k] # g[k]}
<1>1. Bad = {}
  <2> SUFFICES ASSUME Bad # {}
               PROVE  FALSE
    OBVIOUS
  <2>1. PICK k \in Bad : \A x \in Bad : k <= x
    <3>1. K \subseteq Nat /\ Bad \subseteq K
      OBVIOUS
    <3> HIDE DEF Bad
    <3>2. Bad \in SUBSET Nat
      BY <3>1
    <3> QED
      BY <3>2, LeastNatural
  <2>a. k \in K /\ k \in 1 .. n /\ k \in 1 .. m /\ P[k] = Q[k] /\ P[k] \subseteq K /\ f[k] # g[k]
    BY <2>1 DEF Shared
  <2>2. P[k] \subseteq 1 .. (k - 1)
    BY <2>a DEF Older
  <2>3. ASSUME NEW p \in P[k]
        PROVE  f[p] = g[p]
    <3>1. p \in K
      BY <2>a
    <3>b. p \in 1 .. (k - 1) /\ k \in 1 .. n
      BY <2>2, <2>a
    <3>2. ~ k <= p
      BY <3>b
    <3>3. p \notin Bad
      BY <2>1, <3>2
    <3> QED
      BY <3>1, <3>3
  <2>4. f[k] = {k} \cup UNION {f[p] : p \in P[k]} /\ g[k] = {k} \cup UNION {g[p] : p \in Q[k]}
    BY <2>a, WalkStep
  <2>5. {f[p] : p \in P[k]} = {g[p] : p \in Q[k]}
    <3> HIDE DEF Bad
    <3> QED
      BY <2>a, <2>3
  <2> QED
    BY <2>a, <2>4, <2>5
<1> QED
  BY <1>1

-----------------------------------------------------------------------------
(* What is recorded of a checkpoint's ancestry never changes, and what a merge
   reads of it before it commits is all there is: no row was missing. *)
Backwards == \A i \in DOMAIN contents : Parents(i) \subseteq 1 .. (i - 1)

MergeInv == TypeOK /\ TablesFinite /\ Backwards /\ MergeKeepsEdits

\* The parents that the walk of the whole history and the walk over the rows follow.
History == [k \in DOMAIN contents |-> Parents(k)]
Present == [k \in Hashes |-> IF k \in checkpoints THEN Parents(k) ELSE {}]

LEMMA LineageWalks ==
  ASSUME TypeOK, Backwards
  PROVE  IsWalk(lineage, History, Len(contents)) /\ Older(History, Len(contents))
<1>1. Len(contents) \in Nat /\ DOMAIN contents = 1 .. Len(contents)
  BY HashesNumbered
<1>2. Older(History, Len(contents))
  BY <1>1 DEF Older, History, Backwards
<1>3. PICK f : IsWalk(f, History, Len(contents))
  BY <1>1, <1>2, WalkExists
<1> DEFINE Sat(g) == g = [k \in DOMAIN contents |-> {k} \cup UNION {g[p] : p \in Parents(k)}]
<1>4. \A g : Sat(g) <=> IsWalk(g, History, Len(contents))
  <2> SUFFICES ASSUME NEW g
               PROVE  Sat(g) <=> IsWalk(g, History, Len(contents))
    OBVIOUS
  <2> DEFINE a == [k \in DOMAIN contents |-> {k} \cup UNION {g[p] : p \in Parents(k)}]
             b == [k \in 1 .. Len(contents) |-> {k} \cup UNION {g[p] : p \in History[k]}]
  <2>1. \A k \in DOMAIN contents : History[k] = Parents(k)
    BY DEF History
  <2>2. a = b
    BY <1>1, <2>1
  <2> HIDE DEF a, b
  <2>3. (g = a) <=> (g = b)
    BY <2>2
  <2> QED
    BY <2>3 DEF IsWalk, a, b
<1>5. Sat(lineage)
  BY <1>3, <1>4 DEF lineage
<1> HIDE DEF Sat
<1> QED
  BY <1>2, <1>4, <1>5

LEMMA AncestorsWalk ==
  ASSUME TypeOK, Backwards
  PROVE  IsWalk(reached, Present, MaxContents) /\ Older(Present, MaxContents)
<1>1. MaxContents \in Nat /\ Hashes = 1 .. MaxContents /\ checkpoints \subseteq DOMAIN contents
  BY StoreAssumption DEF Hashes, TypeOK
<1>2. Older(Present, MaxContents)
  BY <1>1 DEF Older, Present, Backwards
<1>3. PICK f : IsWalk(f, Present, MaxContents)
  BY <1>1, <1>2, WalkExists
<1> DEFINE Sat(g) == g = [k \in Hashes |->
                            {k} \cup IF k \in checkpoints THEN UNION {g[p] : p \in Parents(k)} ELSE {}]
<1>4. \A g : Sat(g) <=> IsWalk(g, Present, MaxContents)
  <2> SUFFICES ASSUME NEW g
               PROVE  Sat(g) <=> IsWalk(g, Present, MaxContents)
    OBVIOUS
  <2> DEFINE a == [k \in Hashes |->
                     {k} \cup IF k \in checkpoints THEN UNION {g[p] : p \in Parents(k)} ELSE {}]
             b == [k \in 1 .. MaxContents |-> {k} \cup UNION {g[p] : p \in Present[k]}]
  <2>1. ASSUME NEW k \in Hashes
        PROVE  UNION {g[p] : p \in Present[k]} =
                 IF k \in checkpoints THEN UNION {g[p] : p \in Parents(k)} ELSE {}
    <3>1. CASE k \in checkpoints
      <4>1. Present[k] = Parents(k)
        BY <3>1 DEF Present
      <4> QED
        BY <3>1, <4>1
    <3>2. CASE k \notin checkpoints
      <4>1. Present[k] = {}
        BY <3>2 DEF Present
      <4> QED
        BY <3>2, <4>1
    <3> QED
      BY <3>1, <3>2
  <2>2. a = b
    BY <1>1, <2>1
  <2> HIDE DEF a, b
  <2>3. (g = a) <=> (g = b)
    BY <2>2
  <2> QED
    BY <2>3 DEF IsWalk, a, b
<1>5. Sat(reached)
  BY <1>3, <1>4 DEF reached
<1> HIDE DEF Sat
<1> QED
  BY <1>2, <1>4, <1>5

\* A walk that met no missing row saw the whole history.
LEMMA WholeHistory ==
  ASSUME TypeOK, Backwards, NEW h \in DOMAIN contents, Ancestors(h) \subseteq checkpoints
  PROVE  Ancestors(h) = lineage[h]
<1> DEFINE K == {k \in DOMAIN contents : reached[k] \subseteq checkpoints}
<1>1. /\ Len(contents) \in Nat /\ DOMAIN contents = 1 .. Len(contents) /\ MaxContents \in Nat
      /\ DOMAIN contents \subseteq 1 .. MaxContents /\ Hashes = 1 .. MaxContents
  BY HashesNumbered, StoreAssumption DEF Hashes
<1>2. /\ IsWalk(lineage, History, Len(contents)) /\ IsWalk(reached, Present, MaxContents)
      /\ Older(Present, MaxContents)
  BY LineageWalks, AncestorsWalk
<1>3. \A k \in 1 .. MaxContents : k \in reached[k] /\ \A y \in reached[k] : reached[y] \subseteq reached[k]
  BY <1>1, <1>2, WalkOlder, WalkOnward
<1>4. ASSUME NEW k \in K
      PROVE  Present[k] = History[k] /\ Present[k] \subseteq K
  <2>1. k \in DOMAIN contents /\ k \in Hashes /\ k \in checkpoints /\ reached[k] \subseteq checkpoints
    BY <1>1, <1>3, <1>4
  <2>2. Present[k] = Parents(k) /\ History[k] = Parents(k)
    BY <2>1 DEF Present, History
  <2>3. ASSUME NEW p \in Parents(k)
        PROVE  p \in K
    <3>1. p \in DOMAIN contents
      BY <1>1, <2>1, <2>3 DEF Backwards
    <3>2. reached[k] = {k} \cup UNION {reached[q] : q \in Present[k]}
      BY <1>1, <1>2, <2>1, WalkStep
    <3>3. reached[p] \subseteq reached[k]
      BY <2>2, <2>3, <3>2
    <3> QED
      BY <2>1, <3>1, <3>3
  <2> QED
    BY <2>2, <2>3
<1>5. K \in SUBSET (1 .. MaxContents) /\ K \in SUBSET (1 .. Len(contents)) /\ h \in K
  BY <1>1 DEF Ancestors
<1> HIDE DEF K
<1>6. Shared(Present, History, K)
  BY <1>4 DEF Shared
<1>7. \A k \in K : reached[k] = lineage[k]
  BY <1>1, <1>2, <1>5, <1>6, WalksAgree
<1> QED
  BY <1>5, <1>7 DEF Ancestors

\* strict_merge_base: a base that stands alone is below no other common
\* ancestor, and every common ancestor is one of its own.
LEMMA OneBase ==
  ASSUME TypeOK, Backwards, NEW a \in DOMAIN contents, NEW b \in DOMAIN contents,
         a # b => Ancestors(a) \cup Ancestors(b) \subseteq checkpoints,
         NEW base, MergeBases(a, b) = {base}
  PROVE  base \in lineage[a] \cap lineage[b] /\ lineage[a] \cap lineage[b] \subseteq lineage[base]
<1>1. /\ Len(contents) \in Nat /\ DOMAIN contents = 1 .. Len(contents) /\ MaxContents \in Nat
      /\ DOMAIN contents \subseteq 1 .. MaxContents /\ checkpoints \subseteq DOMAIN contents
  BY HashesNumbered, StoreAssumption DEF Hashes, TypeOK
<1>2. /\ IsWalk(lineage, History, Len(contents)) /\ Older(History, Len(contents))
      /\ IsWalk(reached, Present, MaxContents) /\ Older(Present, MaxContents)
  BY LineageWalks, AncestorsWalk
<1>3. \A k \in 1 .. MaxContents : /\ k \in Ancestors(k) /\ Ancestors(k) \subseteq 1 .. k
                                  /\ \A y \in Ancestors(k) : Ancestors(y) \subseteq Ancestors(k)
  BY <1>1, <1>2, WalkOlder, WalkOnward DEF Ancestors
<1> DEFINE common == Ancestors(a) \cap Ancestors(b)
<1>4. common \subseteq 1 .. MaxContents
  BY <1>1, <1>3
<1>5. /\ base \in common
      /\ \A c \in common : c # base => \E d \in common \ {c} : c \in Ancestors(d)
  BY DEF MergeBases
<1> DEFINE Lost == {MaxContents - c : c \in common \ Ancestors(base)}
<1>6. common \subseteq Ancestors(base)
  <2> SUFFICES ASSUME common \ Ancestors(base) # {}
               PROVE  FALSE
    OBVIOUS
  <2>1. Lost \in SUBSET Nat /\ Lost # {}
    BY <1>1, <1>4
  <2>2. PICK l \in Lost : \A x \in Lost : l <= x
    <3> HIDE DEF Lost
    <3> QED
      BY <2>1, LeastNatural
  <2>3. PICK c \in common \ Ancestors(base) : l = MaxContents - c
    BY <2>2
  <2>4. ASSUME NEW d \in common \ Ancestors(base)
        PROVE  d <= c
    <3>1. MaxContents - d \in Lost
      OBVIOUS
    <3>2. l <= MaxContents - d
      BY <2>2, <3>1
    <3>3. c \in Nat /\ d \in Nat
      BY <1>4, <2>3
    <3> HIDE DEF Lost, common
    <3> QED
      BY <1>1, <2>3, <3>2, <3>3
  <2>5. c # base /\ c \in 1 .. MaxContents
    BY <1>3, <1>4, <1>5, <2>3
  <2>6. PICK d \in common \ {c} : c \in Ancestors(d)
    BY <1>5, <2>3, <2>5
  <2> HIDE DEF common, Lost
  <2>7. d \in 1 .. MaxContents /\ c < d
    BY <1>3, <1>4, <2>6
  <2>8. d \in Ancestors(base)
    BY <2>4, <2>5, <2>6, <2>7
  <2>9. base \in 1 .. MaxContents
    BY <1>4, <1>5
  <2>10. c \in Ancestors(base)
    BY <1>3, <2>6, <2>8, <2>9
  <2> QED
    BY <2>3, <2>10
<1>7. CASE a # b
  <2>1. Ancestors(a) = lineage[a] /\ Ancestors(b) = lineage[b]
    BY <1>7, WholeHistory
  <2>2. base \in Ancestors(a) /\ Ancestors(a) \subseteq checkpoints
    BY <1>5, <1>7
  <2>3. Ancestors(base) \subseteq checkpoints /\ base \in DOMAIN contents
    BY <1>1, <1>3, <2>2
  <2>4. Ancestors(base) = lineage[base]
    BY <2>3, WholeHistory
  <2> QED
    BY <1>5, <1>6, <2>1, <2>4
<1>8. CASE a = b
  <2>1. a \in Ancestors(base) /\ base \in Ancestors(a) /\ base \in 1 .. MaxContents /\ a \in 1 .. MaxContents
    BY <1>1, <1>3, <1>4, <1>5, <1>6, <1>8
  <2>2. a \in 1 .. base /\ base \in 1 .. a
    BY <1>3, <2>1
  <2>3. base = a
    BY <1>1, <2>1, <2>2
  <2>4. a \in lineage[a]
    BY <1>1, <1>2, WalkOlder
  <2> QED
    BY <1>8, <2>3, <2>4
<1> QED
  BY <1>7, <1>8

\* New contents change nothing in the history of the old ones.
LEMMA LineageKept ==
  ASSUME TypeOK, Backwards, TypeOK', Backwards', DOMAIN contents \subseteq DOMAIN contents',
         \A i \in DOMAIN contents : contents'[i] = contents[i]
  PROVE  \A k \in DOMAIN contents : lineage'[k] = lineage[k]
<1>1. /\ Len(contents) \in Nat /\ DOMAIN contents = 1 .. Len(contents)
      /\ Len(contents') \in Nat /\ DOMAIN contents' = 1 .. Len(contents')
  BY DEF TypeOK
<1> DEFINE n == Len(contents')
           H == [k \in DOMAIN contents' |-> Parents(k)']
<1>2. Older(H, n)
  BY <1>1 DEF Older, Backwards
<1>3. PICK f : IsWalk(f, H, n)
  <2> HIDE DEF H, n
  <2>1. n \in Nat
    BY <1>1 DEF n
  <2> QED
    BY <1>2, <2>1, WalkExists
<1> DEFINE Sat(g) == g = [k \in DOMAIN contents' |-> {k} \cup UNION {g[p] : p \in Parents(k)'}]
<1>4. \A g : Sat(g) <=> IsWalk(g, H, n)
  <2> SUFFICES ASSUME NEW g
               PROVE  Sat(g) <=> IsWalk(g, H, n)
    OBVIOUS
  <2> DEFINE a == [k \in DOMAIN contents' |-> {k} \cup UNION {g[p] : p \in Parents(k)'}]
             b == [k \in 1 .. n |-> {k} \cup UNION {g[p] : p \in H[k]}]
  <2>1. \A k \in DOMAIN contents' : H[k] = Parents(k)'
    OBVIOUS
  <2> HIDE DEF H
  <2>2. a = b
    BY <1>1, <2>1
  <2> HIDE DEF a, b
  <2>3. (g = a) <=> (g = b)
    BY <2>2
  <2> QED
    BY <2>3 DEF IsWalk, a, b
<1>5. Sat(lineage')
  <2>1. \E g : Sat(g)
    BY <1>3, <1>4
  <2> HIDE DEF H, n
  <2> QED
    BY <2>1 DEF lineage
<1> HIDE DEF Sat
<1>6. IsWalk(lineage', H, n)
  BY <1>4, <1>5
<1>7. IsWalk(lineage, History, Len(contents)) /\ Older(History, Len(contents))
  BY LineageWalks
<1>8. Shared(History, H, DOMAIN contents)
  BY <1>1 DEF Shared, History, Parents, Backwards
<1>9. DOMAIN contents \in SUBSET (1 .. Len(contents)) /\ DOMAIN contents \in SUBSET (1 .. n) /\ n \in Nat
  BY <1>1
<1> HIDE DEF H, n
<1> QED
  BY <1>1, <1>6, <1>7, <1>8, <1>9, WalksAgree

\* What is asked of contents d with two parents, under the histories L of cs.
Merged(L, cs, d) ==
  LET common == L[d.parents[1]] \cap L[d.parents[2]]
  IN  \E base \in common :
        /\ common \subseteq L[base]
        /\ KeepsEdits(cs[base].tree, cs[d.parents[1]].tree, cs[d.parents[2]].tree, d.tree)

\* Contents once recorded keep their history, so only the new ones are in question.
LEMMA WriteMerges ==
  ASSUME MergeInv, TypeOK', NEW c \in Contents, WriteCheckpoint(c),
         Len(c.parents) = 2 => Merged(lineage, contents, c)
  PROVE  Backwards' /\ MergeKeepsEdits'
<1>0. TypeOK /\ Backwards /\ MergeKeepsEdits
  BY DEF MergeInv
<1>1. /\ Len(contents) \in Nat /\ DOMAIN contents = 1 .. Len(contents)
      /\ checkpoints \subseteq DOMAIN contents /\ contents \in Seq(Contents)
  BY <1>0 DEF TypeOK
<1>2. ParentSet(c) \subseteq checkpoints
  BY DEF WriteCheckpoint, HasCheckpoint
<1>3. contents' = contents \/ contents' = Append(contents, c)
  BY DEF WriteCheckpoint
<1>4. /\ DOMAIN contents \subseteq DOMAIN contents'
      /\ \A i \in DOMAIN contents : contents'[i] = contents[i]
      /\ \A i \in DOMAIN contents' \ DOMAIN contents : contents'[i] = c /\ i = Len(contents) + 1
  BY <1>1, <1>3
<1>5. Backwards'
  <2> SUFFICES ASSUME NEW i \in DOMAIN contents'
               PROVE  ParentSet(contents'[i]) \subseteq 1 .. (i - 1)
    BY DEF Backwards, Parents
  <2>1. CASE i \in DOMAIN contents
    <3>1. ParentSet(contents[i]) \subseteq 1 .. (i - 1)
      BY <1>0, <2>1 DEF Backwards, Parents
    <3> QED
      BY <1>4, <2>1, <3>1
  <2>2. CASE i \notin DOMAIN contents
    <3>1. contents'[i] = c /\ i = Len(contents) + 1
      BY <1>4, <2>2
    <3>2. ParentSet(c) \subseteq 1 .. Len(contents)
      BY <1>1, <1>2
    <3> QED
      BY <1>1, <3>1, <3>2
  <2> QED
    BY <2>1, <2>2
<1>6. \A k \in DOMAIN contents : lineage'[k] = lineage[k] /\ contents'[k] = contents[k]
  BY <1>0, <1>4, <1>5, LineageKept
<1>7. \A k \in DOMAIN contents : lineage[k] \subseteq DOMAIN contents
  <2>1. \A k \in 1 .. Len(contents) : lineage[k] \subseteq 1 .. k
    BY <1>0, <1>1, LineageWalks, WalkOlder
  <2> QED
    BY <1>1, <2>1
<1>8. ASSUME NEW d \in Contents, Len(d.parents) = 2, Merged(lineage, contents, d),
             ParentSet(d) \subseteq DOMAIN contents
      PROVE  Merged(lineage', contents', d)
  <2>1. d.parents \in {<<>>} \cup [{1} -> Hashes] \cup [{1, 2} -> Hashes]
    BY DEF Contents
  <2>2. 1 \in DOMAIN d.parents /\ 2 \in DOMAIN d.parents
    BY <1>8, <2>1
  <2>3. d.parents[1] \in DOMAIN contents /\ d.parents[2] \in DOMAIN contents
    BY <1>8, <2>2 DEF ParentSet
  <2>4. PICK base \in lineage[d.parents[1]] \cap lineage[d.parents[2]] :
          /\ lineage[d.parents[1]] \cap lineage[d.parents[2]] \subseteq lineage[base]
          /\ KeepsEdits(contents[base].tree, contents[d.parents[1]].tree,
                        contents[d.parents[2]].tree, d.tree)
    BY <1>8 DEF Merged
  <2>5. base \in DOMAIN contents
    BY <1>7, <2>3, <2>4
  <2> QED
    BY <1>6, <2>3, <2>4, <2>5 DEF Merged
<1>9. ASSUME NEW k \in DOMAIN contents', Len(contents'[k].parents) = 2
      PROVE  /\ contents'[k] \in Contents /\ Merged(lineage, contents, contents'[k])
             /\ ParentSet(contents'[k]) \subseteq DOMAIN contents
  <2>1. CASE k \in DOMAIN contents
    <3>1. contents'[k] = contents[k] /\ contents[k] \in Contents
      BY <1>1, <1>4, <2>1
    <3>2. Merged(lineage, contents, contents[k])
      BY <1>0, <1>9, <2>1, <3>1 DEF MergeKeepsEdits, Merged, TreeOf
    <3>3. ParentSet(contents[k]) \subseteq 1 .. (k - 1)
      BY <1>0, <2>1 DEF Backwards, Parents
    <3>4. ParentSet(contents[k]) \subseteq DOMAIN contents
      BY <1>1, <2>1, <3>3
    <3> QED
      BY <3>1, <3>2, <3>4
  <2>2. CASE k \notin DOMAIN contents
    BY <1>1, <1>2, <1>4, <1>9, <2>2
  <2> QED
    BY <2>1, <2>2
<1>10. ASSUME NEW k \in DOMAIN contents', Len(contents'[k].parents) = 2
       PROVE  Merged(lineage', contents', contents'[k])
  <2> DEFINE d == contents'[k]
  <2>1. /\ d \in Contents /\ Len(d.parents) = 2 /\ Merged(lineage, contents, d)
        /\ ParentSet(d) \subseteq DOMAIN contents
    BY <1>9, <1>10
  <2> HIDE DEF d
  <2>2. Merged(lineage', contents', d)
    BY <1>8, <2>1
  <2> QED
    BY <2>2 DEF d
<1>11. MergeKeepsEdits'
  BY <1>10 DEF MergeKeepsEdits, Merged, TreeOf
<1> QED
  BY <1>5, <1>11

\* merge_commit: one base, no conflict, and the three-way merge of the slots.
LEMMA MergeCommitMerges ==
  ASSUME MergeInv, TypeOK', NEW theirs \in checkpoints, NEW b \in Branches, NEW at \in Times,
         KernelMerge(theirs, b, at)
  PROVE  Backwards' /\ MergeKeepsEdits'
<1>0. TypeOK /\ Backwards /\ checkpoints \subseteq DOMAIN contents
  BY DEF MergeInv, TypeOK
<1>1. PICK base \in MergeBases(head, theirs) :
        LET c == [parents |-> <<head, theirs>>,
                  tree |-> Merge3(TreeOf(base), TreeOf(head), TreeOf(theirs)), at |-> at]
        IN  /\ MergeBases(head, theirs) = {base}
            /\ \A h \in {base, head, theirs} : Materialized(h)
            /\ Conflicts(TreeOf(base), TreeOf(head), TreeOf(theirs)) = {}
            /\ WriteCheckpoint(c)
  BY Zenon DEF KernelMerge, MergeCommit
<1>2. theirs # head => Ancestors(head) \cup Ancestors(theirs) \subseteq checkpoints
  BY Zenon DEF KernelMerge, MergeCommit
<1> DEFINE m == Merge3(TreeOf(base), TreeOf(head), TreeOf(theirs))
           c == [parents |-> <<head, theirs>>, tree |-> m, at |-> at]
<1>3. base \in checkpoints /\ head \in checkpoints
  BY <1>1 DEF Materialized, HasCheckpoint
<1>4. \A h \in checkpoints : h \in Hashes /\ TreeOf(h) \in Trees
  BY <1>0, HashesNumbered, RowTyped
<1>5. m \in Trees
  BY <1>3, <1>4 DEF Merge3, Trees
<1>6. <<head, theirs>> \in [{1, 2} -> Hashes]
  <2>1. <<head, theirs>> = [i \in {1, 2} |-> IF i = 1 THEN head ELSE theirs]
    OBVIOUS
  <2> QED
    BY <2>1, <1>3, <1>4
<1>7. WriteCheckpoint(c)
  BY <1>1
<1>8. c.tree = m /\ c.parents[1] = head /\ c.parents[2] = theirs
  OBVIOUS
<1>9. c \in Contents
  <2> HIDE DEF m
  <2> QED
    BY <1>5, <1>6 DEF Contents
<1>10. /\ base \in lineage[head] \cap lineage[theirs]
       /\ lineage[head] \cap lineage[theirs] \subseteq lineage[base]
  <2>1. head \in DOMAIN contents /\ theirs \in DOMAIN contents /\ MergeBases(head, theirs) = {base}
    BY <1>0, <1>1, <1>3
  <2> QED
    BY <1>0, <1>2, <2>1, OneBase
<1>11. KeepsEdits(TreeOf(base), TreeOf(head), TreeOf(theirs), m)
  <2>1. \A s \in Slots : m[s] = IF TreeOf(head)[s] = TreeOf(base)[s]
                                 THEN TreeOf(theirs)[s] ELSE TreeOf(head)[s]
    BY DEF Merge3
  <2> HIDE DEF m
  <2>2. \A s \in Slots : ~ (/\ TreeOf(head)[s] # TreeOf(base)[s] /\ TreeOf(theirs)[s] # TreeOf(base)[s]
                            /\ TreeOf(head)[s] # TreeOf(theirs)[s])
    BY <1>1 DEF Conflicts
  <2> QED
    BY <2>1, <2>2 DEF KeepsEdits
<1> HIDE DEF m, c
<1>12. Merged(lineage, contents, c)
  BY <1>8, <1>10, <1>11 DEF Merged, TreeOf
<1> QED
  BY <1>7, <1>9, <1>12, WriteMerges

\* A commit of the kernel has one parent at most.
LEMMA CommitMerges ==
  ASSUME MergeInv, TypeOK', NEW at \in Times, WriteCheckpoint(Draft(at))
  PROVE  Backwards' /\ MergeKeepsEdits'
<1>1. Draft(at) \in Contents
  BY DraftTyped DEF MergeInv
<1>2. Len(Draft(at).parents) # 2
  BY DEF Draft
<1> QED
  BY <1>1, <1>2, WriteMerges

LEMMA MergeStep ==
  ASSUME MergeInv, [Next]_vars
  PROVE  MergeInv'
<1> DEFINE Goal == Backwards' /\ MergeKeepsEdits'
<1>0. TypeOK /\ TablesFinite /\ TypeOK' /\ TablesFinite'
  BY TypeStep DEF MergeInv
<1>1. ASSUME NEW at \in Times, CommitHead(at) PROVE Goal
  BY <1>0, <1>1, CommitMerges DEF CommitHead
<1>2. ASSUME NEW b \in Branches, NEW at \in Times, CommitBranch(b, at) PROVE Goal
  BY <1>0, <1>2, CommitMerges DEF CommitBranch
<1>3. ASSUME NEW b \in Branches, NEW at \in Times, NEW h \in checkpoints, KernelMerge(h, b, at)
      PROVE  Goal
  BY <1>0, <1>3, MergeCommitMerges
<1>4. ASSUME contents' = contents PROVE Goal
  <2>1. lineage' = lineage
    BY <1>4 DEF lineage, Parents
  <2> QED
    BY <1>4, <2>1 DEF MergeInv, Backwards, MergeKeepsEdits, Parents, TreeOf
<1>5. ASSUME NEW r \in RefNames, Resume(r) PROVE Goal
  BY <1>4, <1>5 DEF Resume, store
<1>6. ASSUME NEW since, KernelCollect(since) PROVE Goal
  BY <1>4, <1>6 DEF KernelCollect, CollectGarbage
<1>8. ASSUME NEW b \in Branches, NEW at \in Times, NEW h \in checkpoints,
             CreateBranch(b, h, at) \/ \E ff \in BOOLEAN : UpdateBranch(b, h, at, ff)
      PROVE  Goal
  BY <1>4, <1>8 DEF CreateBranch, UpdateBranch, store
<1>9. ASSUME NEW b \in Branches, NEW at \in Times,
             DeleteBranch(b, at) \/ \E c \in Branches : RenameBranch(b, c, at)
      PROVE  Goal
  BY <1>4, <1>9 DEF DeleteBranch, RenameBranch, store
<1>10. ASSUME NEW s \in Slots, RemoveSlot(s) \/ \E p \in Payloads : PutSlot(s, p) PROVE Goal
  BY <1>4, <1>10 DEF RemoveSlot, PutSlot, store
<1>11. ASSUME NEW p \in Payloads, SpillBlob(p) \/ OpenPending(p) \/ ResolvePending(p)
       PROVE  Goal
  BY <1>4, <1>11 DEF SpillBlob, OpenPending, ResolvePending, store
<1>12. ASSUME NEW b \in Branches, NEW older, NEW grace, NEW max, PruneReflog(b, older, grace, max)
       PROVE  Goal
  BY <1>4, <1>12 DEF PruneReflog, store
<1>13. ASSUME UNCHANGED vars PROVE Goal
  BY <1>4, <1>13 DEF vars
<1>14. Goal
  <2> HIDE DEF Goal
  <2> QED
    BY <1>1, <1>2, <1>3, <1>5, <1>6, <1>8, <1>9, <1>10, <1>11, <1>12, <1>13, Zenon DEF Next
<1> QED
  BY <1>0, <1>14 DEF MergeInv

(* No merge loses an edit: whatever lineages were built and collected, a    *)
(* merge_commit that goes through found the one base that every common      *)
(* ancestor is behind, kept each slot as the side that changed it left it   *)
(* and changed no other.  It reads the ancestry over the rows that exist;   *)
(* that it is the whole history is what its walk check is for.              *)
THEOREM MergesKeepEdits == Spec => []MergeKeepsEdits
<1>1. Init => MergeInv
  <2> SUFFICES ASSUME Init PROVE MergeInv
    OBVIOUS
  <2>1. DOMAIN contents = {}
    BY DEF Init
  <2> QED
    BY <2>1, InitTyped DEF MergeInv, Backwards, MergeKeepsEdits
<1>2. MergeInv /\ [Next]_vars => MergeInv'
  BY MergeStep
<1>3. MergeInv => MergeKeepsEdits
  BY DEF MergeInv
<1> QED
  BY <1>1, <1>2, <1>3, PTL DEF Spec
=============================================================================
