-------------------------- MODULE ContinuityProofs --------------------------
(***************************************************************************)
(* What survives a session, for any number of writers, records and         *)
(* processes: an adoption takes a failed session's record exactly          *)
(* (Takeover), the journal keeps what it acknowledged (Journal), a server  *)
(* that is started is what was configured (ServerLaunch), and a dispatch   *)
(* has the user's consent (Consent).                                       *)
(***************************************************************************)
EXTENDS Takeover, Journal, Consent, ServerLaunch,
        FiniteSetTheorems, NaturalsInduction, WellFoundedInduction, TLAPS

(***************************************************************************)
(* Adoption.  A claim names the state it was drawn up in, and a failed     *)
(* session stays failed, so an admitted claim is about a record that no    *)
(* writer and no inspection changes any more.                              *)
(***************************************************************************)
Lease == [generation : Nat, epoch : Nat]

LeaseTypes ==
    /\ generation \in Nat /\ epoch \in Nat
    /\ leases \in [Writers -> SUBSET Lease] /\ by \in Seq(Lease)

\* Every record was written under a lease no newer than the session is now.
WrittenBefore ==
    \A i \in DOMAIN by : by[i].epoch <= epoch /\ by[i].generation <= generation

ClaimsDated == \A c \in claim : c.prior = "failed" => state = "failed"

AdoptedExact ==
    \A h \in adopted :
      /\ state = "failed" /\ NoRepeat(IdsOf(h)) /\ Ids(h) = Ids(evidence)
      /\ \A e \in Items(h) : e.status = StatusOf(e.id) /\ e.quarantined = (e.status = "unknown")

TakeoverInv ==
    LeaseTypes /\ WrittenBefore /\ WritesFenced /\ ClaimsDated /\ AdoptedExact

\* A step that changes no record and leaves a failed session failed.
LEMMA RecordKept ==
    ASSUME AdoptedExact, evidence' = evidence, adopted' = adopted,
           state = "failed" => state' = "failed"
    PROVE  AdoptedExact'
  <1>1. \A id : StatusOf(id)' = StatusOf(id)
    BY DEF StatusOf
  <1>2. Ids(evidence)' = Ids(evidence)
    BY DEF Ids, Items
  <1> QED
    BY <1>1, <1>2 DEF AdoptedExact

\* Time goes on: what was written stays written before.
LEMMA FencesKept ==
    ASSUME LeaseTypes, WrittenBefore, WritesFenced, by' = by,
           generation' \in Nat, epoch' \in Nat, generation <= generation', epoch <= epoch'
    PROVE  WrittenBefore' /\ WritesFenced'
  <1>1. \A i \in DOMAIN by : by[i].epoch \in Nat /\ by[i].generation \in Nat
    <2>1. \A i \in DOMAIN by : by[i] \in Lease
      BY DEF LeaseTypes
    <2> QED
      BY <2>1 DEF Lease
  <1> QED
    BY <1>1 DEF LeaseTypes, WrittenBefore, WritesFenced

LEMMA WriteFenced ==
    ASSUME TakeoverInv, NEW w \in Writers, NEW s, Write(w, s)
    PROVE  TakeoverInv'
  <1>1. PICK lease \in leases[w] : CheckWriter(lease) /\ by' = Append(by, lease)
    BY DEF Write
  <1>2. state = "active" /\ lease.generation = generation /\ lease.epoch = epoch
    BY <1>1 DEF CheckWriter
  <1>3. UNCHANGED <<state, generation, epoch, leases, claim, adopted>>
    BY DEF Write
  <1>4. lease \in Lease /\ by \in Seq(Lease)
    BY DEF TakeoverInv, LeaseTypes
  <1>5. /\ by' \in Seq(Lease) /\ DOMAIN by' = 1 .. (Len(by) + 1) /\ DOMAIN by = 1 .. Len(by)
        /\ Len(by) \in Nat /\ by'[Len(by) + 1] = lease
        /\ \A i \in 1 .. Len(by) : by'[i] = by[i]
    BY <1>1, <1>4
  <1>6. LeaseTypes'
    BY <1>3, <1>5 DEF TakeoverInv, LeaseTypes
  <1>7. generation \in Nat /\ epoch \in Nat
    BY DEF TakeoverInv, LeaseTypes
  <1>8. \A i \in 1 .. Len(by) : by[i].epoch <= epoch /\ by[i].generation <= generation
    BY <1>5 DEF TakeoverInv, WrittenBefore
  <1>9. WrittenBefore'
    BY <1>2, <1>3, <1>5, <1>7, <1>8 DEF WrittenBefore
  <1>10. WritesFenced'
    <2> SUFFICES ASSUME NEW i \in DOMAIN by', NEW j \in DOMAIN by', i < j
                 PROVE  by'[i].epoch <= by'[j].epoch /\ by'[i].generation <= by'[j].generation
      BY DEF WritesFenced
    <2>1. CASE j = Len(by) + 1
      BY <2>1, <1>2, <1>5, <1>8
    <2>2. CASE j # Len(by) + 1
      BY <2>2, <1>5 DEF TakeoverInv, WritesFenced
    <2> QED
      BY <2>1, <2>2
  <1>11. adopted = {}
    BY <1>2 DEF TakeoverInv, AdoptedExact
  <1> QED
    BY <1>3, <1>6, <1>9, <1>10, <1>11 DEF TakeoverInv, ClaimsDated, AdoptedExact

\* An admitted claim covers the record of a failed session once and whole.
LEMMA AdoptionIsExact ==
    ASSUME TakeoverInv, CheckAdoption
    PROVE  AdoptedExact'
  <1>1. evidence' = evidence /\ state' = state
    BY DEF CheckAdoption
  <1>2. PICK c \in claim : adopted' = IF Adoptable(c) THEN {AdoptedHistory(c)} ELSE {}
    BY DEF CheckAdoption
  <1>3. CASE ~Adoptable(c)
    BY <1>2, <1>3 DEF AdoptedExact
  <1>4. CASE Adoptable(c)
    <2> DEFINE h == AdoptedHistory(c)
    <2>1. /\ state = "failed" /\ NoRepeat(c.survivors)
          /\ Items(c.survivors) = Ids(evidence)
      BY <1>4 DEF Adoptable, Coverage, TakeoverInv, ClaimsDated
    <2>2. /\ DOMAIN h = DOMAIN c.survivors
          /\ \A i \in DOMAIN h : /\ h[i].id = c.survivors[i]
                                 /\ h[i].status = StatusOf(h[i].id)
                                 /\ h[i].quarantined = (h[i].status = "unknown")
      BY DEF AdoptedHistory
    <2> HIDE DEF h
    <2>3. NoRepeat(IdsOf(h))
      BY <2>1, <2>2 DEF NoRepeat, IdsOf
    <2>4. Ids(h) = Ids(evidence)
      <3>1. Ids(h) = Items(c.survivors)
        BY <2>2 DEF Ids, Items
      <3> QED
        BY <3>1, <2>1
    <2>5. \A e \in Items(h) : e.status = StatusOf(e.id) /\ e.quarantined = (e.status = "unknown")
      BY <2>2 DEF Items
    <2>6. adopted' = {h}
      BY <1>2, <1>4 DEF h
    <2> QED
      BY <1>1, <2>1, <2>3, <2>4, <2>5, <2>6 DEF AdoptedExact, StatusOf, Ids, Items
  <1> QED
    BY <1>3, <1>4

LEMMA TakeoverStep ==
    ASSUME TakeoverInv, [TakeoverNext]_takeoverVars
    PROVE  TakeoverInv'
  <1> USE DEF TakeoverInv
  <1>1. ASSUME NEW w \in Writers, IssueLease(w) PROVE TakeoverInv'
    <2>1. LeaseTypes'
      BY <1>1 DEF IssueLease, LeaseTypes, Lease
    <2>2. WrittenBefore' /\ WritesFenced'
      BY <1>1 DEF IssueLease, WrittenBefore, WritesFenced
    <2>3. ClaimsDated' /\ AdoptedExact'
      BY <1>1, RecordKept DEF IssueLease, ClaimsDated
    <2> QED
      BY <2>1, <2>2, <2>3
  <1>2. ASSUME NEW w \in Writers, NEW s \in Statuses, Write(w, s) PROVE TakeoverInv'
    BY <1>2, WriteFenced
  <1>3. CASE RotateGeneration \/ MoveEpoch
    <2>1. /\ UNCHANGED <<state, leases, evidence, by, claim, adopted>>
          /\ generation' \in Nat /\ epoch' \in Nat /\ generation <= generation' /\ epoch <= epoch'
      BY <1>3 DEF RotateGeneration, MoveEpoch, LeaseTypes
    <2>2. LeaseTypes' /\ WrittenBefore' /\ WritesFenced'
      BY <2>1, FencesKept DEF LeaseTypes
    <2>3. ClaimsDated' /\ AdoptedExact'
      BY <2>1, RecordKept DEF ClaimsDated
    <2> QED
      BY <2>2, <2>3
  <1>4. CASE CheckAdoption
    <2>1. /\ UNCHANGED <<state, generation, epoch, leases, evidence, by>> /\ claim' = {}
      BY <1>4 DEF CheckAdoption
    <2>2. AdoptedExact'
      BY <1>4, AdoptionIsExact
    <2> QED
      BY <2>1, <2>2 DEF LeaseTypes, WrittenBefore, WritesFenced, ClaimsDated
  <1>5. ASSUME NEW how, End(how) PROVE TakeoverInv'
    <2>1. /\ state = "active" /\ UNCHANGED <<generation, epoch, leases, evidence, by, claim, adopted>>
      BY <1>5 DEF End
    <2>2. ClaimsDated' /\ AdoptedExact'
      BY <2>1, RecordKept DEF ClaimsDated
    <2> QED
      BY <2>1, <2>2 DEF LeaseTypes, WrittenBefore, WritesFenced
  <1>6. ASSUME NEW i, NEW s, Settle(i, s) PROVE TakeoverInv'
    <2>1. /\ adopted = {} /\ UNCHANGED <<state, generation, epoch, leases, by, claim, adopted>>
      BY <1>6 DEF Settle
    <2> QED
      BY <2>1 DEF LeaseTypes, WrittenBefore, WritesFenced, ClaimsDated, AdoptedExact
  <1>7. ASSUME NEW survivors, NEW unknowns, DrawClaim(survivors, unknowns) PROVE TakeoverInv'
    <2>1. UNCHANGED <<state, generation, epoch, leases, evidence, by, adopted>>
          /\ \A c \in claim' : c.prior = state
      BY <1>7 DEF DrawClaim
    <2>2. AdoptedExact'
      BY <2>1, RecordKept
    <2> QED
      BY <2>1, <2>2 DEF LeaseTypes, WrittenBefore, WritesFenced, ClaimsDated
  <1>8. CASE UNCHANGED takeoverVars
    <2>1. AdoptedExact'
      BY <1>8, RecordKept DEF takeoverVars
    <2> QED
      BY <1>8, <2>1 DEF takeoverVars, LeaseTypes, WrittenBefore, WritesFenced, ClaimsDated
  <1> HIDE DEF TakeoverInv
  <1> QED
    BY <1>1, <1>2, <1>3, <1>4, <1>5, <1>6, <1>7, <1>8 DEF TakeoverNext

(* Whatever leases are out and however claims are drawn up, delayed or      *)
(* wrong, what check_adoption admits is the failed session's record, whole  *)
(* and once, and no fenced writer adds to it: records come in the order of  *)
(* the epochs and generations they were written under.                      *)
THEOREM AdoptionIsExactAlways == TakeoverSpec => []AdoptionExact
  <1>1. TakeoverInit => TakeoverInv
    BY DEF TakeoverInit, TakeoverInv, LeaseTypes, WrittenBefore, WritesFenced, ClaimsDated,
           AdoptedExact
  <1>2. TakeoverInv /\ [TakeoverNext]_takeoverVars => TakeoverInv'
    BY TakeoverStep
  <1>3. TakeoverInv => AdoptionExact
    BY DEF TakeoverInv, AdoptedExact, AdoptionExact
  <1> QED
    BY <1>1, <1>2, <1>3, PTL DEF TakeoverSpec

(***************************************************************************)
(* The journal.  Its locks admit one writer, so what was acknowledged is   *)
(* in the file under a sequence number no later append reuses.             *)
(***************************************************************************)
Step == {"closed", "create", "mark", "open"}
Lock == {"none", "shared", "exclusive"}

JournalTypes ==
    /\ file \in FileType /\ acked \in Seq(Row)
    /\ pc \in [Procs -> Step] /\ lock \in [Procs -> Lock]

\* An open journal is locked against all others, and no lock, no journal.
Locked ==
    /\ \A p \in Procs : pc[p] = "open" => lock[p] = "exclusive"
    /\ \A p \in Procs : lock[p] = "none" => pc[p] = "closed"
    /\ \A p, q \in Procs : (p # q /\ lock[p] = "exclusive") => lock[q] = "none"

AckedIn(f) ==
    /\ \A i \in DOMAIN acked : acked[i] \in f.rows
    /\ \A i, j \in DOMAIN acked : i < j => acked[i].seq < acked[j].seq

JournalInv ==
    JournalTypes /\ Locked /\ Keyed(file) /\ AckedIn(file) /\ gone = file.tombs

\* What a handle that goes leaves: its lock, and nothing else.
LEMMA DroppedLocked ==
    ASSUME JournalTypes, Locked, NEW p \in Procs, Dropped(p)
    PROVE  Locked' /\ pc' \in [Procs -> Step] /\ lock' \in [Procs -> Lock]
  BY DEF Dropped, Locked, JournalTypes, Step, Lock

\* A statement that touches neither rows nor tombstones.
LEMMA RowsKept ==
    ASSUME JournalInv, JournalTypes', Locked', acked' = acked, gone' = gone,
           file'.rows = file.rows, file'.next = file.next, file'.tombs = file.tombs
    PROVE  JournalInv'
  BY DEF JournalInv, Keyed, AckedIn

LEMMA OpenKept ==
    ASSUME JournalInv, NEW p \in Procs, OpenJournal(p)
    PROVE  JournalInv'
  <1>1. PICK next \in AdmitOrInitialize(file) : pc' = [pc EXCEPT ![p] = next]
    BY DEF OpenJournal
  <1>2. next \in {"create", "mark"}
    BY <1>1 DEF AdmitOrInitialize
  <1>3. /\ lock' = [lock EXCEPT ![p] = "shared"] /\ UNCHANGED <<file, acked, gone>>
        /\ \A q \in Procs : q # p => lock[q] # "exclusive"
    BY DEF OpenJournal, Admitted, CanRead, Others
  <1>4. JournalTypes'
    BY <1>1, <1>2, <1>3 DEF JournalInv, JournalTypes, Step, Lock
  <1>5. Locked'
    BY <1>1, <1>2, <1>3 DEF JournalInv, JournalTypes, Locked, Step, Lock
  <1> QED
    BY <1>3, <1>4, <1>5, RowsKept

LEMMA CreateKept ==
    ASSUME JournalInv, NEW p \in Procs, CreateTable(p)
    PROVE  JournalInv'
  <1> DEFINE left == {t \in RequiredTables : file.tables[t] = "none"}
             first == CHOOSE t \in left : \A u \in left : t <= u
  <1>1. UNCHANGED <<acked, gone>> /\ file \in FileType /\ pc[p] = "create"
    BY DEF CreateTable, JournalInv, JournalTypes
  <1>2. CASE ~CanWrite(p)
    <2>1. Dropped(p) /\ file' = file
      BY <1>2 DEF CreateTable
    <2> QED
      BY <1>1, <2>1, DroppedLocked, RowsKept DEF JournalInv, JournalTypes
  <1>3. CASE CanWrite(p) /\ left = {}
    <2>1. pc' = [pc EXCEPT ![p] = "mark"] /\ UNCHANGED <<file, lock>>
      BY <1>3 DEF CreateTable
    <2>2. JournalTypes'
      BY <2>1, <1>1 DEF JournalInv, JournalTypes, Step
    <2>3. Locked'
      BY <2>1, <1>1 DEF JournalInv, JournalTypes, Locked, Step, Lock
    <2> QED
      BY <1>1, <2>1, <2>2, <2>3, RowsKept
  <1>4. CASE CanWrite(p) /\ left # {}
    <2>1. /\ file' = [file EXCEPT !.tables[first] = "table"]
          /\ lock' = [lock EXCEPT ![p] = "exclusive"] /\ UNCHANGED pc
      BY <1>4 DEF CreateTable
    <2>2. \A q \in Procs : q # p => lock[q] = "none"
      BY <1>4 DEF CanWrite, Others
    <2> HIDE DEF first
    <2>3. file' \in FileType
      BY <1>1, <2>1 DEF FileType
    <2>4. file'.rows = file.rows /\ file'.next = file.next /\ file'.tombs = file.tombs
      BY <1>1, <2>1 DEF FileType
    <2>5. JournalTypes'
      BY <1>1, <2>1, <2>3 DEF JournalInv, JournalTypes, Lock
    <2>6. Locked'
      BY <1>1, <2>1, <2>2 DEF JournalInv, JournalTypes, Locked, Step, Lock
    <2> QED
      BY <1>1, <2>4, <2>5, <2>6, RowsKept
  <1> QED
    BY <1>2, <1>3, <1>4

LEMMA MarkKept ==
    ASSUME JournalInv, NEW p \in Procs, MarkProfile(p)
    PROVE  JournalInv'
  <1>1. UNCHANGED <<acked, gone>> /\ file \in FileType
    BY DEF MarkProfile, JournalInv, JournalTypes
  <1>2. CASE ~CanWrite(p)
    <2>1. Dropped(p) /\ file' = file
      BY <1>2 DEF MarkProfile
    <2> QED
      BY <1>1, <2>1, DroppedLocked, RowsKept DEF JournalInv, JournalTypes
  <1>3. CASE CanWrite(p)
    <2>1. /\ file' = [file EXCEPT !.profile = {"r6-prototype"}]
          /\ lock' = [lock EXCEPT ![p] = "exclusive"] /\ pc' = [pc EXCEPT ![p] = "open"]
      BY <1>3 DEF MarkProfile
    <2>2. \A q \in Procs : q # p => lock[q] = "none"
      BY <1>3 DEF CanWrite, Others
    <2>3. file' \in FileType
      <3> DEFINE marked == {"r6-prototype"}
      <3>1. marked \in SUBSET Profiles
        BY DEF Profiles
      <3>2. file' = [file EXCEPT !.profile = marked]
        BY <2>1
      <3> HIDE DEF marked
      <3> QED
        BY <1>1, <3>1, <3>2 DEF FileType
    <2>4. file'.rows = file.rows /\ file'.next = file.next /\ file'.tombs = file.tombs
      BY <1>1, <2>1 DEF FileType
    <2>5. JournalTypes'
      BY <1>1, <2>1, <2>3 DEF JournalInv, JournalTypes, Lock, Step
    <2>6. Locked'
      BY <2>1, <2>2 DEF JournalInv, JournalTypes, Locked, Step, Lock
    <2> QED
      BY <1>1, <2>4, <2>5, <2>6, RowsKept
  <1> QED
    BY <1>2, <1>3

\* An append takes a sequence number above every row's and an id of no row.
LEMMA AppendKept ==
    ASSUME JournalInv, NEW p \in Procs, NEW id \in RecordIds \cup BadIds, NEW told \in BOOLEAN,
           AppendRow(p, id, told)
    PROVE  JournalInv'
  <1> DEFINE row == [seq |-> file.next, id |-> id]
  <1>1. /\ file \in FileType /\ acked \in Seq(Row) /\ file.next \in Nat /\ file.rows \subseteq Row
        /\ gone = file.tombs
    BY DEF JournalInv, JournalTypes, FileType
  <1>2. row \in Row /\ row.seq = file.next /\ row.id = id
    BY <1>1 DEF Row
  <1>3. /\ file' = [file EXCEPT !.rows = @ \cup {row}, !.next = @ + 1]
        /\ acked' = IF told THEN Append(acked, row) ELSE acked
        /\ \A r \in file.rows : r.id # id
        /\ gone' = gone
    BY DEF AppendRow, Recorded
  <1> HIDE DEF row
  <1>4. file' \in FileType
    <2> DEFINE rows == file.rows \cup {row}
               next == file.next + 1
    <2>1. rows \in SUBSET Row /\ next \in Nat
      BY <1>1, <1>2
    <2>2. file' = [file EXCEPT !.rows = rows, !.next = next]
      BY <1>1, <1>3 DEF FileType
    <2> HIDE DEF rows, next
    <2> QED
      BY <1>1, <2>1, <2>2 DEF FileType
  <1>5. /\ file'.rows = file.rows \cup {row} /\ file'.next = file.next + 1
        /\ file'.tombs = file.tombs
    BY <1>1, <1>3 DEF FileType
  <1>6. Keyed(file) /\ AckedIn(file)
    BY DEF JournalInv
  <1>7. \A r \in file.rows : r.seq \in Nat /\ r.seq < file.next /\ r.id # id
    <2>1. \A r \in file.rows : r.seq \in Nat
      BY <1>1 DEF Row
    <2> QED
      BY <1>3, <1>6, <2>1 DEF Keyed
  <1>8. Keyed(file)'
    <2>1. \A r \in file'.rows : r.seq < file'.next
      BY <1>1, <1>2, <1>5, <1>7
    <2>2. ASSUME NEW r \in file'.rows, NEW q \in file'.rows, r.seq = q.seq \/ r.id = q.id
          PROVE  r = q
      <3>1. CASE r = row \/ q = row
        BY <2>2, <3>1, <1>1, <1>2, <1>5, <1>7
      <3>2. CASE r \in file.rows /\ q \in file.rows
        BY <2>2, <3>2, <1>6 DEF Keyed
      <3> QED
        BY <3>1, <3>2, <1>5
    <2> QED
      BY <2>1, <2>2 DEF Keyed
  <1>9. acked' \in Seq(Row) /\ AckedIn(file)'
    <2>1. CASE ~told
      BY <2>1, <1>1, <1>3, <1>5, <1>6 DEF AckedIn
    <2>2. CASE told
      <3>1. acked' = Append(acked, row)
        BY <2>2, <1>3
      <3>2. /\ acked' \in Seq(Row) /\ DOMAIN acked' = 1 .. (Len(acked) + 1)
            /\ DOMAIN acked = 1 .. Len(acked) /\ Len(acked) \in Nat
            /\ acked'[Len(acked) + 1] = row
            /\ \A i \in 1 .. Len(acked) : acked'[i] = acked[i]
        BY <3>1, <1>1, <1>2
      <3>3. \A i \in DOMAIN acked' : acked'[i] \in file'.rows
        BY <3>2, <1>5, <1>6 DEF AckedIn
      <3>4. ASSUME NEW i \in DOMAIN acked', NEW j \in DOMAIN acked', i < j
            PROVE  acked'[i].seq < acked'[j].seq
        <4>1. i \in 1 .. Len(acked) /\ acked'[i] = acked[i] /\ acked[i] \in file.rows
          BY <3>2, <3>4, <1>6 DEF AckedIn
        <4>2. CASE j = Len(acked) + 1
          BY <4>1, <4>2, <3>2, <1>2, <1>7
        <4>3. CASE j # Len(acked) + 1
          <5>1. j \in 1 .. Len(acked) /\ acked'[j] = acked[j]
            BY <4>3, <3>2
          <5> QED
            BY <4>1, <5>1, <3>2, <3>4, <1>6 DEF AckedIn
        <4> QED
          BY <4>2, <4>3
      <3> QED
        BY <3>2, <3>3, <3>4 DEF AckedIn
    <2> QED
      BY <2>1, <2>2
  <1>10. Locked' /\ pc' \in [Procs -> Step] /\ lock' \in [Procs -> Lock]
    <2>1. CASE told
      BY <2>1 DEF AppendRow, JournalInv, JournalTypes, Locked
    <2>2. CASE ~told
      <3>1. Dropped(p)
        BY <2>2 DEF AppendRow
      <3> QED
        BY <3>1, DroppedLocked DEF JournalInv
    <2> QED
      BY <2>1, <2>2
  <1> QED
    BY <1>1, <1>3, <1>4, <1>5, <1>8, <1>9, <1>10 DEF JournalInv, JournalTypes

LEMMA TombstoneKept ==
    ASSUME JournalInv, NEW p \in Procs, NEW id \in RecordIds \cup BadIds, Tombstone(p, id)
    PROVE  JournalInv'
  <1>1. /\ file \in FileType /\ gone = file.tombs
        /\ file' = [file EXCEPT !.tombs = @ \cup {id}]
        /\ gone' = gone \cup {id} /\ UNCHANGED <<pc, lock, acked>>
    BY DEF Tombstone, JournalInv, JournalTypes
  <1>2. file' \in FileType
    BY <1>1 DEF FileType
  <1>3. /\ file'.rows = file.rows /\ file'.next = file.next
        /\ file'.tombs = file.tombs \cup {id}
    BY <1>1 DEF FileType
  <1>4. JournalTypes' /\ Locked'
    BY <1>1, <1>2 DEF JournalInv, JournalTypes, Locked
  <1> QED
    BY <1>1, <1>3, <1>4 DEF JournalInv, Keyed, AckedIn

LEMMA JournalStep ==
    ASSUME JournalInv, [JournalNext]_journalVars
    PROVE  JournalInv'
  <1>1. ASSUME NEW p \in Procs, Die(p) PROVE JournalInv'
    <2>1. Dropped(p) /\ UNCHANGED <<file, acked, gone>>
      BY <1>1 DEF Die
    <2> QED
      BY <2>1, DroppedLocked, RowsKept DEF JournalInv, JournalTypes
  <1>2. CASE UNCHANGED journalVars
    BY <1>2 DEF journalVars, JournalInv, JournalTypes, Locked, Keyed, AckedIn
  <1> QED
    BY <1>1, <1>2, OpenKept, CreateKept, MarkKept, AppendKept, TombstoneKept DEF JournalNext

LEMMA JournalInvKept ==
    ASSUME JournalInv
    PROVE  JournalKept
  <1>1. file.rows \subseteq Row /\ file \in FileType
    BY DEF JournalInv, JournalTypes, FileType
  <1>2. \A r \in file.rows : r.seq \in Nat
    BY <1>1 DEF Row
  <1>3. /\ \A i \in DOMAIN acked : acked[i].id \notin gone => acked[i] \in ReadAll
        /\ \A i, j \in DOMAIN acked : i < j => ReadBefore(acked[i], acked[j])
    BY DEF JournalInv, AckedIn, ReadAll, ReadBefore
  <1>4. \A r \in ReadAll : r.id \notin gone
    BY DEF JournalInv, ReadAll
  <1>5. ASSUME NEW r \in ReadAll, NEW q \in ReadAll, r # q
        PROVE  r.id # q.id /\ (ReadBefore(r, q) \/ ReadBefore(q, r))
    <2>1. r \in file.rows /\ q \in file.rows
      BY DEF ReadAll
    <2>2. r.seq # q.seq /\ r.id # q.id
      BY <1>5, <2>1 DEF JournalInv, Keyed
    <2> QED
      BY <1>2, <2>1, <2>2 DEF ReadBefore
  <1>6. OneWriter
    BY DEF JournalInv, Locked, OneWriter
  <1> QED
    BY <1>3, <1>4, <1>5, <1>6 DEF JournalKept

(* For any number of processes, records and deaths, and whatever journal is *)
(* found at the path: an acknowledged append is read back, in order, until  *)
(* it is tombstoned, a tombstoned id never, an id once, and one process at  *)
(* a time has the journal open.                                             *)
THEOREM JournalKeptAlways == JournalSpec => []JournalKept
  <1>1. JournalInit => JournalInv
    <2> SUFFICES ASSUME JournalInit PROVE JournalInv
      OBVIOUS
    <2>1. file \in FileType /\ Keyed(file)
      BY JournalAssumption DEF JournalInit
    <2>2. acked = << >> /\ acked \in Seq(Row) /\ DOMAIN acked = {}
      BY DEF JournalInit
    <2>3. JournalTypes /\ Locked
      BY <2>1, <2>2 DEF JournalInit, JournalTypes, Locked, Step, Lock
    <2> QED
      BY <2>1, <2>2, <2>3 DEF JournalInit, JournalInv, AckedIn
  <1>2. JournalInv /\ [JournalNext]_journalVars => JournalInv'
    BY JournalStep
  <1>3. JournalInv => JournalKept
    BY JournalInvKept
  <1> QED
    BY <1>1, <1>2, <1>3, PTL DEF JournalSpec

(***************************************************************************)
(* Starting a server.  An attempt carries what it has found out, and what  *)
(* it carries holds until something changes under it: the bytes hashed so  *)
(* far are those of the file its path leads to, and once they were         *)
(* compared they are the pin.  A cooldown has counted the failures the     *)
(* history has, as long as either can count.                               *)
(***************************************************************************)
AllRefs == UNION {RefsOf(c) : c \in ServerConfigs}
NameSet == {r.name : r \in AllRefs}
ValueSet == {"v"} \cup UNION {Environment[r.name] : r \in {q \in AllRefs : q.kind = "env"}}

Outs == {"none", "value", "line", "empty", "nul", "bytes", "oversize", "unread"}
Helpers == [alive : BOOLEAN, out : Outs, ended : {"none", "success", "failure"},
            late : BOOLEAN, lost : BOOLEAN]
Pairs == [name : NameSet, value : ValueSet, from : SUBSET Helpers]
FileNodes == [kind : {"absent", "regular", "fifo"}, bytes : Seq(Nat), runs : BOOLEAN]

Attempts ==
    [config : ServerConfigs, stage : {"stat", "open", "hash", "creds", "helper"},
     path : SUBSET Dirs, handle : SUBSET DOMAIN Nodes, hashed : Seq(Nat), left : Seq(AllRefs),
     pairs : SUBSET Pairs, touched : BOOLEAN]

ServerTypes ==
    /\ ms \in Nat /\ links \in [Dirs -> DOMAIN Nodes] /\ nodes \in [DOMAIN Nodes -> FileNodes]
    /\ attempt \subseteq Attempts /\ (\A a, b \in attempt : a = b)
    /\ helper \in Helpers
    /\ roster \in [DOMAIN roster -> [failures : Nat, notBefore : Nat]] /\ DOMAIN roster \subseteq Servers
    /\ lapses \in [Servers -> [count : Nat, last : Nat]]

\* Where the value of a credential is from.
Sourced(p, c) ==
    \E r \in RefsOf(c) :
      /\ r.name = p.name
      /\ IF r.kind = "env" THEN p.value \in Environment[r.name] \ {""}
         ELSE \E h \in p.from : h.ended = "success" /\ h.out \in {"value", "line"}

\* The references are resolved, in pairs, or left, and the pairs are as configured.
Resolved(c, left, pairs) ==
    /\ {p.name : p \in pairs} \cup {left[i].name : i \in DOMAIN left} = {r.name : r \in RefsOf(c)}
    /\ {left[i] : i \in DOMAIN left} \subseteq RefsOf(c)
    /\ \A p \in pairs : Sourced(p, c)

Named(a) ==
    /\ Resolved(a.config, a.left, a.pairs)
    /\ a.stage = "helper" => a.left # <<>> /\ Head(a.left).kind # "env"

Prefix(h, b) == Len(h) <= Len(b) /\ \A i \in 1 .. Len(h) : h[i] = b[i]

Verified(a) ==
    /\ \A d, e \in a.path : d = e
    /\ a.stage \in {"stat", "open"} => a.hashed = <<>>
    /\ Len(a.hashed) <= MaxBinary
    /\ a.stage = "hash" =>
         /\ a.path # {} /\ a.handle # {}
         /\ ~a.touched => \A d \in a.path : a.handle = {links[d]} /\ Prefix(a.hashed, Here(d).bytes)
    /\ a.stage \in {"creds", "helper"} /\ a.config.pin # {} =>
         /\ a.path # {} /\ a.config.pin = {a.hashed}
         /\ ~a.touched => \A d \in a.path : Here(d).bytes = a.hashed

AttemptsTrue == \A a \in attempt : a.config.id \in DOMAIN roster /\ Named(a) /\ Verified(a)

HelperKept ==
    /\ helper.alive => helper.lost \/ \E a \in attempt : a.stage = "helper"
    /\ helper.ended # "none" => ~helper.alive

Wait(n) == IF Base * 2^n <= Cap THEN Base * 2^n ELSE Cap

Cooled(s) ==
    LET n == lapses[s].count
        last == lapses[s].last
    IN  /\ n <= MaxFailures + 1 /\ roster[s].failures = (IF n <= MaxFailures THEN n ELSE MaxFailures)
        /\ n = 0 => roster[s].notBefore = 0
        /\ n # 0 => /\ roster[s].notBefore >= last + Wait(n - 1) \/ roster[s].notBefore >= LastMs
                    /\ roster[s].notBefore <= last + Cap

Cooldowns ==
    /\ \A s \in DOMAIN roster : Cooled(s)
    /\ \A s \in Servers \ DOMAIN roster : lapses[s].count = 0

Spawned ==
    \A s \in server :
      /\ \A pin \in s.config.pin : /\ s.hashed = pin /\ Len(pin) <= MaxBinary /\ s.verified = {s.path}
                                   /\ s.touched \/ s.bytes = pin
      /\ {p.name : p \in s.pairs} = {r.name : r \in RefsOf(s.config)}
      /\ \A p \in s.pairs : Sourced(p, s.config)

ServerInv == ServerTypes /\ AttemptsTrue /\ HelperKept /\ Cooldowns /\ Spawned

LEMMA LeastNatural ==
    ASSUME NEW S \in SUBSET Nat, S # {}
    PROVE  \E n \in S : \A x \in S : n <= x
  <1>1. PICK n \in S : \A x \in S : <<x, n>> \notin OpToRel(<, Nat)
    BY NatLessThanWellFounded, WFMin, Zenon
  <1>2. ASSUME NEW x \in S, x < n
        PROVE  FALSE
    <2>1. <<x, n>> \in OpToRel(<, Nat)
      BY <1>2 DEF OpToRel
    <2> QED
      BY <2>1, <1>1
  <1> QED
    BY <1>2

LEMMA LesserOf ==
    ASSUME NEW m \in Nat, NEW n \in Nat
    PROVE  Min({m, n}) = IF m <= n THEN m ELSE n
  <1> DEFINE S == {m, n}
             k == IF m <= n THEN m ELSE n
  <1>1. k \in S /\ \A y \in S : k <= y
    OBVIOUS
  <1>2. \A x \in S : (\A y \in S : x <= y) => x = k
    OBVIOUS
  <1>3. Min(S) \in S /\ \A y \in S : Min(S) <= y
    <2> HIDE DEF S, k
    <2> QED
      BY <1>1 DEF Min
  <1> HIDE DEF S, k
  <1>4. Min(S) = k
    BY <1>2, <1>3
  <1> QED
    BY <1>4 DEF S, k

\* The shift stops where the cap is reached, so it shortens no wait.
LEMMA BackoffWaits ==
    ASSUME NEW f \in 0 .. MaxFailures
    PROVE  /\ Backoff(f) \in Nat /\ Wait(f) \in Nat
           /\ Wait(f) <= Backoff(f) /\ Backoff(f) <= Cap
  <1> DEFINE s == IF f <= MaxShift THEN f ELSE MaxShift
             b == Base * 2^s
  <1>1. Base \in Nat /\ Cap \in Nat /\ MaxShift \in Nat /\ Base * 2^MaxShift >= Cap
    BY ServerAssumption
  <1>2. Min({f, MaxShift}) = s /\ s \in Nat
    BY <1>1, LesserOf
  <1>3. 2^s \in Nat /\ 2^f \in Nat
    <2>1. s \in 0 .. MaxShift + MaxFailures /\ f \in 0 .. MaxShift + MaxFailures
      BY <1>1, ServerAssumption
    <2> HIDE DEF s
    <2> QED
      BY <2>1, ServerAssumption
  <1>4. b \in Nat /\ Base * 2^f \in Nat
    <2> HIDE DEF s
    <2> QED
      BY <1>1, <1>3
  <1>5. f <= MaxShift => b = Base * 2^f
    OBVIOUS
  <1>6. ~ f <= MaxShift => b >= Cap
    BY <1>1
  <1> HIDE DEF s, b
  <1>7. Backoff(f) = IF b <= Cap THEN b ELSE Cap
    <2>1. Backoff(f) = Min({b, Cap})
      BY <1>2 DEF Backoff, b
    <2> QED
      BY <1>1, <1>4, <2>1, LesserOf
  <1> DEFINE w == Base * 2^f
  <1>8. Wait(f) = IF w <= Cap THEN w ELSE Cap
    BY DEF Wait
  <1>9. w \in Nat /\ (f <= MaxShift => b = w)
    BY <1>4, <1>5
  <1> HIDE DEF w
  <1> QED
    BY <1>1, <1>4, <1>6, <1>7, <1>8, <1>9

\* What the failure of an attempt leaves of the roster and the history.
LEMMA GaveUp ==
    ASSUME ServerInv, NEW a, a.config.id \in DOMAIN roster, GiveUp(a)
    PROVE  /\ attempt' = {} /\ UNCHANGED <<ms, links, nodes>> /\ Cooldowns'
           /\ roster' \in [DOMAIN roster' -> [failures : Nat, notBefore : Nat]]
           /\ DOMAIN roster' = DOMAIN roster
           /\ lapses' \in [Servers -> [count : Nat, last : Nat]]
  <1> DEFINE id == a.config.id
             f == roster[id].failures
             n == lapses[id].count
  <1>1. /\ roster \in [DOMAIN roster -> [failures : Nat, notBefore : Nat]] /\ DOMAIN roster \subseteq Servers
        /\ lapses \in [Servers -> [count : Nat, last : Nat]] /\ ms \in Nat
        /\ Cooldowns /\ id \in DOMAIN roster
    BY DEF ServerInv, ServerTypes
  <1>2. /\ attempt' = {} /\ UNCHANGED <<ms, links, nodes>>
        /\ roster' = [roster EXCEPT ![id] = RecordFailure(roster[id])] /\ lapses' = Lapsed(id)
    BY DEF GiveUp
  <1>3. f \in Nat /\ n \in Nat /\ roster[id] \in [failures : Nat, notBefore : Nat]
        /\ LastMs \in Nat /\ MaxFailures \in Nat /\ Cap \in Nat
    BY <1>1, ServerAssumption
  <1>4. Cooled(id) /\ n <= MaxFailures + 1 /\ f = (IF n <= MaxFailures THEN n ELSE MaxFailures)
    BY <1>1 DEF Cooldowns, Cooled
  <1> DEFINE nb == Min({ms + Backoff(f), LastMs})
             m == Min({n + 1, MaxFailures + 1})
             g == Min({f + 1, MaxFailures})
  <1>5. Backoff(f) \in Nat /\ Wait(f) \in Nat /\ Wait(f) <= Backoff(f) /\ Backoff(f) <= Cap
    <2>1. f \in 0 .. MaxFailures
      BY <1>3, <1>4
    <2> HIDE DEF f
    <2> QED
      BY <2>1, BackoffWaits
  <1>6. /\ nb = (IF ms + Backoff(f) <= LastMs THEN ms + Backoff(f) ELSE LastMs)
        /\ m = (IF n + 1 <= MaxFailures + 1 THEN n + 1 ELSE MaxFailures + 1)
        /\ g = (IF f + 1 <= MaxFailures THEN f + 1 ELSE MaxFailures)
    <2> HIDE DEF f, n
    <2>1. /\ ms + Backoff(f) \in Nat /\ n + 1 \in Nat /\ f + 1 \in Nat /\ MaxFailures + 1 \in Nat
          /\ LastMs \in Nat /\ MaxFailures \in Nat
      BY <1>1, <1>3, <1>5
    <2> QED
      BY <2>1, LesserOf
  <1>7. RecordFailure(roster[id]) = [failures |-> g, notBefore |-> nb]
    BY DEF RecordFailure
  <1>8. lapses' = [lapses EXCEPT ![id] = [count |-> m, last |-> ms]]
    BY <1>2 DEF Lapsed
  <1> HIDE DEF f, n, nb, m, g
  <1>9. /\ nb \in Nat /\ m \in Nat /\ g \in Nat /\ m - 1 = f /\ m # 0 /\ m <= MaxFailures + 1
        /\ g = (IF m <= MaxFailures THEN m ELSE MaxFailures)
        /\ nb >= ms + Wait(m - 1) \/ nb >= LastMs
        /\ nb <= ms + Cap
    <2>1. nb \in Nat /\ nb <= ms + Cap /\ (nb >= ms + Wait(f) \/ nb >= LastMs)
      BY <1>1, <1>3, <1>5, <1>6
    <2>2. m \in Nat /\ g \in Nat /\ m - 1 = f /\ m # 0 /\ m <= MaxFailures + 1
          /\ g = (IF m <= MaxFailures THEN m ELSE MaxFailures)
      BY <1>3, <1>4, <1>6
    <2> QED
      BY <2>1, <2>2
  <1>10. roster' = [roster EXCEPT ![id] = [failures |-> g, notBefore |-> nb]]
    BY <1>2, <1>7
  <1>11. /\ roster' \in [DOMAIN roster' -> [failures : Nat, notBefore : Nat]] /\ DOMAIN roster' = DOMAIN roster
         /\ lapses' \in [Servers -> [count : Nat, last : Nat]]
    BY <1>1, <1>8, <1>9, <1>10
  <1>12. Cooled(id)'
    <2>1. id \in Servers /\ lapses'[id] = [count |-> m, last |-> ms] /\ roster'[id] = [failures |-> g, notBefore |-> nb]
      BY <1>1, <1>8, <1>10
    <2>2. /\ lapses'[id].count = m /\ lapses'[id].last = ms
          /\ roster'[id].failures = g /\ roster'[id].notBefore = nb
      BY <2>1
    <2> HIDE DEF id
    <2> QED
      BY <1>9, <2>2 DEF Cooled, Wait
  <1>13. \A s \in DOMAIN roster \ {id} : Cooled(s)'
    <2>1. \A s \in DOMAIN roster \ {id} : lapses'[s] = lapses[s] /\ roster'[s] = roster[s]
      BY <1>1, <1>8, <1>10
    <2> QED
      BY <1>1, <2>1 DEF Cooldowns, Cooled
  <1>14. Cooldowns'
    BY <1>1, <1>8, <1>11, <1>12, <1>13 DEF Cooldowns
  <1> QED
    BY <1>2, <1>11, <1>14

\* The two ways an attempt goes on.
LEMMA Proceeded ==
    ASSUME ServerInv, NEW a \in Attempts, a.config.id \in DOMAIN roster, Named(a), Verified(a), Proceed(a),
           helper' \in Helpers, helper'.alive => helper'.lost \/ a.stage = "helper",
           helper'.ended # "none" => ~helper'.alive, server' \in {server, {}}
    PROVE  ServerInv'
  <1>1. attempt' = {a} /\ UNCHANGED <<roster, ms, links, nodes, lapses>>
    BY DEF Proceed
  <1>2. ServerTypes'
    BY <1>1 DEF ServerInv, ServerTypes
  <1>3. AttemptsTrue'
    <2>1. Verified(a)'
      BY <1>1 DEF Verified, Here
    <2> QED
      BY <1>1, <2>1 DEF AttemptsTrue
  <1>4. HelperKept'
    BY <1>1 DEF HelperKept
  <1>5. Cooldowns'
    BY <1>1 DEF ServerInv, Cooldowns, Cooled
  <1>6. Spawned'
    BY DEF ServerInv, Spawned
  <1> QED
    BY <1>2, <1>3, <1>4, <1>5, <1>6 DEF ServerInv

LEMMA Ended ==
    ASSUME ServerInv, NEW a, a.config.id \in DOMAIN roster, GiveUp(a),
           helper' \in Helpers, helper'.alive => helper'.lost,
           helper'.ended # "none" => ~helper'.alive, server' \in {server, {}}
    PROVE  ServerInv'
  <1>1. /\ attempt' = {} /\ UNCHANGED <<ms, links, nodes>> /\ Cooldowns'
        /\ roster' \in [DOMAIN roster' -> [failures : Nat, notBefore : Nat]]
        /\ DOMAIN roster' = DOMAIN roster
        /\ lapses' \in [Servers -> [count : Nat, last : Nat]]
    BY GaveUp
  <1>2. ServerTypes'
    BY <1>1 DEF ServerInv, ServerTypes
  <1>3. AttemptsTrue' /\ HelperKept'
    BY <1>1 DEF AttemptsTrue, HelperKept
  <1>4. Spawned'
    BY DEF ServerInv, Spawned
  <1> QED
    BY <1>1, <1>2, <1>3, <1>4 DEF ServerInv

\* What is known of the attempt under way.
LEMMA AttemptKnown ==
    ASSUME ServerInv, NEW a \in attempt
    PROVE  /\ a \in Attempts /\ a.config.id \in DOMAIN roster /\ Named(a) /\ Verified(a)
           /\ attempt = {a} /\ helper \in Helpers /\ (helper.ended # "none" => ~helper.alive)
           /\ (a.stage # "helper" => (helper.alive => helper.lost))
           /\ links \in [Dirs -> DOMAIN Nodes] /\ nodes \in [DOMAIN Nodes -> FileNodes]
  <1>1. a \in Attempts /\ a.config.id \in DOMAIN roster /\ Named(a) /\ Verified(a) /\ helper \in Helpers
    BY DEF ServerInv, ServerTypes, AttemptsTrue
  <1>2. attempt = {a}
    BY DEF ServerInv, ServerTypes
  <1>3. /\ helper.ended # "none" => ~helper.alive
        /\ a.stage # "helper" => (helper.alive => helper.lost)
    BY <1>2 DEF ServerInv, HelperKept
  <1> QED
    BY <1>1, <1>2, <1>3 DEF ServerInv, ServerTypes

LEMMA FirstOfDirs ==
    ASSUME NEW S \in SUBSET Dirs
    PROVE  First(S) \subseteq Dirs /\ \A d, e \in First(S) : d = e
  <1>1. CASE S = {}
    BY <1>1 DEF First
  <1>2. CASE S # {}
    <2>1. S \in SUBSET Nat
      BY ServerAssumption
    <2>2. PICK n \in S : \A x \in S : n <= x
      BY <1>2, <2>1, LeastNatural
    <2>3. Min(S) \in S
      BY <2>2 DEF Min
    <2> QED
      BY <1>2, <2>3 DEF First
  <1> QED
    BY <1>1, <1>2

LEMMA NoHelperTyped == NoHelper \in Helpers /\ ~NoHelper.alive /\ NoHelper.ended = "none"
  BY DEF NoHelper, Helpers, Outs

LEMMA BeginKept ==
    ASSUME ServerInv, NEW c \in ServerConfigs, BeginLaunch(c)
    PROVE  ServerInv'
  <1> DEFINE path == IF c.pin = {} THEN {} ELSE ResolveProgramPath
             stage == IF c.pin = {} THEN "creds" ELSE "stat"
             a == [config |-> c, stage |-> stage, path |-> path,
                   handle |-> {}, hashed |-> <<>>, left |-> c.refs, pairs |-> {}, touched |-> FALSE]
  <1>1. /\ MayConnect(c.id) /\ (Proceed(a) \/ GiveUp(a)) /\ helper' = NoHelper /\ server' = {}
    BY DEF BeginLaunch
  <1>2. c.id \in DOMAIN roster
    BY <1>1 DEF MayConnect
  <1>3. path \in SUBSET Dirs /\ \A d, e \in path : d = e
    <2>1. {d \in Dirs : Here(d).kind = "regular"} \in SUBSET Dirs
      OBVIOUS
    <2> QED
      BY <2>1, FirstOfDirs DEF ResolveProgramPath
  <1>4. c.refs \in Seq(AllRefs) /\ {c.refs[i] : i \in DOMAIN c.refs} = RefsOf(c)
    <2>1. c.refs \in Seq(RefsOf(c)) /\ RefsOf(c) \subseteq AllRefs
      BY ServerAssumption DEF AllRefs
    <2> QED
      BY <2>1 DEF RefsOf
  <1>5. stage \in {"stat", "creds"} /\ (stage = "creds" => c.pin = {}) /\ <<>> \in Seq(Nat)
    OBVIOUS
  <1> HIDE DEF path, stage
  <1>6. a \in Attempts
    BY <1>3, <1>4, <1>5 DEF Attempts
  <1>7. /\ a.config = c /\ a.stage = stage /\ a.path = path /\ a.hashed = <<>> /\ a.left = c.refs
        /\ a.pairs = {}
    OBVIOUS
  <1> HIDE DEF a
  <1>8. Named(a)
    <2>1. {c.refs[i].name : i \in DOMAIN c.refs} = {r.name : r \in RefsOf(c)}
      BY DEF RefsOf
    <2>2. {p.name : p \in {}} = {}
      OBVIOUS
    <2> QED
      BY <1>4, <1>5, <1>7, <2>1, <2>2 DEF Named, Resolved
  <1>9. Verified(a)
    BY <1>3, <1>5, <1>7, ServerAssumption DEF Verified
  <1> QED
    BY <1>1, <1>2, <1>6, <1>7, <1>8, <1>9, NoHelperTyped, Proceeded, Ended

LEMMA PrefixGrows ==
    ASSUME NEW h \in Seq(Nat), NEW b \in Seq(Nat), Prefix(h, b), Len(h) < Len(b)
    PROVE  Prefix(Append(h, b[Len(h) + 1]), b)
  <1> DEFINE g == Append(h, b[Len(h) + 1])
  <1>1. Len(g) = Len(h) + 1 /\ g[Len(h) + 1] = b[Len(h) + 1] /\ \A i \in 1 .. Len(h) : g[i] = h[i]
    OBVIOUS
  <1> HIDE DEF g
  <1>2. \A i \in 1 .. Len(g) : g[i] = b[i]
    <2> SUFFICES ASSUME NEW i \in 1 .. Len(g) PROVE g[i] = b[i]
      OBVIOUS
    <2>1. Len(h) \in Nat /\ \A j \in 1 .. Len(h) : h[j] = b[j]
      BY DEF Prefix
    <2>2. i \in 1 .. Len(h) \/ i = Len(h) + 1
      BY <1>1, <2>1
    <2> QED
      BY <1>1, <2>1, <2>2
  <1>3. Len(g) <= Len(b)
    BY <1>1
  <1>4. Prefix(g, b)
    BY <1>2, <1>3 DEF Prefix
  <1> QED
    BY <1>4 DEF g

LEMMA PrefixWhole ==
    ASSUME NEW h \in Seq(Nat), NEW b \in Seq(Nat), Prefix(h, b), ~ Len(h) < Len(b)
    PROVE  h = b
  <1>1. Len(h) = Len(b) /\ \A i \in 1 .. Len(h) : h[i] = b[i]
    BY DEF Prefix
  <1>2. h = [i \in 1 .. Len(h) |-> h[i]] /\ b = [i \in 1 .. Len(b) |-> b[i]]
    OBVIOUS
  <1>3. [i \in 1 .. Len(h) |-> h[i]] = [i \in 1 .. Len(b) |-> b[i]]
    BY <1>1
  <1> QED
    BY <1>2, <1>3, Zenon

LEMMA StatKept ==
    ASSUME ServerInv, StatPinned
    PROVE  ServerInv'
  <1>1. PICK a \in attempt :
          /\ a.stage = "stat" /\ UNCHANGED <<helper, server>>
          /\ Proceed([a EXCEPT !.stage = "open"]) \/ GiveUp(a)
    BY DEF StatPinned
  <1>2. /\ a \in Attempts /\ a.config.id \in DOMAIN roster /\ Named(a) /\ Verified(a) /\ helper \in Helpers
        /\ (helper.ended # "none" => ~helper.alive) /\ (helper.alive => helper.lost)
    BY <1>1, AttemptKnown
  <1> DEFINE b == [a EXCEPT !.stage = "open"]
  <1>3. b \in Attempts /\ b.config.id \in DOMAIN roster
    BY <1>2 DEF Attempts
  <1>4. /\ b.stage = "open" /\ b.config = a.config /\ b.path = a.path /\ b.hashed = a.hashed
        /\ b.left = a.left /\ b.pairs = a.pairs
    BY <1>2 DEF Attempts
  <1> HIDE DEF b
  <1>5. Named(b) /\ Verified(b)
    BY <1>1, <1>2, <1>4 DEF Named, Verified
  <1>6. CASE Proceed(b)
    BY <1>1, <1>2, <1>3, <1>5, <1>6, Proceeded
  <1>7. CASE GiveUp(a)
    BY <1>1, <1>2, <1>7, Ended
  <1> QED
    BY <1>1, <1>6, <1>7 DEF b

LEMMA OpenKeptPinned ==
    ASSUME ServerInv, OpenPinned
    PROVE  ServerInv'
  <1>1. PICK a \in attempt :
          /\ a.stage = "open" /\ UNCHANGED <<helper, server>>
          /\ \/ (\E d \in a.path : Hashable(links[d]))
                /\ Proceed([a EXCEPT !.stage = "hash", !.handle = {links[d] : d \in a.path}])
             \/ GiveUp(a)
    BY DEF OpenPinned
  <1>2. /\ a \in Attempts /\ a.config.id \in DOMAIN roster /\ Named(a) /\ Verified(a) /\ helper \in Helpers
        /\ (helper.ended # "none" => ~helper.alive) /\ (helper.alive => helper.lost)
        /\ links \in [Dirs -> DOMAIN Nodes] /\ nodes \in [DOMAIN Nodes -> FileNodes]
    BY <1>1, AttemptKnown
  <1> DEFINE hs == {links[d] : d \in a.path}
             b == [a EXCEPT !.stage = "hash", !.handle = hs]
  <1>3. CASE (\E d \in a.path : Hashable(links[d])) /\ Proceed(b)
    <2>1. PICK d \in a.path : Hashable(links[d])
      BY <1>3
    <2>2. a.path \subseteq Dirs /\ a.path = {d} /\ d \in Dirs
      BY <1>2, <2>1 DEF Attempts, Verified
    <2>3. hs = {links[d]} /\ hs \in SUBSET DOMAIN Nodes
      BY <1>2, <2>2
    <2>4. a.hashed = <<>>
      BY <1>1, <1>2 DEF Verified
    <2>5. b \in Attempts /\ b.config.id \in DOMAIN roster
      BY <1>2, <2>3 DEF Attempts
    <2>6. /\ b.stage = "hash" /\ b.handle = hs /\ b.config = a.config /\ b.path = a.path /\ b.hashed = <<>>
          /\ b.left = a.left /\ b.pairs = a.pairs
      BY <1>2, <2>4 DEF Attempts
    <2>7. Proceed(b)
      BY <1>3
    <2> HIDE DEF b, hs
    <2>8. Named(b)
      BY <1>2, <2>6 DEF Named
    <2>9. Here(d).bytes \in Seq(Nat)
      BY <1>2, <2>2 DEF Here, FileNodes
    <2>10. Prefix(<<>>, Here(d).bytes)
      BY <2>9 DEF Prefix
    <2>11. Verified(b)
      BY <2>2, <2>3, <2>6, <2>10, ServerAssumption DEF Verified
    <2> QED
      BY <1>1, <1>2, <2>5, <2>7, <2>8, <2>11, Proceeded
  <1>4. CASE GiveUp(a)
    BY <1>1, <1>2, <1>4, Ended
  <1> QED
    BY <1>1, <1>3, <1>4

LEMMA HashKept ==
    ASSUME ServerInv, HashPinned
    PROVE  ServerInv'
  <1>0. PICK a \in attempt : \E node \in a.handle :
          /\ a.stage = "hash"
          /\ LET read == Streamed(a, nodes[node].bytes) IN
             IF \E h \in read : Len(h) > MaxBinary THEN GiveUp(a)
             ELSE IF read # {} THEN \E h \in read : Proceed([a EXCEPT !.hashed = h])
             ELSE IF a.config.pin = {a.hashed} THEN Proceed([a EXCEPT !.stage = "creds"]) ELSE GiveUp(a)
    BY DEF HashPinned
  <1>1. PICK node \in a.handle :
          /\ a.stage = "hash" /\ UNCHANGED <<helper, server>>
          /\ \/ GiveUp(a)
             \/ /\ Len(a.hashed) < Len(nodes[node].bytes) /\ Len(a.hashed) + 1 <= MaxBinary
                /\ Proceed([a EXCEPT !.hashed = Append(a.hashed, nodes[node].bytes[Len(a.hashed) + 1])])
             \/ /\ ~ Len(a.hashed) < Len(nodes[node].bytes) /\ a.config.pin = {a.hashed}
                /\ Proceed([a EXCEPT !.stage = "creds"])
    <2>1. PICK node \in a.handle :
            /\ a.stage = "hash"
            /\ LET read == Streamed(a, nodes[node].bytes) IN
               IF \E h \in read : Len(h) > MaxBinary THEN GiveUp(a)
               ELSE IF read # {} THEN \E h \in read : Proceed([a EXCEPT !.hashed = h])
               ELSE IF a.config.pin = {a.hashed} THEN Proceed([a EXCEPT !.stage = "creds"]) ELSE GiveUp(a)
      BY <1>0
    <2>2. UNCHANGED <<helper, server>>
      BY DEF HashPinned
    <2> DEFINE h == Append(a.hashed, nodes[node].bytes[Len(a.hashed) + 1])
    <2>3. a.hashed \in Seq(Nat) /\ MaxBinary \in Nat
      BY AttemptKnown, ServerAssumption DEF Attempts
    <2>4. Len(h) = Len(a.hashed) + 1 /\ Len(a.hashed) \in Nat
      BY <2>3
    <2>5. CASE Len(a.hashed) < Len(nodes[node].bytes)
      <3>1. Streamed(a, nodes[node].bytes) = {h}
        BY <2>5 DEF Streamed
      <3> HIDE DEF h
      <3>2. (IF Len(h) > MaxBinary THEN GiveUp(a) ELSE Proceed([a EXCEPT !.hashed = h]))
        BY <2>1, <3>1
      <3>3. Len(h) > MaxBinary \/ Len(a.hashed) + 1 <= MaxBinary
        BY <2>3, <2>4
      <3> QED
        BY <2>1, <2>2, <2>5, <3>2, <3>3 DEF h
    <2>6. CASE ~ Len(a.hashed) < Len(nodes[node].bytes)
      <3>1. Streamed(a, nodes[node].bytes) = {}
        BY <2>6 DEF Streamed
      <3> QED
        BY <2>1, <2>2, <2>6, <3>1
    <2> QED
      BY <2>5, <2>6
  <1>2. /\ a \in Attempts /\ a.config.id \in DOMAIN roster /\ Named(a) /\ Verified(a) /\ helper \in Helpers
        /\ (helper.ended # "none" => ~helper.alive) /\ (helper.alive => helper.lost)
        /\ links \in [Dirs -> DOMAIN Nodes] /\ nodes \in [DOMAIN Nodes -> FileNodes]
    BY <1>1, AttemptKnown
  <1> DEFINE bytes == nodes[node].bytes
             n == Len(a.hashed)
  <1>3. a.hashed \in Seq(Nat) /\ n \in Nat /\ bytes \in Seq(Nat) /\ Len(bytes) \in Nat /\ n <= MaxBinary
    BY <1>2 DEF Attempts, FileNodes, Verified
  <1>4. /\ a.path # {} /\ (\A d, e \in a.path : d = e)
        /\ ~a.touched => \A d \in a.path : a.handle = {links[d]} /\ Here(d).bytes = bytes /\ Prefix(a.hashed, bytes)
    BY <1>1, <1>2 DEF Verified, Here
  <1>5. CASE n < Len(bytes) /\ n + 1 <= MaxBinary /\ Proceed([a EXCEPT !.hashed = Append(a.hashed, bytes[n + 1])])
    <2> DEFINE h == Append(a.hashed, bytes[n + 1])
               b == [a EXCEPT !.hashed = h]
    <2>1. h \in Seq(Nat) /\ Len(h) = n + 1 /\ h[n + 1] = bytes[n + 1] /\ \A i \in 1 .. n : h[i] = a.hashed[i]
      BY <1>3, <1>5
    <2>2. Prefix(a.hashed, bytes) => Prefix(h, bytes)
      <3> HIDE DEF bytes
      <3> QED
        BY <1>3, <1>5, PrefixGrows
    <2>3. Proceed(b)
      BY <1>5
    <2> HIDE DEF h
    <2>4. b \in Attempts /\ b.config.id \in DOMAIN roster
      BY <1>2, <2>1 DEF Attempts
    <2>5. /\ b.stage = "hash" /\ b.handle = a.handle /\ b.config = a.config /\ b.path = a.path /\ b.hashed = h
          /\ b.left = a.left /\ b.pairs = a.pairs /\ b.touched = a.touched
      BY <1>1, <1>2 DEF Attempts
    <2> HIDE DEF b
    <2>6. Named(b)
      BY <1>1, <1>2, <2>5 DEF Named
    <2>7. Verified(b)
      BY <1>1, <1>4, <1>5, <2>1, <2>2, <2>5 DEF Verified
    <2> QED
      BY <1>1, <1>2, <2>3, <2>4, <2>6, <2>7, Proceeded
  <1>6. CASE ~ n < Len(bytes) /\ a.config.pin = {a.hashed} /\ Proceed([a EXCEPT !.stage = "creds"])
    <2> DEFINE b == [a EXCEPT !.stage = "creds"]
    <2>1. Prefix(a.hashed, bytes) => a.hashed = bytes
      <3> HIDE DEF bytes
      <3> QED
        BY <1>3, <1>6, PrefixWhole
    <2>2. Proceed(b)
      BY <1>6
    <2>3. b \in Attempts /\ b.config.id \in DOMAIN roster
      BY <1>2 DEF Attempts
    <2>4. /\ b.stage = "creds" /\ b.config = a.config /\ b.path = a.path /\ b.hashed = a.hashed
          /\ b.left = a.left /\ b.pairs = a.pairs /\ b.touched = a.touched
      BY <1>1, <1>2 DEF Attempts
    <2> HIDE DEF b
    <2>5. Named(b)
      BY <1>1, <1>2, <2>4 DEF Named
    <2>6. Verified(b)
      BY <1>3, <1>4, <1>6, <2>1, <2>4 DEF Verified
    <2> QED
      BY <1>1, <1>2, <2>2, <2>3, <2>5, <2>6, Proceeded
  <1>7. CASE GiveUp(a)
    BY <1>1, <1>2, <1>7, Ended
  <1> QED
    BY <1>1, <1>5, <1>6, <1>7

Members(s) == {s[i] : i \in DOMAIN s}

LEMMA HeadAndTail ==
    ASSUME NEW S, NEW s \in Seq(S), s # <<>>
    PROVE  /\ Head(s) \in S /\ Tail(s) \in Seq(S)
           /\ Members(s) = {Head(s)} \cup Members(Tail(s))
  <1> DEFINE t == Tail(s)
  <1>1. /\ Head(s) = s[1] /\ Len(s) \in Nat \ {0} /\ DOMAIN s = 1 .. Len(s) /\ Head(s) \in S
        /\ t \in Seq(S) /\ Len(t) = Len(s) - 1 /\ DOMAIN t = 1 .. Len(t)
        /\ \A i \in 1 .. Len(s) - 1 : t[i] = s[i + 1]
    OBVIOUS
  <1>2. ASSUME NEW i \in DOMAIN s
        PROVE  s[i] = Head(s) \/ \E j \in DOMAIN t : s[i] = t[j]
    <2>1. i = 1 \/ (i - 1 \in DOMAIN t /\ i - 1 \in 1 .. Len(s) - 1 /\ (i - 1) + 1 = i)
      BY <1>1
    <2> HIDE DEF t
    <2> QED
      BY <1>1, <2>1
  <1>3. ASSUME NEW j \in DOMAIN t
        PROVE  \E i \in DOMAIN s : t[j] = s[i]
    <2>1. j + 1 \in DOMAIN s /\ j \in 1 .. Len(s) - 1
      BY <1>1
    <2> HIDE DEF t
    <2> QED
      BY <1>1, <2>1
  <1>4. 1 \in DOMAIN s
    BY <1>1
  <1> HIDE DEF t
  <1>5. {s[i] : i \in DOMAIN s} = {Head(s)} \cup {t[i] : i \in DOMAIN t}
    BY <1>1, <1>2, <1>3, <1>4
  <1> QED
    BY <1>1, <1>5 DEF t, Members
\* The next reference is settled.
LEMMA PairedKept ==
    ASSUME NEW a \in Attempts, a.left # <<>>, Resolved(a.config, a.left, a.pairs), Verified(a),
           a.stage \in {"creds", "helper"}, NEW v \in ValueSet, NEW from \in SUBSET Helpers,
           IF Head(a.left).kind = "env" THEN v \in Environment[Head(a.left).name] \ {""}
           ELSE \E h \in from : h.ended = "success" /\ h.out \in {"value", "line"}
    PROVE  /\ Paired(a, v, from) \in Attempts /\ Paired(a, v, from).config = a.config
           /\ Named(Paired(a, v, from)) /\ Verified(Paired(a, v, from))
           /\ Paired(a, v, from).stage = "creds"
  <1> DEFINE r == Head(a.left)
             new == [name |-> r.name, value |-> v, from |-> from]
             ps == {p \in a.pairs : p.name # r.name} \cup {new}
             b == Paired(a, v, from)
  <1>1. a.left \in Seq(AllRefs) /\ a.pairs \subseteq Pairs /\ a.config \in ServerConfigs
    BY DEF Attempts
  <1>2. /\ r \in AllRefs /\ Tail(a.left) \in Seq(AllRefs)
        /\ {a.left[i] : i \in DOMAIN a.left} = {r} \cup {Tail(a.left)[i] : i \in DOMAIN Tail(a.left)}
    <2> DEFINE l == a.left
    <2>1. l \in Seq(AllRefs) /\ l # <<>>
      BY <1>1
    <2> HIDE DEF l
    <2>2. /\ Head(l) \in AllRefs /\ Tail(l) \in Seq(AllRefs)
          /\ Members(l) = {Head(l)} \cup Members(Tail(l))
      BY <2>1, HeadAndTail
    <2> QED
      BY <2>2 DEF l, Members
  <1>3. new \in Pairs /\ new.name = r.name /\ new.value = v /\ new.from = from
    BY <1>2 DEF Pairs, NameSet
  <1>4. Sourced(new, a.config)
    <2>1. r \in RefsOf(a.config)
      BY <1>2 DEF Resolved
    <2> HIDE DEF new, r
    <2> QED
      BY <1>3, <2>1 DEF Sourced, r
  <1>5. Resolved(a.config, Tail(a.left), ps)
    <2> DEFINE t == Tail(a.left)
               L == {a.left[i] : i \in DOMAIN a.left}
               T == {t[i] : i \in DOMAIN t}
    <2>1. L = {r} \cup T
      BY <1>2
    <2>2. {a.left[i].name : i \in DOMAIN a.left} = {x.name : x \in L}
      OBVIOUS
    <2>3. {t[i].name : i \in DOMAIN t} = {x.name : x \in T}
      OBVIOUS
    <2>a. /\ {p.name : p \in a.pairs} \cup {x.name : x \in L} = {x.name : x \in RefsOf(a.config)}
          /\ L \subseteq RefsOf(a.config) /\ \A p \in a.pairs : Sourced(p, a.config)
      BY <2>2 DEF Resolved
    <2> HIDE DEF L, T, new, r, t
    <2>4. {p.name : p \in ps} = {p.name : p \in a.pairs} \cup {r.name}
      BY <1>3
    <2>5. {x.name : x \in L} = {r.name} \cup {x.name : x \in T}
      BY <2>1
    <2>6. {p.name : p \in ps} \cup {x.name : x \in T} = {x.name : x \in RefsOf(a.config)}
      BY <2>a, <2>4, <2>5
    <2>7. \A p \in ps : Sourced(p, a.config)
      BY <1>4, <2>a
    <2>8. T \subseteq RefsOf(a.config)
      BY <2>1, <2>a
    <2> HIDE DEF ps
    <2>9. Resolved(a.config, t, ps)
      BY <2>3, <2>6, <2>7, <2>8 DEF Resolved, T
    <2> QED
      BY <2>9 DEF t
  <1>6. b = [a EXCEPT !.stage = "creds", !.left = Tail(a.left), !.pairs = ps]
    BY DEF Paired
  <1>7. ps \in SUBSET Pairs
    BY <1>1, <1>3
  <1> HIDE DEF ps, b
  <1>8. b \in Attempts
    BY <1>2, <1>6, <1>7 DEF Attempts
  <1>9. /\ b.stage = "creds" /\ b.left = Tail(a.left) /\ b.pairs = ps /\ b.config = a.config
        /\ b.path = a.path /\ b.hashed = a.hashed /\ b.touched = a.touched
    BY <1>6 DEF Attempts
  <1>10. Named(b)
    BY <1>5, <1>9 DEF Named
  <1>11. Verified(b)
    BY <1>9 DEF Verified
  <1> QED
    BY <1>8, <1>9, <1>10, <1>11 DEF b

LEMMA NextRefKept ==
    ASSUME ServerInv, NextRef
    PROVE  ServerInv'
  <1>1. PICK a \in attempt :
          /\ a.stage = "creds" /\ a.left # <<>> /\ UNCHANGED server
          /\ IF Head(a.left).kind = "env"
             THEN /\ UNCHANGED helper
                  /\ LET value == Environment[Head(a.left).name] \ {""} IN
                     IF value = {} THEN GiveUp(a) ELSE \E v \in value : Proceed(Paired(a, v, {}))
             ELSE \/ Proceed([a EXCEPT !.stage = "helper"]) /\ helper' = [NoHelper EXCEPT !.alive = TRUE]
                  \/ GiveUp(a) /\ UNCHANGED helper
    BY Zenon DEF NextRef
  <1>2. /\ a \in Attempts /\ a.config.id \in DOMAIN roster /\ Named(a) /\ Verified(a) /\ helper \in Helpers
        /\ (helper.ended # "none" => ~helper.alive) /\ (helper.alive => helper.lost)
    BY <1>1, AttemptKnown
  <1>3. CASE GiveUp(a) /\ UNCHANGED helper
    BY <1>1, <1>2, <1>3, Ended
  <1>4. CASE Head(a.left).kind = "env" /\ UNCHANGED helper
             /\ \E v \in Environment[Head(a.left).name] \ {""} : Proceed(Paired(a, v, {}))
    <2>1. PICK v \in Environment[Head(a.left).name] \ {""} : Proceed(Paired(a, v, {}))
      BY <1>4
    <2>2. v \in ValueSet
      <3>1. Head(a.left) \in AllRefs
        <4>1. a.left \in Seq(AllRefs)
          BY <1>2 DEF Attempts
        <4> QED
          BY <1>1, <4>1, HeadAndTail
      <3> QED
        BY <1>4, <2>1, <3>1 DEF ValueSet
    <2>3. Resolved(a.config, a.left, a.pairs)
      BY <1>2 DEF Named
    <2> DEFINE b == Paired(a, v, {})
    <2>4. b \in Attempts /\ b.config = a.config /\ Named(b) /\ Verified(b)
      BY <1>1, <1>2, <1>4, <2>1, <2>2, <2>3, PairedKept
    <2> HIDE DEF b
    <2> QED
      BY <1>1, <1>2, <1>4, <2>1, <2>4, Proceeded DEF b
  <1>5. CASE /\ Head(a.left).kind # "env" /\ Proceed([a EXCEPT !.stage = "helper"])
             /\ helper' = [NoHelper EXCEPT !.alive = TRUE]
    <2> DEFINE b == [a EXCEPT !.stage = "helper"]
    <2>1. Proceed(b)
      BY <1>5
    <2>2. b \in Attempts /\ b.config = a.config
      BY <1>2 DEF Attempts
    <2>3. /\ b.stage = "helper" /\ b.path = a.path /\ b.hashed = a.hashed
          /\ b.left = a.left /\ b.pairs = a.pairs /\ b.touched = a.touched
      BY <1>1, <1>2 DEF Attempts
    <2> HIDE DEF b
    <2>4. Named(b) /\ Verified(b)
      BY <1>1, <1>2, <1>5, <2>2, <2>3 DEF Named, Verified
    <2>5. helper' \in Helpers /\ helper'.ended = "none"
      BY <1>5 DEF NoHelper, Helpers, Outs
    <2> QED
      BY <1>1, <1>2, <2>1, <2>2, <2>3, <2>4, <2>5, Proceeded
  <1> QED
    BY <1>1, <1>3, <1>4, <1>5

\* The first check that fails decides.
LEMMA FirstDecides ==
    ASSUME NEW checks, DOMAIN checks \subseteq Nat, Verdict(checks) # "ok"
    PROVE  \E i \in DOMAIN checks :
             /\ i \in Failing(checks) /\ Verdict(checks) = checks[i][2]
             /\ \A j \in Failing(checks) : i <= j
  <1>1. Failing(checks) # {} /\ Failing(checks) \in SUBSET Nat /\ Failing(checks) \subseteq DOMAIN checks
    BY DEF Verdict, Failing
  <1>2. PICK n \in Failing(checks) : \A x \in Failing(checks) : n <= x
    BY <1>1, LeastNatural
  <1>3. /\ Min(Failing(checks)) \in Failing(checks)
        /\ \A x \in Failing(checks) : Min(Failing(checks)) <= x
    BY <1>2 DEF Min
  <1> QED
    BY <1>1, <1>3 DEF Verdict

LEMMA HelperJudged ==
    ASSUME helper \in Helpers
    PROVE  /\ HelperVerdict = "take" => helper.ended = "success" /\ helper.out \in {"value", "line"}
           /\ HelperVerdict = "refuse" => helper.ended # "none"
  <1> DEFINE checks == << <<helper.out = "unread" \/ helper.out = "oversize", "kill">>,
                          <<helper.out # "none" /\ helper.ended = "failure", "refuse">>,
                          <<helper.out \in {"nul", "bytes", "empty"} /\ helper.ended = "success", "refuse">>,
                          <<helper.out # "none" /\ helper.ended = "success", "take">>,
                          <<helper.late, "kill">> >>
  <1>1. HelperVerdict = Verdict(checks)
    BY DEF HelperVerdict
  <1>2. DOMAIN checks = 1 .. 5
    OBVIOUS
  <1>3. /\ checks[1][2] = "kill" /\ checks[2][2] = "refuse" /\ checks[3][2] = "refuse"
        /\ checks[4][2] = "take" /\ checks[5][2] = "kill"
    OBVIOUS
  <1>a. (helper.out = "unread" \/ helper.out = "oversize") => checks[1][1]
    OBVIOUS
  <1>b. checks[2][1] => helper.ended = "failure"
    OBVIOUS
  <1>c. (helper.out \in {"nul", "bytes", "empty"} /\ helper.ended = "success") => checks[3][1]
    OBVIOUS
  <1>d. checks[3][1] => helper.ended = "success"
    OBVIOUS
  <1>e. checks[4][1] => helper.out # "none" /\ helper.ended = "success"
    OBVIOUS
  <1>4. /\ (helper.out = "unread" \/ helper.out = "oversize") => 1 \in Failing(checks)
        /\ 2 \in Failing(checks) => helper.ended = "failure"
        /\ (helper.out \in {"nul", "bytes", "empty"} /\ helper.ended = "success") => 3 \in Failing(checks)
        /\ 3 \in Failing(checks) => helper.ended = "success"
        /\ 4 \in Failing(checks) => helper.out # "none" /\ helper.ended = "success"
    <2> HIDE DEF checks
    <2> QED
      BY <1>2, <1>a, <1>b, <1>c, <1>d, <1>e DEF Failing
  <1> HIDE DEF checks
  <1>5. ASSUME Verdict(checks) # "ok"
        PROVE  \E i \in 1 .. 5 : /\ i \in Failing(checks) /\ Verdict(checks) = checks[i][2]
                                /\ \A j \in Failing(checks) : i <= j
    <2>1. DOMAIN checks \subseteq Nat
      BY <1>2
    <2> QED
      BY <1>2, <1>5, <2>1, FirstDecides
  <1>6. ASSUME Verdict(checks) = "take"
        PROVE  4 \in Failing(checks) /\ 1 \notin Failing(checks) /\ 3 \notin Failing(checks)
    BY <1>3, <1>5, <1>6
  <1>7. ASSUME Verdict(checks) = "refuse"
        PROVE  2 \in Failing(checks) \/ 3 \in Failing(checks)
    BY <1>3, <1>5, <1>7
  <1>8. helper.out \in Outs
    BY DEF Helpers
  <1> QED
    BY <1>1, <1>4, <1>6, <1>7, <1>8 DEF Outs

LEMMA PollKept ==
    ASSUME ServerInv, PollHelper
    PROVE  ServerInv'
  <1>1. PICK a \in attempt :
          /\ a.stage = "helper" /\ UNCHANGED server
          /\ \/ /\ HelperVerdict = "take"
                /\ Proceed(Paired(a, "v", {helper})) /\ UNCHANGED helper
             \/ /\ HelperVerdict = "refuse" /\ GiveUp(a) /\ UNCHANGED helper
             \/ /\ HelperVerdict = "kill" /\ GiveUp(a) /\ helper' = [helper EXCEPT !.alive = FALSE]
             \/ /\ helper.ended = "none" /\ GiveUp(a) /\ helper' = [helper EXCEPT !.lost = TRUE]
    BY Zenon DEF PollHelper
  <1>2. /\ a \in Attempts /\ a.config.id \in DOMAIN roster /\ Named(a) /\ Verified(a) /\ helper \in Helpers
        /\ (helper.ended # "none" => ~helper.alive)
    BY <1>1, AttemptKnown
  <1>3. /\ HelperVerdict = "take" => helper.ended = "success" /\ helper.out \in {"value", "line"}
        /\ HelperVerdict = "refuse" => helper.ended # "none"
    BY <1>2, HelperJudged
  <1>4. CASE HelperVerdict = "take" /\ Proceed(Paired(a, "v", {helper})) /\ UNCHANGED helper
    <2>1. "v" \in ValueSet /\ {helper} \in SUBSET Helpers
      BY <1>2 DEF ValueSet
    <2>2. Resolved(a.config, a.left, a.pairs) /\ a.left # <<>> /\ Head(a.left).kind # "env"
      BY <1>1, <1>2 DEF Named
    <2> DEFINE b == Paired(a, "v", {helper})
    <2>3. \E h \in {helper} : h.ended = "success" /\ h.out \in {"value", "line"}
      BY <1>3, <1>4
    <2>4. b \in Attempts /\ b.config = a.config /\ Named(b) /\ Verified(b)
      BY <1>1, <1>2, <2>1, <2>2, <2>3, PairedKept
    <2>5. ~helper.alive
      BY <1>2, <1>3, <1>4
    <2> HIDE DEF b
    <2> QED
      BY <1>1, <1>2, <1>4, <2>4, <2>5, Proceeded DEF b
  <1>5. CASE HelperVerdict = "refuse" /\ GiveUp(a) /\ UNCHANGED helper
    BY <1>1, <1>2, <1>3, <1>5, Ended
  <1>6. CASE GiveUp(a) /\ helper' = [helper EXCEPT !.alive = FALSE]
    <2>1. helper' \in Helpers /\ ~helper'.alive
      BY <1>2, <1>6 DEF Helpers
    <2> QED
      BY <1>1, <1>2, <1>6, <2>1, Ended
  <1>7. CASE helper.ended = "none" /\ GiveUp(a) /\ helper' = [helper EXCEPT !.lost = TRUE]
    <2>1. helper' \in Helpers /\ helper'.lost /\ helper'.ended = "none"
      BY <1>2, <1>7 DEF Helpers
    <2> QED
      BY <1>1, <1>2, <1>7, <2>1, Ended
  <1> QED
    BY <1>1, <1>4, <1>5, <1>6, <1>7

\* Only the roster, the clock, the attempt or the helper moves.
LEMMA HelperStepKept ==
    ASSUME ServerInv, HelperStep
    PROVE  ServerInv'
  <1>1. /\ \E a \in attempt : a.stage = "helper"
        /\ UNCHANGED <<roster, ms, links, nodes, attempt, server, lapses>>
    BY DEF HelperStep
  <1>2. helper \in Helpers /\ (helper.ended # "none" => ~helper.alive)
    BY DEF ServerInv, ServerTypes, HelperKept
  <1>3. helper' \in Helpers /\ (helper'.ended # "none" => ~helper'.alive)
    <2>1. CASE \E kind \in {"value", "line", "empty", "nul", "bytes", "oversize", "unread"} :
                 helper.out = "none" /\ helper' = [helper EXCEPT !.out = kind]
      <3>1. PICK kind \in Outs : helper' = [helper EXCEPT !.out = kind]
        BY <2>1 DEF Outs
      <3> QED
        BY <1>2, <3>1 DEF Helpers
    <2>2. CASE \E how \in {"success", "failure"} :
                 helper.alive /\ helper' = [helper EXCEPT !.ended = how, !.alive = FALSE]
      BY <1>2, <2>2 DEF Helpers
    <2>3. CASE ~helper.late /\ helper' = [helper EXCEPT !.late = TRUE]
      BY <1>2, <2>3 DEF Helpers
    <2> QED
      BY <2>1, <2>2, <2>3 DEF HelperStep
  <1>4. ServerTypes'
    BY <1>1, <1>3 DEF ServerInv, ServerTypes
  <1>5. AttemptsTrue'
    BY <1>1 DEF ServerInv, AttemptsTrue, Verified, Here
  <1>6. HelperKept'
    BY <1>1, <1>3 DEF HelperKept
  <1>7. Cooldowns'
    BY <1>1 DEF ServerInv, Cooldowns, Cooled
  <1>8. Spawned'
    BY <1>1 DEF ServerInv, Spawned
  <1> QED
    BY <1>4, <1>5, <1>6, <1>7, <1>8 DEF ServerInv

LEMMA TickMsKept ==
    ASSUME ServerInv, TickMs
    PROVE  ServerInv'
  <1>1. ms' = ms + 1 /\ UNCHANGED <<roster, links, nodes, attempt, helper, server, lapses>>
    BY DEF TickMs
  <1>2. ServerTypes'
    BY <1>1 DEF ServerInv, ServerTypes
  <1>3. AttemptsTrue' /\ HelperKept'
    BY <1>1 DEF ServerInv, AttemptsTrue, HelperKept, Verified, Here
  <1>4. Cooldowns' /\ Spawned'
    BY <1>1 DEF ServerInv, Cooldowns, Cooled, Spawned
  <1> QED
    BY <1>2, <1>3, <1>4 DEF ServerInv

LEMMA RegisterServerKept ==
    ASSUME ServerInv, NEW s \in Servers, RegisterServer(s)
    PROVE  ServerInv'
  <1>1. /\ s \notin DOMAIN roster
        /\ roster' = [id \in DOMAIN roster \cup {s} |-> IF id = s THEN Fresh ELSE roster[id]]
        /\ UNCHANGED <<ms, links, nodes, attempt, helper, server, lapses>>
    BY DEF RegisterServer
  <1>2. /\ roster \in [DOMAIN roster -> [failures : Nat, notBefore : Nat]] /\ DOMAIN roster \subseteq Servers
        /\ Cooldowns
    BY DEF ServerInv, ServerTypes
  <1>3. /\ DOMAIN roster' = DOMAIN roster \cup {s} /\ roster'[s] = Fresh
        /\ \A id \in DOMAIN roster : roster'[id] = roster[id]
    BY <1>1
  <1>4. roster' \in [DOMAIN roster' -> [failures : Nat, notBefore : Nat]] /\ DOMAIN roster' \subseteq Servers
    BY <1>1, <1>2 DEF Fresh
  <1>5. ServerTypes'
    BY <1>1, <1>4 DEF ServerInv, ServerTypes
  <1>6. AttemptsTrue' /\ HelperKept'
    BY <1>1, <1>3 DEF ServerInv, AttemptsTrue, HelperKept, Verified, Here
  <1>7. Cooldowns'
    <2>1. lapses'[s].count = 0
      BY <1>1, <1>2 DEF Cooldowns
    <2>2. Cooled(s)'
      BY <1>3, <2>1, ServerAssumption DEF Cooled, Fresh
    <2>3. \A id \in DOMAIN roster : Cooled(id)'
      BY <1>1, <1>2, <1>3 DEF Cooldowns, Cooled
    <2> QED
      BY <1>1, <1>2, <1>3, <2>2, <2>3 DEF Cooldowns
  <1>8. Spawned'
    BY <1>1 DEF ServerInv, Spawned
  <1> QED
    BY <1>5, <1>6, <1>7, <1>8 DEF ServerInv

\* A file that changes under an attempt is what it no longer vouches for.
LEMMA TouchedKept ==
    ASSUME ServerInv, attempt' = Touched, UNCHANGED <<roster, ms, helper, server, lapses>>,
           links' \in [Dirs -> DOMAIN Nodes], nodes' \in [DOMAIN Nodes -> FileNodes]
    PROVE  ServerInv'
  <1>1. ASSUME NEW a \in attempt
        PROVE  LET b == [a EXCEPT !.touched = TRUE] IN
               /\ b \in Attempts /\ b.config = a.config /\ b.stage = a.stage
               /\ b.config.id \in DOMAIN roster /\ Named(b) /\ Verified(b)'
    <2> DEFINE b == [a EXCEPT !.touched = TRUE]
    <2>1. a \in Attempts /\ a.config.id \in DOMAIN roster /\ Named(a) /\ Verified(a)
      BY AttemptKnown
    <2>2. b \in Attempts
      BY <2>1 DEF Attempts
    <2>3. /\ b.config = a.config /\ b.stage = a.stage /\ b.path = a.path /\ b.hashed = a.hashed
          /\ b.left = a.left /\ b.pairs = a.pairs /\ b.handle = a.handle /\ b.touched
      BY <2>1 DEF Attempts
    <2> HIDE DEF b
    <2>4. Named(b)
      BY <2>1, <2>3 DEF Named
    <2>5. Verified(b)'
      BY <2>1, <2>3 DEF Verified
    <2> QED
      BY <2>1, <2>2, <2>3, <2>4, <2>5 DEF b
  <1>2. \A b \in attempt' : \E a \in attempt : b = [a EXCEPT !.touched = TRUE]
    BY DEF Touched
  <1>3. \A a \in attempt : [a EXCEPT !.touched = TRUE] \in attempt'
    BY DEF Touched
  <1>4. attempt' \subseteq Attempts
    BY <1>1, <1>2
  <1>5. ASSUME NEW b \in attempt', NEW c \in attempt'
        PROVE  b = c
    <2>1. PICK a \in attempt : b = [a EXCEPT !.touched = TRUE]
      BY <1>2
    <2>2. PICK e \in attempt : c = [e EXCEPT !.touched = TRUE]
      BY <1>2
    <2>3. a = e
      BY DEF ServerInv, ServerTypes
    <2> QED
      BY <2>1, <2>2, <2>3
  <1>6. ServerTypes'
    BY <1>4, <1>5 DEF ServerInv, ServerTypes
  <1>7. AttemptsTrue'
    <2>1. ASSUME NEW b \in attempt'
          PROVE  b.config.id \in DOMAIN roster /\ Named(b) /\ Verified(b)'
      <3>1. PICK a \in attempt : b = [a EXCEPT !.touched = TRUE]
        BY <1>2
      <3> QED
        BY <1>1, <3>1
    <2> QED
      BY <2>1 DEF AttemptsTrue
  <1>8. HelperKept'
    BY <1>1, <1>3 DEF ServerInv, HelperKept
  <1>9. Cooldowns' /\ Spawned'
    BY DEF ServerInv, Cooldowns, Cooled, Spawned
  <1> QED
    BY <1>6, <1>7, <1>8, <1>9 DEF ServerInv

LEMMA RelinkKept ==
    ASSUME ServerInv, Relink
    PROVE  ServerInv'
  BY TouchedKept, ServerAssumption DEF Relink, ServerInv, ServerTypes

LEMMA RewriteKept ==
    ASSUME ServerInv, NEW node \in DOMAIN Nodes, Rewrite(node, 1)
    PROVE  ServerInv'
  <1>1. /\ nodes' = [nodes EXCEPT ![node].bytes = Append(@, 1)] /\ attempt' = Touched
        /\ UNCHANGED <<roster, ms, links, helper, server, lapses>>
    BY DEF Rewrite
  <1>2. links \in [Dirs -> DOMAIN Nodes] /\ nodes \in [DOMAIN Nodes -> FileNodes]
    BY DEF ServerInv, ServerTypes
  <1>3. nodes[node] \in FileNodes /\ nodes[node].bytes \in Seq(Nat)
    BY <1>2 DEF FileNodes
  <1>4. Append(nodes[node].bytes, 1) \in Seq(Nat)
    BY <1>3
  <1>5. nodes' \in [DOMAIN Nodes -> FileNodes]
    BY <1>1, <1>2, <1>3, <1>4 DEF FileNodes
  <1> QED
    BY <1>1, <1>2, <1>5, TouchedKept

LEMMA SpawnKept ==
    ASSUME ServerInv, SpawnChild
    PROVE  ServerInv'
  <1>1. PICK a \in attempt :
          /\ a.stage = "creds" /\ a.left = <<>>
          /\ \/ \E d \in Program(a) :
                  /\ server' = {[config |-> a.config, bytes |-> Here(d).bytes, hashed |-> a.hashed, path |-> d,
                                 verified |-> a.path, pairs |-> a.pairs, touched |-> a.touched]}
                  /\ attempt' = {} /\ roster' = [roster EXCEPT ![a.config.id] = Fresh]
                  /\ lapses' = [lapses EXCEPT ![a.config.id] = [count |-> 0, last |-> 0]]
                  /\ UNCHANGED <<ms, links, nodes>>
             \/ GiveUp(a) /\ UNCHANGED server
    BY Zenon DEF SpawnChild
  <1>2. UNCHANGED helper
    BY DEF SpawnChild
  <1>3. /\ a \in Attempts /\ a.config.id \in DOMAIN roster /\ Named(a) /\ Verified(a) /\ helper \in Helpers
        /\ (helper.ended # "none" => ~helper.alive) /\ (helper.alive => helper.lost)
    BY <1>1, AttemptKnown
  <1>4. CASE GiveUp(a) /\ UNCHANGED server
    BY <1>2, <1>3, <1>4, Ended
  <1>5. ASSUME NEW d \in Program(a),
               server' = {[config |-> a.config, bytes |-> Here(d).bytes, hashed |-> a.hashed, path |-> d,
                           verified |-> a.path, pairs |-> a.pairs, touched |-> a.touched]},
               attempt' = {}, roster' = [roster EXCEPT ![a.config.id] = Fresh],
               lapses' = [lapses EXCEPT ![a.config.id] = [count |-> 0, last |-> 0]],
               UNCHANGED <<ms, links, nodes>>
        PROVE  ServerInv'
    <2> DEFINE id == a.config.id
               s == [config |-> a.config, bytes |-> Here(d).bytes, hashed |-> a.hashed, path |-> d,
                     verified |-> a.path, pairs |-> a.pairs, touched |-> a.touched]
    <2>1. /\ roster \in [DOMAIN roster -> [failures : Nat, notBefore : Nat]] /\ DOMAIN roster \subseteq Servers
          /\ lapses \in [Servers -> [count : Nat, last : Nat]] /\ Cooldowns
      BY DEF ServerInv, ServerTypes
    <2>2. /\ roster' \in [DOMAIN roster' -> [failures : Nat, notBefore : Nat]] /\ DOMAIN roster' = DOMAIN roster
          /\ lapses' \in [Servers -> [count : Nat, last : Nat]]
      BY <1>5, <2>1 DEF Fresh
    <2>3. ServerTypes'
      BY <1>2, <1>5, <2>1, <2>2 DEF ServerInv, ServerTypes
    <2>4. AttemptsTrue' /\ HelperKept'
      BY <1>2, <1>3, <1>5 DEF AttemptsTrue, HelperKept
    <2>5. Cooldowns'
      <3>1. /\ roster'[id] = Fresh /\ lapses'[id] = [count |-> 0, last |-> 0]
            /\ \A o \in DOMAIN roster \ {id} : lapses'[o] = lapses[o] /\ roster'[o] = roster[o]
            /\ \A o \in Servers \ DOMAIN roster : lapses'[o] = lapses[o]
        BY <1>3, <1>5, <2>1
      <3> HIDE DEF id
      <3>2. Cooled(id)'
        BY <3>1, ServerAssumption DEF Cooled, Fresh
      <3>3. \A o \in DOMAIN roster \ {id} : Cooled(o)'
        BY <2>1, <3>1 DEF Cooldowns, Cooled
      <3> QED
        BY <2>1, <2>2, <3>1, <3>2, <3>3 DEF Cooldowns
    <2>6. /\ s.config = a.config /\ s.bytes = Here(d).bytes /\ s.hashed = a.hashed /\ s.path = d
          /\ s.verified = a.path /\ s.pairs = a.pairs /\ s.touched = a.touched
      OBVIOUS
    <2>7. server' = {s}
      BY <1>5
    <2> HIDE DEF s
    <2>8. ASSUME NEW pin \in a.config.pin
          PROVE  /\ a.hashed = pin /\ Len(pin) <= MaxBinary /\ a.path = {d}
                 /\ a.touched \/ Here(d).bytes = pin
      <3>1. a.config.pin # {} /\ a.config.pin = {a.hashed} /\ d \in a.path
        BY <1>1, <1>3 DEF Verified, Program
      <3> QED
        BY <1>1, <1>3, <3>1 DEF Verified
    <2>9. /\ {p.name : p \in a.pairs} = {r.name : r \in RefsOf(a.config)}
          /\ \A p \in a.pairs : Sourced(p, a.config)
      <3> DEFINE l == a.left
      <3>1. {l[i].name : i \in DOMAIN l} = {}
        BY <1>1
      <3>2. {p.name : p \in a.pairs} \cup {l[i].name : i \in DOMAIN l} = {r.name : r \in RefsOf(a.config)}
            /\ \A p \in a.pairs : Sourced(p, a.config)
        BY <1>3 DEF Named, Resolved
      <3> QED
        BY <3>1, <3>2
    <2>10. Spawned'
      BY <2>6, <2>7, <2>8, <2>9 DEF Spawned
    <2> QED
      BY <2>3, <2>4, <2>5, <2>10 DEF ServerInv
  <1> QED
    BY <1>1, <1>4, <1>5

LEMMA ServerInvKept ==
    ASSUME ServerInv, [LaunchNext]_launchVars
    PROVE  ServerInv'
  <1>1. CASE \E s \in Servers : RegisterServer(s)
    BY <1>1, RegisterServerKept
  <1>2. CASE \E c \in ServerConfigs : BeginLaunch(c)
    BY <1>2, BeginKept
  <1>3. CASE StatPinned \/ OpenPinned \/ HashPinned
    BY <1>3, StatKept, OpenKeptPinned, HashKept
  <1>4. CASE NextRef \/ HelperStep \/ PollHelper
    BY <1>4, NextRefKept, HelperStepKept, PollKept
  <1>5. CASE SpawnChild \/ TickMs \/ Relink
    BY <1>5, SpawnKept, TickMsKept, RelinkKept
  <1>6. CASE \E node \in DOMAIN Nodes : Rewrite(node, 1)
    BY <1>6, RewriteKept
  <1>7. CASE UNCHANGED launchVars
    <2>1. UNCHANGED <<roster, ms, links, nodes, attempt, helper, server, lapses>>
      BY <1>7 DEF launchVars
    <2>2. ServerTypes' /\ HelperKept' /\ Spawned'
      BY <2>1 DEF ServerInv, ServerTypes, HelperKept, Spawned
    <2>3. AttemptsTrue'
      BY <2>1 DEF ServerInv, AttemptsTrue, Verified, Here
    <2>4. Cooldowns'
      BY <2>1 DEF ServerInv, Cooldowns, Cooled
    <2> QED
      BY <2>2, <2>3, <2>4 DEF ServerInv
  <1> QED
    BY <1>1, <1>2, <1>3, <1>4, <1>5, <1>6, <1>7 DEF LaunchNext

LEMMA ServerInvHeld == ServerInv => LaunchExact
  <1> SUFFICES ASSUME ServerInv PROVE LaunchExact
    OBVIOUS
  <1>1. ASSUME NEW s \in DOMAIN roster
        PROVE  LET n == lapses[s].count
                   last == lapses[s].last
               IN  IF n = 0 THEN roster[s].notBefore = 0
                   ELSE /\ roster[s].notBefore >= Min({last + Min({Base * 2^(n - 1), Cap}), LastMs})
                        /\ roster[s].notBefore <= last + Cap
    <2> DEFINE n == lapses[s].count
               last == lapses[s].last
               nb == roster[s].notBefore
    <2>1. n \in Nat /\ last \in Nat /\ nb \in Nat
      BY DEF ServerInv, ServerTypes
    <2>2. /\ n <= MaxFailures + 1 /\ (n = 0 => nb = 0)
          /\ n # 0 => (nb >= last + Wait(n - 1) \/ nb >= LastMs) /\ nb <= last + Cap
      BY DEF ServerInv, Cooldowns, Cooled
    <2> HIDE DEF n, last, nb
    <2>3. CASE n # 0
      <3> DEFINE f == n - 1
                 p == Base * 2^f
      <3>1. f \in 0 .. MaxFailures /\ f \in 0 .. MaxShift + MaxFailures
        BY <2>1, <2>2, <2>3, ServerAssumption
      <3> HIDE DEF f
      <3>2. p \in Nat /\ Cap \in Nat /\ LastMs \in Nat
        BY <3>1, ServerAssumption
      <3>3. Wait(f) = IF p <= Cap THEN p ELSE Cap
        BY DEF Wait
      <3> HIDE DEF p
      <3>4. Min({p, Cap}) = Wait(f) /\ Wait(f) \in Nat
        BY <3>2, <3>3, LesserOf
      <3>5. last + Wait(f) \in Nat
        BY <2>1, <3>4
      <3>6. Min({last + Wait(f), LastMs}) = IF last + Wait(f) <= LastMs THEN last + Wait(f) ELSE LastMs
        BY <3>2, <3>5, LesserOf
      <3>7. nb >= last + Wait(f) \/ nb >= LastMs
        BY <2>2, <2>3 DEF f
      <3>8. nb >= Min({last + Wait(f), LastMs})
        BY <2>1, <3>2, <3>5, <3>6, <3>7
      <3>9. nb >= Min({last + Min({p, Cap}), LastMs})
        BY <3>4, <3>8
      <3> QED
        BY <2>2, <2>3, <3>9 DEF f, p, n, last, nb
    <2> QED
      BY <2>2, <2>3 DEF n, last, nb
  <1>2. helper.alive => helper.lost \/ \E a \in attempt : a.stage = "helper"
    BY DEF ServerInv, HelperKept
  <1>3. Spawned
    BY DEF ServerInv
  <1> QED
    BY <1>1, <1>2, <1>3 DEF LaunchExact, Spawned, Sourced

(* Whatever the clock, the files and the helpers do between two steps of a
   launch (supervise.rs spawn_server, hash_command_binary, run_credential_cmd;
   McpHost), and for any roster, bounds, disk and configurations: a
   pinned server that runs is the verified path with the pinned bytes unless a
   file changed under the launch, it has exactly its credentials, each from
   where its configuration says, no helper outlives its attempt unnoticed, and
   the cooldown after n failures in a row is the doubled wait, never more than
   the cap. *)
THEOREM LaunchesAreExact == LaunchSpec => []LaunchExact
  <1>1. LaunchInit => ServerInv
    <2> SUFFICES ASSUME LaunchInit PROVE ServerInv
      OBVIOUS
    <2>1. /\ roster = <<>> /\ ms = 0 /\ links \in Disks /\ nodes = Nodes /\ attempt = {} /\ helper = NoHelper
          /\ server = {} /\ lapses = [s \in Servers |-> [count |-> 0, last |-> 0]]
      BY DEF LaunchInit
    <2>2. DOMAIN roster = {} /\ roster \in [DOMAIN roster -> [failures : Nat, notBefore : Nat]]
      BY <2>1
    <2>3. ServerTypes
      BY <2>1, <2>2, NoHelperTyped, ServerAssumption DEF ServerTypes, FileNodes
    <2>4. AttemptsTrue /\ HelperKept /\ Spawned
      BY <2>1, NoHelperTyped DEF AttemptsTrue, HelperKept, Spawned
    <2>5. Cooldowns
      BY <2>1, <2>2 DEF Cooldowns
    <2> QED
      BY <2>3, <2>4, <2>5 DEF ServerInv
  <1>2. ServerInv /\ [LaunchNext]_launchVars => ServerInv'
    BY ServerInvKept
  <1> QED
    BY <1>1, <1>2, ServerInvHeld, PTL DEF LaunchSpec

(***************************************************************************)
(* Consent.  The ledger is what is left, of what the user last said, after *)
(* refused gestures and drained grants: it holds nothing else, and of what *)
(* has not run out it holds all.                                           *)
(***************************************************************************)
OncePerTriple(S) == \A g, h \in S : g.triple = h.triple => g = h

\* A ledger that keeps the user's will at a time.
Keeps(ledger, will, now) ==
    /\ IsFiniteSet(ledger) /\ Cardinality(ledger) <= MaxGrants /\ ledger \subseteq will
    /\ OncePerTriple(will) /\ (\A w \in will : w.expires \in Nat)
    /\ \A w \in will : now < w.expires => w \in ledger

AskedTrue == \A q \in asked : (q.answer = "allow") <=> q.due

CallsTrue ==
    /\ pending = {} /\ requests = <<>>
    /\ \A c \in client : \E b \in binding : c.id = b[1]
    /\ \A c \in called : c.result # "Full" /\ (c.result = "ok" => c.by = c.id)

ConsentInv == time \in Nat /\ Keeps(grants, willed, time) /\ AskedTrue /\ CallsTrue

\* The will of a gesture of which these triples went through.
Willed(will, triples, expires) ==
    {w \in will : w.triple \notin triples} \cup {Grant(t, expires) : t \in triples}

LEMMA KeepsLess ==
    ASSUME NEW G, NEW W, NEW H \in SUBSET G, NEW V \in SUBSET W, NEW now, Keeps(G, W, now), H \subseteq V,
           \A w \in V : now < w.expires => w \in H
    PROVE  Keeps(H, V, now)
  <1>1. IsFiniteSet(H) /\ Cardinality(H) <= Cardinality(G) /\ Cardinality(H) \in Nat /\ Cardinality(G) \in Nat
    BY FS_Subset, FS_CardinalityType DEF Keeps
  <1>2. Cardinality(H) <= MaxGrants
    BY <1>1, ConsentAssumption DEF Keeps
  <1>3. OncePerTriple(V) /\ \A w \in V : w.expires \in Nat
    BY DEF Keeps, OncePerTriple
  <1> QED
    BY <1>1, <1>2, <1>3 DEF Keeps

LEMMA KeepsLater ==
    ASSUME NEW G, NEW W, NEW now \in Nat, Keeps(G, W, now)
    PROVE  Keeps(G, W, now + 1)
  <1>1. \A w \in W : now + 1 < w.expires => now < w.expires
    BY DEF Keeps
  <1> QED
    BY <1>1 DEF Keeps

\* A triple that is granted replaces what was held of it.
LEMMA KeepsGrant ==
    ASSUME NEW G, NEW W, NEW now, Keeps(G, W, now), NEW t, NEW e \in Nat,
           Held(G, t) # {} \/ ~ Cardinality(G) >= MaxGrants
    PROVE  Keeps((G \ Held(G, t)) \cup {Grant(t, e)}, {w \in W : w.triple # t} \cup {Grant(t, e)}, now)
  <1> DEFINE x == Grant(t, e)
             H == G \ Held(G, t)
             V == {w \in W : w.triple # t}
  <1>1. x.triple = t /\ x.expires = e
    BY DEF Grant
  <1>2. x \notin H
    BY <1>1 DEF Held
  <1>3. IsFiniteSet(G) /\ Cardinality(G) \in Nat /\ Cardinality(G) <= MaxGrants /\ MaxGrants \in Nat
    BY FS_CardinalityType, ConsentAssumption DEF Keeps
  <1>4. IsFiniteSet(H) /\ Cardinality(H) \in Nat /\ Cardinality(H) <= Cardinality(G)
    BY <1>3, FS_Subset, FS_CardinalityType
  <1>5. Cardinality(H) < MaxGrants
    <2>1. CASE Held(G, t) # {}
      <3>1. PICK h \in G : h \in Held(G, t)
        BY <2>1 DEF Held
      <3>2. Cardinality(G \ {h}) = Cardinality(G) - 1 /\ IsFiniteSet(G \ {h})
        BY <1>3, FS_RemoveElement
      <3>3. H \subseteq G \ {h}
        BY <3>1
      <3>4. Cardinality(H) <= Cardinality(G \ {h})
        BY <3>2, <3>3, FS_Subset
      <3> QED
        BY <1>3, <1>4, <3>2, <3>4
    <2>2. CASE Held(G, t) = {}
      BY <1>3, <1>4, <2>2
    <2> QED
      BY <2>1, <2>2
  <1>6. IsFiniteSet(H \cup {x}) /\ Cardinality(H \cup {x}) = Cardinality(H) + 1
    BY <1>2, <1>4, FS_AddElement
  <1>7. Cardinality(H \cup {x}) <= MaxGrants
    BY <1>3, <1>4, <1>5, <1>6
  <1>8. H \subseteq V
    BY DEF Keeps, Held
  <1>9. OncePerTriple(V \cup {x}) /\ \A w \in V \cup {x} : w.expires \in Nat
    BY <1>1 DEF Keeps, OncePerTriple
  <1>10. \A w \in V : now < w.expires => w \in H
    BY DEF Keeps, Held
  <1> HIDE DEF H, V, x
  <1>11. Keeps(H \cup {x}, V \cup {x}, now)
    BY <1>6, <1>7, <1>8, <1>9, <1>10 DEF Keeps
  <1> QED
    BY <1>11 DEF H, V, x

LEMMA WilledOne ==
    ASSUME NEW W, NEW T, NEW t, NEW e
    PROVE  Willed(W, T \cup {t}, e) = {w \in Willed(W, T, e) : w.triple # t} \cup {Grant(t, e)}
  <1>1. \A u : Grant(u, e).triple = u
    BY DEF Grant
  <1> DEFINE L == Willed(W, T \cup {t}, e)
             R == {w \in Willed(W, T, e) : w.triple # t} \cup {Grant(t, e)}
  <1>2. ASSUME NEW w \in L
        PROVE  w \in R
    BY <1>1, <1>2 DEF Willed
  <1>3. ASSUME NEW w \in R
        PROVE  w \in L
    BY <1>1, <1>3 DEF Willed
  <1> HIDE DEF L, R
  <1>4. L = R
    BY <1>2, <1>3
  <1> QED
    BY <1>4 DEF L, R

\* A grant that goes through had room.
LEMMA GrantHadRoom ==
    ASSUME NEW G, NEW t, NEW e, Granted(G, t, e).result = "ok"
    PROVE  Held(G, t) # {} \/ ~ Cardinality(G) >= MaxGrants
  <1> DEFINE checks == << <<~ValidateProtocolId(t.protocol), "InvalidProtocolId">>,
                          <<t.tool \notin WellFormed \/ t.scope \notin WellFormed, "InvalidGrant">>,
                          <<Held(G, t) = {} /\ Cardinality(G) >= MaxGrants, "LedgerFull">> >>
  <1>1. Verdict(checks) = "ok"
    BY DEF Granted
  <1>2. DOMAIN checks = 1 .. 3 /\ checks[1][2] = "InvalidProtocolId" /\ checks[2][2] = "InvalidGrant"
        /\ checks[3][2] = "LedgerFull"
    OBVIOUS
  <1>3. (Held(G, t) = {} /\ Cardinality(G) >= MaxGrants) => checks[3][1]
    OBVIOUS
  <1> HIDE DEF checks
  <1>4. Failing(checks) = {}
    <2> SUFFICES ASSUME Failing(checks) # {}
                 PROVE  FALSE
      OBVIOUS
    <2>1. Failing(checks) \in SUBSET Nat /\ Failing(checks) \subseteq 1 .. 3
      BY <1>2 DEF Failing
    <2>2. PICK n \in Failing(checks) : \A x \in Failing(checks) : n <= x
      BY <2>1, LeastNatural
    <2>3. Min(Failing(checks)) \in 1 .. 3
      BY <2>1, <2>2 DEF Min
    <2>4. Verdict(checks) = checks[Min(Failing(checks))][2]
      BY DEF Verdict
    <2> QED
      BY <1>1, <1>2, <2>3, <2>4
  <1> QED
    BY <1>2, <1>3, <1>4 DEF Failing

\* The recursive definition of a gesture's iterations defines them.
LEMMA GrantedSetsDefined ==
    ASSUME NEW G, NEW p, NEW pairs, NEW e, Len(pairs) \in Nat
    PROVE  \A n \in 0 .. Len(pairs) :
             GrantedSets(G, p, pairs, e)[n] =
               IF n = 0 THEN [grants |-> G, result |-> "ok", done |-> {}]
               ELSE GrantedNext(GrantedSets(G, p, pairs, e)[n - 1], Triple(p, pairs[n][1], pairs[n][2]), e)
  <1> DEFINE start == [grants |-> G, result |-> "ok", done |-> {}]
             Iterate(set, n) == GrantedNext(set, Triple(p, pairs[n][1], pairs[n][2]), e)
             Sat(f, m) == f = [n \in 0 .. m |-> IF n = 0 THEN start ELSE Iterate(f[n - 1], n)]
             Bad == {m \in Nat : ~ \E f : Sat(f, m)}
  <1> HIDE DEF Iterate, start
  <1>1. Bad = {}
    <2> SUFFICES ASSUME Bad # {}
                 PROVE  FALSE
      OBVIOUS
    <2>1. PICK m \in Bad : \A x \in Bad : m <= x
      <3>1. Bad \in SUBSET Nat
        OBVIOUS
      <3> HIDE DEF Bad
      <3> QED
        BY <3>1, LeastNatural
    <2>2. m # 0
      <3> DEFINE f == [n \in 0 .. 0 |-> start]
      <3>1. Sat(f, 0)
        OBVIOUS
      <3> QED
        BY <2>1, <3>1
    <2>3. m - 1 \in Nat /\ m - 1 \notin Bad
      <3>1. m \in Nat
        OBVIOUS
      <3> HIDE DEF Bad
      <3> QED
        BY <2>1, <2>2, <3>1
    <2>4. PICK f : Sat(f, m - 1)
      BY <2>3
    <2> DEFINE g == [n \in 0 .. m |-> IF n = m THEN Iterate(f[m - 1], m) ELSE f[n]]
    <2>5. ASSUME NEW n \in 0 .. m
          PROVE  g[n] = IF n = 0 THEN start ELSE Iterate(g[n - 1], n)
      <3>1. CASE n = m
        BY <2>2, <2>3, <3>1
      <3>2. CASE n # m
        <4>1. n \in 0 .. (m - 1) /\ g[n] = f[n] /\ (n # 0 => g[n - 1] = f[n - 1])
          BY <2>3, <3>2
        <4>2. f[n] = IF n = 0 THEN start ELSE Iterate(f[n - 1], n)
          BY <2>4, <4>1
        <4> QED
          BY <4>1, <4>2
      <3> QED
        BY <3>1, <3>2
    <2>6. Sat(g, m)
      BY <2>5
    <2> QED
      BY <2>1, <2>6
  <1>2. \E f : Sat(f, Len(pairs))
    BY <1>1
  <1>3. Sat(GrantedSets(G, p, pairs, e), Len(pairs))
    BY <1>2 DEF GrantedSets, Iterate, start
  <1> HIDE DEF Sat
  <1>4. \A n \in 0 .. Len(pairs) :
          GrantedSets(G, p, pairs, e)[n] = IF n = 0 THEN start ELSE Iterate(GrantedSets(G, p, pairs, e)[n - 1], n)
    BY <1>3 DEF Sat
  <1> QED
    BY <1>4 DEF Iterate, start

LEMMA GrantedNextKeeps ==
    ASSUME NEW set, NEW W, NEW now, NEW t, NEW e \in Nat, Keeps(set.grants, Willed(W, set.done, e), now)
    PROVE  LET next == GrantedNext(set, t, e) IN Keeps(next.grants, Willed(W, next.done, e), now)
  <1> DEFINE one == Granted(set.grants, t, e)
             next == GrantedNext(set, t, e)
  <1>1. CASE set.result # "ok"
    BY <1>1 DEF GrantedNext
  <1>2. CASE set.result = "ok" /\ one.result = "ok"
    <2>1. one.grants = (set.grants \ Held(set.grants, t)) \cup {Grant(t, e)}
      BY <1>2 DEF Granted
    <2>2. next.grants = one.grants /\ next.done = set.done \cup {t}
      BY <1>2 DEF GrantedNext
    <2>3. Held(set.grants, t) # {} \/ ~ Cardinality(set.grants) >= MaxGrants
      BY <1>2, GrantHadRoom
    <2>4. Keeps((set.grants \ Held(set.grants, t)) \cup {Grant(t, e)},
                {w \in Willed(W, set.done, e) : w.triple # t} \cup {Grant(t, e)}, now)
      BY <2>3, KeepsGrant
    <2>5. Willed(W, set.done \cup {t}, e) = {w \in Willed(W, set.done, e) : w.triple # t} \cup {Grant(t, e)}
      BY WilledOne
    <2>6. Keeps(one.grants, Willed(W, set.done \cup {t}, e), now)
      BY <2>1, <2>4, <2>5
    <2> QED
      BY <2>2, <2>6
  <1>3. CASE set.result = "ok" /\ one.result # "ok"
    <2>1. one.grants = set.grants
      BY <1>3 DEF Granted
    <2>2. next.grants = one.grants /\ next.done = set.done
      BY <1>3 DEF GrantedNext
    <2> QED
      BY <2>1, <2>2
  <1> QED
    BY <1>1, <1>2, <1>3

\* However far a gesture gets, the ledger keeps what went through of it.
LEMMA GestureKeeps ==
    ASSUME NEW G, NEW W, NEW now, NEW p, NEW pairs, NEW e \in Nat, Len(pairs) \in Nat, Keeps(G, W, now)
    PROVE  LET set == GrantedSets(G, p, pairs, e)[Len(pairs)]
           IN  Keeps(set.grants, Willed(W, set.done, e), now)
  <1> DEFINE after == GrantedSets(G, p, pairs, e)
             N == Len(pairs)
             Ok(set) == Keeps(set.grants, Willed(W, set.done, e), now)
             Bad == {n \in 0 .. N : ~Ok(after[n])}
  <1>1. \A n \in 0 .. N : after[n] = IF n = 0 THEN [grants |-> G, result |-> "ok", done |-> {}]
                                   ELSE GrantedNext(after[n - 1], Triple(p, pairs[n][1], pairs[n][2]), e)
    BY GrantedSetsDefined
  <1> HIDE DEF after
  <1>2. Ok(after[0])
    <2>a. 0 \in 0 .. N
      OBVIOUS
    <2>1. after[0] = [grants |-> G, result |-> "ok", done |-> {}]
      <3> HIDE DEF N
      <3> QED
        BY <1>1, <2>a, Zenon
    <2>2. after[0].grants = G /\ after[0].done = {}
      BY <2>1
    <2>3. Willed(W, {}, e) = W
      BY DEF Willed
    <2> QED
      BY <2>2, <2>3
  <1>3. Bad = {}
    <2> SUFFICES ASSUME Bad # {}
                 PROVE  FALSE
      OBVIOUS
    <2>1. Bad \in SUBSET Nat
      OBVIOUS
    <2>2. PICK n \in Bad : \A x \in Bad : n <= x
      <3> HIDE DEF Bad
      <3> QED
        BY <2>1, LeastNatural
    <2> HIDE DEF Ok
    <2>3. n \in 0 .. N /\ n # 0 /\ n - 1 \in 0 .. N /\ n - 1 \notin Bad
      BY <1>2, <2>2
    <2>4. Ok(after[n - 1])
      BY <2>3
    <2> DEFINE t == Triple(p, pairs[n][1], pairs[n][2])
    <2>5. Ok(GrantedNext(after[n - 1], t, e))
      <3> HIDE DEF t
      <3> QED
        BY <2>4, GrantedNextKeeps DEF Ok
    <2>6. after[n] = GrantedNext(after[n - 1], t, e)
      BY <1>1, <2>3
    <2> QED
      BY <2>2, <2>5, <2>6
  <1>4. Ok(after[N])
    <2> HIDE DEF Ok
    <2> QED
      BY <1>3
  <1> QED
    BY <1>4 DEF after

LEMMA BindKept ==
    ASSUME ConsentInv, NEW p, NEW a, Bind(p, a)
    PROVE  ConsentInv'
  <1>1. /\ binding = {} \/ binding' = binding
        /\ asked' = {} /\ UNCHANGED <<grants, time, willed, client, consented, requests, pending, calls, called>>
    BY DEF Bind, ipcVars
  <1>2. AskedTrue' /\ CallsTrue'
    BY <1>1 DEF ConsentInv, AskedTrue, CallsTrue
  <1> QED
    BY <1>1, <1>2 DEF ConsentInv

\* The ledger alone moves.
LEMMA LedgerKept ==
    ASSUME ConsentInv, time' \in Nat, Keeps(grants', willed', time'), asked' \in {asked, {}},
           UNCHANGED <<binding, client, requests, pending, called>>
    PROVE  ConsentInv'
  <1>1. AskedTrue' /\ CallsTrue'
    BY DEF ConsentInv, AskedTrue, CallsTrue
  <1>2. Keeps(grants, willed, time)'
    OBVIOUS
  <1> QED
    BY <1>1, <1>2 DEF ConsentInv

LEMMA GrantKept ==
    ASSUME ConsentInv, NEW p, NEW g \in Gestures, NEW ttl \in {1, Ttl}, GrantTurnSet(p, g, ttl)
    PROVE  ConsentInv'
  <1> DEFINE e == Min({time + ttl, LastTime})
             set == GrantedSets(grants, p, g, e)[Len(g)]
  <1>1. /\ grants' = set.grants /\ willed' = Will(set.done, e) /\ asked' = {}
        /\ UNCHANGED <<binding, time, client, requests, pending, called>>
    BY DEF GrantTurnSet, ipcVars
  <1>2. time \in Nat /\ Keeps(grants, willed, time) /\ Len(g) \in Nat
    BY ConsentAssumption DEF ConsentInv
  <1>3. e \in Nat
    <2>1. time + ttl \in Nat /\ LastTime \in Nat
      BY <1>2, ConsentAssumption
    <2> QED
      BY <2>1, LesserOf
  <1> HIDE DEF e
  <1>4. Keeps(set.grants, Willed(willed, set.done, e), time)
    BY <1>2, <1>3, GestureKeeps
  <1>5. Will(set.done, e) = Willed(willed, set.done, e)
    BY DEF Will, Willed
  <1> HIDE DEF set
  <1>6. Keeps(grants', willed', time')
    BY <1>1, <1>4, <1>5
  <1> QED
    BY <1>1, <1>2, <1>6, LedgerKept

LEMMA RevokeKept ==
    ASSUME ConsentInv, NEW t, Revoke(t)
    PROVE  ConsentInv'
  <1> DEFINE H == grants \ Held(grants, t)
             V == {w \in willed : w.triple # t}
  <1>1. /\ grants' = H /\ willed' = V /\ asked' = {}
        /\ UNCHANGED <<binding, time, client, requests, pending, called>>
    BY DEF Revoke, ipcVars
  <1>2. time \in Nat /\ Keeps(grants, willed, time)
    BY DEF ConsentInv
  <1>3. H \in SUBSET grants /\ V \in SUBSET willed /\ H \subseteq V /\ \A w \in V : time < w.expires => w \in H
    BY <1>2 DEF Keeps, Held
  <1> HIDE DEF H, V
  <1>4. Keeps(H, V, time)
    BY <1>2, <1>3, KeepsLess
  <1> QED
    BY <1>1, <1>2, <1>4, LedgerKept

LEMMA DrainKept ==
    ASSUME ConsentInv, DrainExpired
    PROVE  ConsentInv'
  <1> DEFINE H == {g \in grants : time < g.expires}
  <1>1. /\ grants' = H /\ asked' = {}
        /\ UNCHANGED <<binding, time, willed, client, requests, pending, called>>
    BY DEF DrainExpired, ipcVars
  <1>2. time \in Nat /\ Keeps(grants, willed, time)
    BY DEF ConsentInv
  <1>3. H \in SUBSET grants /\ H \subseteq willed /\ \A w \in willed : time < w.expires => w \in H
    BY <1>2 DEF Keeps
  <1> HIDE DEF H
  <1>4. Keeps(H, willed, time)
    BY <1>2, <1>3, KeepsLess
  <1> QED
    BY <1>1, <1>2, <1>4, LedgerKept

LEMMA TickKept ==
    ASSUME ConsentInv, Tick \/ IpcTick
    PROVE  ConsentInv'
  <1>1. /\ time' = time + 1 /\ asked' \in {asked, {}}
        /\ UNCHANGED <<binding, grants, willed, client, requests, pending, called>>
    BY DEF Tick, IpcTick, ipcVars
  <1>2. time \in Nat /\ Keeps(grants, willed, time)
    BY DEF ConsentInv
  <1>3. Keeps(grants, willed, time + 1)
    BY <1>2, KeepsLater
  <1>4. Keeps(grants', willed', time')
    BY <1>1, <1>3
  <1> QED
    BY <1>1, <1>2, <1>4, LedgerKept

LEMMA DispatchKept ==
    ASSUME ConsentInv, NEW a, NEW t, NEW s, Dispatch(a, t, s)
    PROVE  ConsentInv'
  <1>1. PICK p \in ResolveProtocol(a) :
          asked' = {[triple |-> Triple(p, t, s), at |-> time,
                     answer |-> IF Consented(Triple(p, t, s)) THEN "allow" ELSE "deny",
                     due |-> \E w \in willed : w.triple = Triple(p, t, s) /\ time < w.expires]}
    BY DEF Dispatch
  <1>2. UNCHANGED <<binding, grants, time, willed, client, requests, pending, called>>
    BY DEF Dispatch, ipcVars
  <1> DEFINE x == Triple(p, t, s)
             due == \E w \in willed : w.triple = x /\ time < w.expires
             q == [triple |-> x, at |-> time, answer |-> IF Consented(x) THEN "allow" ELSE "deny", due |-> due]
  <1>3. Consented(x) <=> due
    BY DEF ConsentInv, Keeps, Consented, Held, Live
  <1>4. q.answer = IF Consented(x) THEN "allow" ELSE "deny"
    OBVIOUS
  <1>5. q.due = due
    BY Zenon
  <1>6. asked' = {q}
    BY <1>1
  <1> HIDE DEF q, due, x
  <1>7. AskedTrue'
    BY <1>3, <1>4, <1>5, <1>6 DEF AskedTrue
  <1>8. CallsTrue' /\ time' = time /\ Keeps(grants, willed, time)'
    BY <1>2 DEF ConsentInv, CallsTrue, Keeps, OncePerTriple
  <1> QED
    BY <1>7, <1>8 DEF ConsentInv

LEMMA CallKept ==
    ASSUME ConsentInv, NEW method, NEW peer, Call(method, peer)
    PROVE  ConsentInv'
  <1> DEFINE id == calls + 1
             served == ServeAdmitted(id, Append(requests, id), peer)
             c == [id |-> id, result |-> served.result, by |-> served.by, at |-> time, method |-> method]
  <1>1. pending = {} /\ requests = <<>> /\ ~ Cardinality(pending) >= MaxPending
    <2>1. pending = {} /\ requests = <<>>
      BY DEF ConsentInv, CallsTrue
    <2>2. Cardinality(pending) = 0
      BY <2>1, FS_EmptySet
    <2> QED
      BY <2>1, <2>2, ConsentAssumption
  <1>2. /\ requests' = served.requests /\ pending' = Complete(pending \cup {id}, id, served.result)
        /\ called' = {c} /\ UNCHANGED <<binding, grants, time, willed, asked, client>>
    BY <1>1 DEF Call
  <1>3. Append(requests, id) = <<id>>
    BY <1>1
  <1>4. served.requests = <<>> /\ served.by = id
    <2>1. Head(<<id>>) = id /\ Tail(<<id>>) = <<>>
      OBVIOUS
    <2> QED
      BY <1>3, <2>1 DEF ServeAdmitted
  <1>5. pending' = {}
    BY <1>1, <1>2 DEF Complete
  <1>6. served.result # "Full"
    <2> DEFINE answerId == IF peer = "other" THEN 0 ELSE Head(Append(requests, id))
               checks == << <<peer = "fault", "Transport">>,
                            <<answerId # id, "ContextUnavailable">>,
                            <<peer = "oversize", "Ipc">>,
                            <<peer = "refuse", "ContextUnavailable">> >>
    <2>1. served.result = Verdict(checks)
      BY DEF ServeAdmitted
    <2>2. DOMAIN checks = 1 .. 4 /\ \A i \in 1 .. 4 : checks[i][2] # "Full"
      <3>1. DOMAIN checks = 1 .. 4 /\ checks[1][2] = "Transport" /\ checks[2][2] = "ContextUnavailable"
            /\ checks[3][2] = "Ipc" /\ checks[4][2] = "ContextUnavailable"
        OBVIOUS
      <3> HIDE DEF checks
      <3> QED
        BY <3>1
    <2> HIDE DEF checks
    <2>3. DOMAIN checks \subseteq Nat
      BY <2>2
    <2>4. Verdict(checks) = "ok" \/ \E i \in DOMAIN checks : Verdict(checks) = checks[i][2]
      BY <2>3, FirstDecides
    <2> HIDE DEF served
    <2> QED
      BY <2>1, <2>2, <2>4
  <1>7. c.result = served.result /\ c.by = served.by /\ c.id = id
    OBVIOUS
  <1> HIDE DEF c, served, id
  <1>8. CallsTrue'
    BY <1>2, <1>4, <1>5, <1>6, <1>7 DEF ConsentInv, CallsTrue
  <1>9. AskedTrue' /\ time' = time /\ Keeps(grants, willed, time)'
    BY <1>2 DEF ConsentInv, AskedTrue, Keeps, OncePerTriple
  <1> QED
    BY <1>8, <1>9 DEF ConsentInv

LEMMA ClientKept ==
    ASSUME ConsentInv,
           (\E scopes \in SUBSET Scopes : FromBinding(scopes))
             \/ (\E scope \in Scopes, ttl \in {1, Ttl} : GrantConsent(scope, ttl))
    PROVE  ConsentInv'
  <1>1. /\ UNCHANGED <<binding, grants, time, willed, asked, requests, pending, called>>
        /\ client' = client \/ \E scopes : \E id \in WireClientId : client' = {[id |-> id, scopes |-> scopes]}
    BY DEF FromBinding, GrantConsent
  <1>2. \A c \in client' : \E b \in binding : c.id = b[1]
    BY <1>1 DEF ConsentInv, CallsTrue, WireClientId
  <1>3. CallsTrue' /\ AskedTrue'
    BY <1>1, <1>2 DEF ConsentInv, CallsTrue, AskedTrue
  <1> QED
    BY <1>1, <1>3 DEF ConsentInv, Keeps, OncePerTriple

(* For any names, ledger bound, clock, gestures and order of the two clients'
   calls (runtime bridge.rs FakeConsentLedger, grant_turn_set,
   ensure_consented_for_dispatch; slice bridge.rs IpcBridge::call): a dispatch
   goes through exactly when the user's last word on that very triple was a
   grant that has not run out, also where a gesture was granted in part, and a
   call over IPC leaves nothing behind in the endpoint, however it ends. *)
THEOREM ConsentIsExact == ConsentSpec => []ConsentExact
  <1>1. ConsentInit => ConsentInv
    <2> SUFFICES ASSUME ConsentInit PROVE ConsentInv
      OBVIOUS
    <2>1. grants = {} /\ willed = {} /\ time = 0 /\ asked = {} /\ client = {} /\ called = {} /\ pending = {}
          /\ requests = <<>>
      BY DEF ConsentInit, IpcInit
    <2>2. Keeps(grants, willed, time)
      BY <2>1, FS_EmptySet, ConsentAssumption DEF Keeps, OncePerTriple
    <2> QED
      BY <2>1, <2>2 DEF ConsentInv, AskedTrue, CallsTrue
  <1>2. ConsentInv /\ [ConsentNext \/ IpcNext]_consentVars => ConsentInv'
    <2> SUFFICES ASSUME ConsentInv, [ConsentNext \/ IpcNext]_consentVars
                 PROVE  ConsentInv'
      OBVIOUS
    <2>1. CASE ConsentNext
      <3>1. CASE \E p \in Protocols, a \in Instances : Bind(p, a)
        BY <3>1, BindKept
      <3>2. CASE \E p \in Protocols, g \in Gestures, ttl \in {1, Ttl} : GrantTurnSet(p, g, ttl)
        BY <3>2, GrantKept
      <3>3. CASE \E p \in Protocols, t \in Tools, s \in Scopes : Revoke(Triple(p, t, s))
        BY <3>3, RevokeKept
      <3>4. CASE DrainExpired \/ Tick
        BY <3>4, DrainKept, TickKept
      <3>5. CASE \E a \in Instances, t \in Tools, s \in Scopes : Dispatch(a, t, s)
        BY <3>5, DispatchKept
      <3> QED
        BY <2>1, <3>1, <3>2, <3>3, <3>4, <3>5 DEF ConsentNext
    <2>2. CASE IpcNext
      <3>1. CASE \E p \in Protocols, a \in Instances : Bind(p, a)
        BY <3>1, BindKept
      <3>2. CASE \E scopes \in SUBSET Scopes : FromBinding(scopes)
        BY <3>2, ClientKept
      <3>3. CASE \E scope \in Scopes, ttl \in {1, Ttl} : GrantConsent(scope, ttl)
        BY <3>3, ClientKept
      <3>4. CASE \E method \in DOMAIN Methods, peer \in {"fault", "other", "oversize", "refuse", "answer"} :
                   Call(method, peer)
        BY <3>4, CallKept
      <3>5. CASE IpcTick
        BY <3>5, TickKept
      <3> QED
        BY <2>2, <3>1, <3>2, <3>3, <3>4, <3>5 DEF IpcNext
    <2>3. CASE UNCHANGED consentVars
      <3>1. UNCHANGED <<binding, grants, time, willed, asked, client, requests, pending, called>>
        BY <2>3 DEF consentVars, ipcVars
      <3> QED
        BY <3>1 DEF ConsentInv, AskedTrue, CallsTrue, Keeps, OncePerTriple
    <2> QED
      BY <2>1, <2>2, <2>3
  <1>3. ConsentInv => ConsentExact
    BY DEF ConsentInv, Keeps, OncePerTriple, AskedTrue, CallsTrue, ConsentExact
  <1> QED
    BY <1>1, <1>2, <1>3, PTL DEF ConsentSpec
=============================================================================
