------------------------------ MODULE Journal ------------------------------
(***************************************************************************)
(* The single-writer journal over one database file                        *)
(* (journal_prototype.rs): admission of the store it finds, initialization *)
(* statement by statement, appends and tombstones.  Several processes may  *)
(* open the file and any may die between two statements; SQLite is         *)
(* external: every statement is atomic, and in exclusive locking mode a    *)
(* lock taken is held until the connection goes.                           *)
(***************************************************************************)
EXTENDS Integers, Sequences, FiniteSets

CONSTANTS Procs, RecordIds,
          BadIds,            \* ids outside the field bounds
          Files,             \* what may be found at the path
          MaxRows            \* bound of the instance

RequiredTables == 1..3

(* Markers a file may carry: this profile's and, as one, any other. *)
Profiles == {"r6-prototype", "other"}

Row == [seq : Nat, id : RecordIds \cup BadIds]
FileType == [tables : [RequiredTables -> {"none", "table", "occupied", "altered"}],
             profile : SUBSET Profiles, rows : SUBSET Row, next : Nat,
             tombs : SUBSET (RecordIds \cup BadIds)]

(* What the key and the unique index of journal_records keep true of a file. *)
Keyed(f) ==
    /\ \A r \in f.rows : r.seq < f.next
    /\ \A r, q \in f.rows : r.seq = q.seq \/ r.id = q.id => r = q

ASSUME JournalAssumption == Files \subseteq FileType /\ \A f \in Files : Keyed(f)

VARIABLES file,              \* [tables, profile, rows, next, tombs]
          pc, lock,          \* of each process
          acked,             \* history: appends acknowledged, in order
          gone               \* history: tombstones found or acknowledged

journalVars == <<file, pc, lock, acked, gone>>

NoFile == [tables |-> [t \in RequiredTables |-> "none"], profile |-> {}, rows |-> {}, next |-> 1, tombs |-> {}]

JournalInit ==
    /\ file \in Files /\ pc = [p \in Procs |-> "closed"] /\ lock = [p \in Procs |-> "none"]
    /\ acked = <<>> /\ gone = file.tombs

-----------------------------------------------------------------------------
(* classify_store: which of the three names are taken, and by what. *)
ClassifyStore(f) ==
    LET of(k) == {t \in RequiredTables : f.tables[t] = k} IN
    IF of("occupied") # {} THEN "occupied"
    ELSE IF of("none") = RequiredTables THEN "empty"
    ELSE IF of("none") # {} THEN "partial" ELSE "complete"

(* verify_table_shape: columns, keys and the unique index are as created. *)
VerifyTableShape(f) == \A t \in RequiredTables : f.tables[t] # "altered"

VerifyProfile(f) == f.profile = {"r6-prototype"}

(* admit_or_initialize: an empty store is initialized, a complete one admitted
   when it is this journal's; any other is refused untouched. *)
AdmitOrInitialize(f) ==
    CASE ClassifyStore(f) = "empty"    -> {"create"}
      [] ClassifyStore(f) = "complete" -> IF VerifyTableShape(f) /\ VerifyProfile(f) THEN {"mark"} ELSE {}
      [] OTHER                         -> {}

Others(p) == Procs \ {p}
CanRead(p) == \A q \in Others(p) : lock[q] # "exclusive"
CanWrite(p) == \A q \in Others(p) : lock[q] = "none"

Dropped(p) == pc' = [pc EXCEPT ![p] = "closed"] /\ lock' = [lock EXCEPT ![p] = "none"]

\* Mutant: the lock of the first read is not held.
AdmittedUnlocked(p) == "none"

(* The lock an admission is decided under, and kept. *)
Admitted(p) == "shared"

(* open, up to the first write: a refusal drops the connection. *)
OpenJournal(p) ==
    /\ pc[p] = "closed"
    /\ CanRead(p)
    /\ \E next \in AdmitOrInitialize(file) : pc' = [pc EXCEPT ![p] = next]
    /\ lock' = [lock EXCEPT ![p] = Admitted(p)]
    /\ UNCHANGED <<file, acked, gone>>

(* One statement of the schema; WriterBusy while another connection reads. *)
CreateTable(p) ==
    LET left == {t \in RequiredTables : file.tables[t] = "none"} IN
    /\ pc[p] = "create"
    /\ IF ~CanWrite(p) THEN Dropped(p) /\ UNCHANGED file
       ELSE IF left = {} THEN pc' = [pc EXCEPT ![p] = "mark"] /\ UNCHANGED <<file, lock>>
       ELSE /\ file' = [file EXCEPT !.tables[CHOOSE t \in left : \A u \in left : t <= u] = "table"]
            /\ lock' = [lock EXCEPT ![p] = "exclusive"] /\ UNCHANGED pc
    /\ UNCHANGED <<acked, gone>>

(* The profile marker, always a write: it claims the lock. *)
MarkProfile(p) ==
    /\ pc[p] = "mark"
    /\ IF ~CanWrite(p) THEN Dropped(p) /\ UNCHANGED file
       ELSE /\ file' = [file EXCEPT !.profile = {"r6-prototype"}]
            /\ lock' = [lock EXCEPT ![p] = "exclusive"] /\ pc' = [pc EXCEPT ![p] = "open"]
    /\ UNCHANGED <<acked, gone>>

-----------------------------------------------------------------------------
CheckField(id) == id \notin BadIds

Recorded(id) == \E r \in file.rows : r.id = id

(* append: the unique id, the next of an automatic sequence; the process may
   die before it is told. *)
AppendRow(p, id, told) ==
    /\ pc[p] = "open" /\ CheckField(id) /\ ~Recorded(id) /\ Cardinality(file.rows) < MaxRows
    /\ file' = [file EXCEPT !.rows = @ \cup {[seq |-> file.next, id |-> id]}, !.next = @ + 1]
    /\ acked' = IF told THEN Append(acked, [seq |-> file.next, id |-> id]) ELSE acked
    /\ IF told THEN UNCHANGED <<pc, lock>> ELSE Dropped(p)
    /\ UNCHANGED gone

(* tombstone: of any id, known or not; the first one stays. *)
Tombstone(p, id) ==
    /\ pc[p] = "open" /\ CheckField(id)
    /\ file' = [file EXCEPT !.tombs = @ \cup {id}]
    /\ gone' = gone \cup {id}
    /\ UNCHANGED <<pc, lock, acked>>

(* read_all: the surviving rows, ascending by seq. *)
ReadAll == {r \in file.rows : r.id \notin file.tombs}
ReadBefore(r, q) == r.seq < q.seq

(* A handle is dropped, or its process dies. *)
Die(p) == pc[p] # "closed" /\ Dropped(p) /\ UNCHANGED <<file, acked, gone>>

JournalNext ==
    \E p \in Procs :
        \/ OpenJournal(p) \/ CreateTable(p) \/ MarkProfile(p) \/ Die(p)
        \/ \E id \in RecordIds \cup BadIds : Tombstone(p, id) \/ \E told \in BOOLEAN : AppendRow(p, id, told)

JournalSpec == JournalInit /\ [][JournalNext]_journalVars

-----------------------------------------------------------------------------
(* One process at a time has the journal open, and none writes beside it. *)
OneWriter ==
    \A p, q \in Procs : (p # q /\ pc[p] = "open") => pc[q] = "closed"

(* Every acknowledged append is read back in the order of the acknowledgements,
   whoever wrote it and whatever died, until its id is tombstoned; a
   tombstoned id is never read again, not even when it is appended later, and
   an id is read once.  It rests on one process having the journal open at a
   time. *)
JournalKept ==
    /\ \A i \in DOMAIN acked : acked[i].id \notin gone => acked[i] \in ReadAll
    /\ \A i, j \in DOMAIN acked : i < j => ReadBefore(acked[i], acked[j])
    /\ \A r \in ReadAll : r.id \notin gone
    /\ \A r, q \in ReadAll : r = q \/ (r.id # q.id /\ (ReadBefore(r, q) \/ ReadBefore(q, r)))
    /\ OneWriter
=============================================================================
