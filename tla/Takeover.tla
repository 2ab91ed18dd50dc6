------------------------------ MODULE Takeover ------------------------------
(***************************************************************************)
(* What survives a session: writers fenced by lease (fencing.rs), the      *)
(* adoption of a failed session's effects under a claim (adoption.rs), and *)
(* the inspection that settles one of them (reconcile.rs).  The            *)
(* supervisor, which issues leases, moves the epoch and carries claims, is *)
(* external; a claim may be old, partial or wrong when it is checked.      *)
(***************************************************************************)
EXTENDS Integers, Sequences, FiniteSets

CONSTANTS Writers,
          MaxSurvivors,      \* MAX_ADOPTION_SURVIVORS
          MaxEpoch, MaxGeneration, MaxWrites     \* bounds of the instance

VARIABLES state,             \* of the session: "active", "completed", "canceled", "failed"
          generation, epoch,
          leases,            \* lease a writer holds, {} or {lease}
          evidence,          \* execution records in order: [id, status]
          by,                \* history: the lease a record was written under
          claim,             \* {} or the claim on its way
          adopted            \* {} or the history that was adopted

takeoverVars == <<state, generation, epoch, leases, evidence, by, claim, adopted>>

Statuses == {"success", "failed", "unknown"}

Items(s) == {s[i] : i \in DOMAIN s}
Ids(records) == {r.id : r \in Items(records)}
NoRepeat(s) == \A i, j \in DOMAIN s : s[i] = s[j] => i = j
IdsOf(records) == [i \in DOMAIN records |-> records[i].id]

TakeoverInit ==
    /\ state = "active" /\ generation = 1 /\ epoch = 1 /\ leases = [w \in Writers |-> {}]
    /\ evidence = <<>> /\ by = <<>> /\ claim = {} /\ adopted = {}

-----------------------------------------------------------------------------

\* Mutant: a lease of an older supervisor still writes.
CheckWriterAnyEpoch(lease) == state = "active" /\ lease.generation = generation

(* check_writer: the session is active, then the generation, then the epoch. *)
CheckWriter(lease) == state = "active" /\ lease.generation = generation /\ lease.epoch = epoch

IssueLease(w) ==
    /\ leases' = [leases EXCEPT ![w] = {[generation |-> generation, epoch |-> epoch]}]
    /\ UNCHANGED <<state, generation, epoch, evidence, by, claim, adopted>>

(* An admitted write runs one effect and records it. *)
Write(w, status) ==
    /\ Len(evidence) < MaxWrites
    /\ \E lease \in leases[w] : CheckWriter(lease) /\ by' = Append(by, lease)
    /\ evidence' = Append(evidence, [id |-> Len(evidence) + 1, status |-> status])
    /\ UNCHANGED <<state, generation, epoch, leases, claim, adopted>>

(* rotate_generation: a takeover; nothing happens to a terminal session. *)
RotateGeneration ==
    /\ state = "active" /\ generation < MaxGeneration
    /\ generation' = generation + 1
    /\ UNCHANGED <<state, epoch, leases, evidence, by, claim, adopted>>

(* External: another supervisor is elected. *)
MoveEpoch ==
    /\ epoch < MaxEpoch
    /\ epoch' = epoch + 1
    /\ UNCHANGED <<state, generation, leases, evidence, by, claim, adopted>>

End(how) ==
    /\ state = "active"
    /\ state' = how
    /\ UNCHANGED <<generation, epoch, leases, evidence, by, claim, adopted>>

(* is_reconcile_terminal: an inspection settled one of the effects. *)
Settle(i, status) ==
    /\ i \in DOMAIN evidence /\ evidence[i].status = "unknown" /\ status # "unknown" /\ adopted = {}
    /\ evidence' = [evidence EXCEPT ![i].status = status]
    /\ UNCHANGED <<state, generation, epoch, leases, by, claim, adopted>>

-----------------------------------------------------------------------------
(* External: a claim is drawn up over some of the records, with a disposition
   for some of them, under the epoch and the state of the moment. *)
DrawClaim(survivors, unknowns) ==
    /\ claim = {} /\ adopted = {}
    /\ claim' = {[prior |-> state, survivors |-> survivors, unknowns |-> unknowns, token |-> epoch]}
    /\ UNCHANGED <<state, generation, epoch, leases, evidence, by, adopted>>

StatusOf(id) == evidence[CHOOSE i \in DOMAIN evidence : evidence[i].id = id].status

(* Each named effect is claimed, on record, still unknown, and escalated. *)
DispositionsHold(c) ==
    /\ NoRepeat(IdsOf(c.unknowns))
    /\ \A u \in Items(c.unknowns) : /\ u.id \in Items(c.survivors) /\ u.id \in Ids(evidence)
                                    /\ StatusOf(u.id) = "unknown" /\ u.disposition = "escalated"

(* No survivor without evidence, no evidence without a survivor. *)
Coverage(c) == Items(c.survivors) = Ids(evidence)

(* check_adoption. *)
Adoptable(c) ==
    /\ Len(c.survivors) <= MaxSurvivors /\ Len(evidence) <= MaxSurvivors /\ Len(c.unknowns) <= MaxSurvivors
    /\ c.token = epoch /\ c.prior = "failed"
    /\ NoRepeat(c.survivors) /\ DispositionsHold(c)
    /\ \A id \in Items(c.survivors) \cap Ids(evidence) : StatusOf(id) = "unknown" => id \in Ids(c.unknowns)
    /\ Coverage(c)

AdoptedHistory(c) ==
    [i \in DOMAIN c.survivors |-> [id |-> c.survivors[i], status |-> StatusOf(c.survivors[i]),
                                   quarantined |-> StatusOf(c.survivors[i]) = "unknown"]]

CheckAdoption ==
    /\ \E c \in claim : adopted' = IF Adoptable(c) THEN {AdoptedHistory(c)} ELSE {}
    /\ claim' = {}
    /\ UNCHANGED <<state, generation, epoch, leases, evidence, by>>

Dispositions == {"reconciled", "escalated"}

TakeoverNext ==
    \/ \E w \in Writers : IssueLease(w) \/ \E s \in Statuses : Write(w, s)
    \/ RotateGeneration \/ MoveEpoch \/ CheckAdoption
    \/ \E how \in {"completed", "canceled", "failed"} : End(how)
    \/ \E i \in DOMAIN evidence, s \in Statuses : Settle(i, s)
    \/ \E survivors \in UNION {[1..n -> Ids(evidence)] : n \in 0..Len(evidence)} :
         \E unknowns \in UNION {[1..n -> [id : Items(survivors), disposition : Dispositions]] :
                                  n \in 0..Len(survivors)} :
            DrawClaim(survivors, unknowns)

TakeoverSpec == TakeoverInit /\ [][TakeoverNext]_takeoverVars

-----------------------------------------------------------------------------
(* Writes come in fencing order: no record was written under the lease of an
   epoch or a generation older than that of a record before it. *)
WritesFenced ==
    \A i, j \in DOMAIN by : i < j => by[i].epoch <= by[j].epoch /\ by[i].generation <= by[j].generation

(* What was adopted is the failed session's record, whole and once, every
   still-uncertain effect quarantined; nothing was written to it since,
   whatever leases are still out, and its writes came in fencing order. *)
AdoptionExact ==
    /\ \A h \in adopted :
         /\ state = "failed" /\ NoRepeat(IdsOf(h)) /\ Ids(h) = Ids(evidence)
         /\ \A e \in Items(h) : e.status = StatusOf(e.id) /\ e.quarantined = (e.status = "unknown")
    /\ WritesFenced
=============================================================================
