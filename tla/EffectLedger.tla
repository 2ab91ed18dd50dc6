---------------------------- MODULE EffectLedger ----------------------------
(***************************************************************************)
(* What the runtime promises about effects whose acknowledgement was lost  *)
(* (MP-7): such an effect stays open, and can be looked up, until somebody *)
(* settles it.  Neither the end of a turn, nor the start of another one,   *)
(* nor a failed session closes it; a handle is issued once, and a settled  *)
(* effect is never opened again.  Module AgentTurn implements this         *)
(* specification.                                                          *)
(***************************************************************************)
EXTENDS Naturals

VARIABLES turn,             \* turns begun so far
          next,             \* the handle (ExecutionId) to issue next
          inflight,         \* effects the executor is working on
          open              \* effects that may have happened, not settled

ledgerVars == <<turn, next, inflight, open>>

Init ==
    /\ turn = 0
    /\ next = 1
    /\ inflight = {}
    /\ open = {}

(* A turn begins: it closes nothing, whatever the last one left open.      *)
NewTurn ==
    /\ turn' = turn + 1
    /\ UNCHANGED <<next, inflight, open>>

(* A call is handed to its executor.                                       *)
Start ==
    /\ inflight' = inflight \cup {next}
    /\ next' = next + 1
    /\ UNCHANGED <<turn, open>>

(* A call is refused before any contact; its handle is spent.              *)
Refuse ==
    /\ next' = next + 1
    /\ UNCHANGED <<turn, inflight, open>>

(* A provider reports an uncertain effect that had no handle yet.          *)
LoseFresh ==
    /\ open' = open \cup {next}
    /\ next' = next + 1
    /\ UNCHANGED <<turn, inflight>>

Acknowledge ==
    /\ \E id \in inflight : inflight' = inflight \ {id}
    /\ UNCHANGED <<turn, next, open>>

Lose ==
    /\ \E id \in inflight : /\ inflight' = inflight \ {id}
                            /\ open' = open \cup {id}
    /\ UNCHANGED <<turn, next>>

(* A reconciler answered, or the host gave the lookup up.                  *)
Settle ==
    /\ \E id \in open : open' = open \ {id}
    /\ UNCHANGED <<turn, next, inflight>>

Next == NewTurn \/ Start \/ Refuse \/ LoseFresh \/ Acknowledge \/ Lose \/ Settle

Spec == Init /\ [][Next]_ledgerVars

=============================================================================
