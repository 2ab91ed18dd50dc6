-------------------------- MODULE MCPendingEffects --------------------------
(* Instances of PendingEffects for TLC. *)
EXTENDS PendingEffects, TLC

\* The executor adapters are interchangeable: they are bound to the same session.
SlotSymmetry == Permutations(Slots)

\* All slots serve one session, so that they compete for its call ids.
OneSession == [x \in Slots |-> "s1"]

=============================================================================
