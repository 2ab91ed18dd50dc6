----------------------------- MODULE MCTaskDag -----------------------------
(* Instances of TaskDag for TLC. *)
EXTENDS TaskDag, TLC

\* The last task by id is the most urgent, so that priority and the graph
\* pull topological_sort in opposite directions.
LateIsUrgent == [t \in Tasks |-> t]

WorkerSymmetry == Permutations(Workers)
=============================================================================
