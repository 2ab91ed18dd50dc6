--------------------------- MODULE MCContentStore ---------------------------
(* Instances of ContentStore for TLC. *)
EXTENDS ContentStore, TLC

CONSTANT MaxWork   \* bound: checkpoints plus moves, a late timestamp costing two more

StoreSymmetry == Permutations(Branches) \cup Permutations(Payloads)

Late == Cardinality({i \in DOMAIN contents : contents[i].at > 0})
        + Cardinality({r \in reflog : r.at > 0})

Small == Len(contents) + moves + 2 * Late <= MaxWork
=============================================================================
