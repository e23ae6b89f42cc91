------------------------- MODULE MCSplitKeySecrets -------------------------
(* SplitKeySecrets for TLC: small sets of requests as model values.        *)
EXTENDS SplitKeySecrets, TLC

(* Stores, deletes, reads and names are interchangeable.                   *)
Symmetry ==
    Permutations(StoreReqs) \cup Permutations(DeleteReqs)
        \cup Permutations(Names)
=============================================================================
