------------------------ MODULE MCSecurityValidator ------------------------
(* SecurityValidator for TLC: a token that ages, and two without claims.   *)
EXTENDS SecurityValidator, TLC

CONSTANTS k1, k2, k3

AllTokens == {k1, k2, k3}
AllClaims == [k \in AllTokens |-> IF k = k1 THEN [exp |-> 3, iat |-> 1, nbf |-> 2]
                                            ELSE [exp |-> 0, iat |-> 0, nbf |-> 0]]

Symmetry ==
    Permutations(Requests) \cup Permutations(Identifiers) \cup Permutations({k2, k3})
=============================================================================
