---------------------------- MODULE MCDelegation ----------------------------
(* Delegation for TLC: two resources, of which one covers the other, and   *)
(* restrictions and contexts that tell the caveats apart.                  *)
EXTENDS Delegation, TLC

CONSTANTS a1, a2, all, part, read, write, here, there

MCCovers == [r \in {all, part} |-> IF r = all THEN {all, part} ELSE {part}]

Wide   == [to |-> a2, resource |-> all, actions |-> {read, write}, ttl |-> 1,
           address |-> None, uses |-> None]
Narrow == [to |-> a1, resource |-> part, actions |-> {read}, ttl |-> 2,
           address |-> here, uses |-> 0]
MCRestrictions == {Wide, Narrow}

MCInitialCaveats ==
    {<<>>, <<CaveatOf("time_after", 0), CaveatOf("delegation_depth", 2)>>}

Call == [agent |-> a2, resource |-> part, action |-> read, address |-> here,
         uses |-> 0, depth |-> 0]
MCContexts == {Call, [Call EXCEPT !.agent = a1],
               [Call EXCEPT !.agent = a1, !.depth = 2],
               [Call EXCEPT !.agent = a1, !.depth = 3]}

(* Processes are interchangeable.                                          *)
Symmetry == Permutations(Processes)
=============================================================================
