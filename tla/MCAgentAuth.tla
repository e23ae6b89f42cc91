---------------------------- MODULE MCAgentAuth ----------------------------
(* AgentAuth for TLC: small sets as model values.                          *)
EXTENDS AgentAuth, TLC

(* Agents, keys, nonces and logins are interchangeable.                    *)
Symmetry ==
    Permutations(Agents) \cup Permutations(Keys) \cup Permutations(Nonces)
        \cup Permutations(Logins)
=============================================================================
