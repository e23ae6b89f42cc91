\* Two logins of two agents, with either key, and a policy that comes and goes
\* around them and around a call.
SPECIFICATION Spec
CONSTANTS
    Agents = {a1, a2}
    Keys = {k1, k2}
    Policies = {p1}
    Nonces = {n1}
    Logins = {l1, l2}
    Calls = {c1}
    Actions = {d1, d2, Star}
    ActionLists = {{d2}, {Star}}
    Star = Star
    Domains = {d1, d2}
    DefaultDomains = {d1}
    Nil = Nil
    NonceLife = 1
    TokenLife = 1
    MaxTime = 3
SYMMETRY Symmetry
CHECK_DEADLOCK FALSE
INVARIANTS
    TypeOK
    TokenIsEarned
    ReplayFails
    RevocationIsBounded
