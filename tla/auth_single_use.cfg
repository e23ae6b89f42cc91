\* Two logins that present the same nonce.
SPECIFICATION Spec
CONSTANTS
    Agents = {a1}
    Keys = {k1}
    Policies = {}
    Nonces = {n1}
    Logins = {l1, l2}
    Calls = {}
    Actions = {Star}
    ActionLists = {}
    Star = Star
    Domains = {}
    DefaultDomains = {}
    Nil = Nil
    NonceLife = 1
    TokenLife = 1
    MaxTime = 2
CHECK_DEADLOCK FALSE
INVARIANT NoncesAreSingleUse
