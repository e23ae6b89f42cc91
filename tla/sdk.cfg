\* Two threads of one process and one of another.
SPECIFICATION Spec
CONSTANTS
    c1 = c1
    c2 = c2
    c3 = c3
    p1 = p1
    p2 = p2
    a1 = a1
    a2 = a2
    n1 = n1
    n2 = n2
    x0 = x0
    x1 = x1
    x2 = x2
    Calls = {c1, c2, c3}
    Processes = {p1, p2}
    ProcessOf <- MCProcessOf
    Asks <- MCAsks
    Known <- MCKnown
    Hosts <- MCHosts
    PolicyNames = {n2}
    ListLimit = 2
    Lifetime = 2
    Margin = 1
    MaxTime = 2
    Revoked = {x0}
    OnFile = {a1}
    None = None
CHECK_DEADLOCK FALSE
INVARIANTS
    TypeOK
    OrphansAreExplained
    NamesAreFound
    FreshIfAlone
    OwnTokenIfAlone
    RevocationsSurvive
    KeysAreTheirAgents
