\* Two processes, one of which starts again, and three macaroons.
SPECIFICATION Spec
CONSTANTS
    a1 = a1
    a2 = a2
    all = all
    part = part
    read = read
    write = write
    here = here
    there = there
    Processes = {p1, p2}
    Agents = {a1, a2}
    Resources = {all, part}
    Covers <- MCCovers
    Actions = {read, write}
    Addresses = {here, there}
    Restrictions <- MCRestrictions
    InitialCaveats <- MCInitialCaveats
    Contexts <- MCContexts
    MaxMacaroons = 3
    MaxClaims = 2
    MaxRuns = 1
    MaxTime = 1
    None = None
SYMMETRY Symmetry
CHECK_DEADLOCK FALSE
INVARIANTS
    RootSetsTheDepth
    DelegationNarrows
    ChainsAreDescents
