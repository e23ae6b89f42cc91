\* Two requests over one connection, in every mode, with one redirect.
SPECIFICATION FairSpec
CONSTANTS
    r1 = r1
    r2 = r2
    t1 = t1
    t2 = t2
    forged = forged
    d1 = d1
    d2 = d2
    http1 = http1
    https1 = https1
    https2 = https2
    gopher1 = gopher1
    local2 = local2
    s1 = s1
    Requests = {r1, r2}
    Asks <- MCAsks
    Genuine = {t1, t2}
    Permissions <- MCPermissions
    Methods = {"GET", "POST"}
    DefaultDomains = {d2}
    DomainOf <- MCDomainOf
    Blocked = {local2}
    NotHttp = {gopher1}
    Upgrades <- MCUpgrades
    DefaultSecret <- MCDefaultSecret
    Secrets = {s1}
    StreamAbove = 1
    MaxSize = 2
    MaxRedirects = 1
    PoolSize = 1
    None = None
    Unparsable = Unparsable
    Relative = Relative
CHECK_DEADLOCK FALSE
INVARIANTS
    TypeOK
    TokenLeavesForWantOfSecret
PROPERTIES
    ImplementsContract
    EveryRequestIsAnswered
