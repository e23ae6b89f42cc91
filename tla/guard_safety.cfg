\* Three requests of two identifiers over three tokens, a table of one entry.
SPECIFICATION Spec
CONSTANTS
    k1 = k1
    k2 = k2
    k3 = k3
    Requests = {r1, r2, r3}
    Identifiers = {c1, c2}
    Tokens <- AllTokens
    Malformed = Malformed
    Claims <- AllClaims
    MaxAttempts = 3
    Window = 2
    MaxAge = 1
    MaxEntries = 1
    MaxTokenAge = 1
    MaxSkew = 0
    MaxTime = 3
SYMMETRY Symmetry
CHECK_DEADLOCK FALSE
INVARIANTS
    TypeOK
    AttemptsAreRationed
    TokensPassOnce
    TableIsBounded
