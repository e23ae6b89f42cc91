\* Two names, two stores, a delete, a read, an injection; every fault.
SPECIFICATION Spec
CONSTANTS
    Names = {n1, n2}
    StoreReqs = {w1, w2}
    DeleteReqs = {d1}
    ReadReqs = {r1}
    InjectReqs = {i1}
    Nil = Nil
    Garbage = Garbage
    Faults = {"network", "redis", "database", "crash", "expiry"}
SYMMETRY Symmetry
CHECK_DEADLOCK FALSE
INVARIANTS
    TypeOK
    RowHasItsShareStored
    ServedValueIsExplained
    DeleteIsFinal
    UndisturbedPairIsWhole
PROPERTY ImplementsVault
