\* One name, a store, two deletes, a read, an injection.
SPECIFICATION FairSpec
CONSTANTS
    Names = {n1}
    StoreReqs = {w1}
    DeleteReqs = {d1, d2}
    ReadReqs = {r1}
    InjectReqs = {i1}
    Nil = Nil
    Garbage = Garbage
    Faults = {"network", "redis", "crash", "expiry"}
CHECK_DEADLOCK FALSE
PROPERTIES
    RequestsEnd
    DeletedShareLeaves
