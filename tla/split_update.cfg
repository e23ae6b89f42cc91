\* A store over an existing name, nothing going wrong.
SPECIFICATION Spec
CONSTANTS
    Names = {n1}
    StoreReqs = {w1, w2}
    DeleteReqs = {d1}
    ReadReqs = {r1}
    InjectReqs = {}
    Nil = Nil
    Garbage = Garbage
    Faults = {}
CHECK_DEADLOCK FALSE
PROPERTY StoreUpdates
