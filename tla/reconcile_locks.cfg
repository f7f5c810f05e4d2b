SPECIFICATION Spec
CONSTANTS
    s1 = s1
    s2 = s2
    r1 = r1
    r2 = r2
    i1 = i1
    i2 = i2
    a = a
    Release = {r1, r2}
    Item = {i1, i2}
    Store = {a}
    StoreOf <- OneStore
    Session = {s1, s2}
    Kinds = {"save", "sweep", "enable", "snapshot", "page"}
    MaxTransactions = 2
    MaxBatch = 2
    NULL = NULL
SYMMETRY Symmetry
INVARIANTS
    HolderMovesOn
CHECK_DEADLOCK FALSE
