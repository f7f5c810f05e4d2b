SPECIFICATION Spec
CONSTANTS
    s1 = s1
    s2 = s2
    r1 = r1
    r2 = r2
    i1 = i1
    i2 = i2
    a = a
    Release = {}
    Item = {i1, i2}
    Store = {a}
    StoreOf <- OneStore
    Session = {s1, s2}
    Kinds = {"save", "recheck", "restore", "sweep", "switch", "enable", "disable", "snapshot"}
    MaxTransactions = 3
    MaxBatch = 2
    NULL = NULL
SYMMETRY Symmetry
INVARIANTS
    InterestHasRow
    ClicksAreNoVictims
    Inv
CHECK_DEADLOCK FALSE
