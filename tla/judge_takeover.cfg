SPECIFICATION Spec
CONSTANTS
    m1 = m1
    m2 = m2
    A = A
    B = B
    Machine = {m1, m2}
    Item = {1, 2}
    Record = {A, B}
    Snapshot <- MCSnapshot
    MaxRuns = 2
    MaxChanges = 1
    MaxStalls = 1
    MaxFaults = 1
    NULL = NULL
SYMMETRY Symmetry
INVARIANTS
    Inv
    ClearStands
    PaidOnce
    VerdictsKeepTheirRecord
    OverspendIsBounded
PROPERTIES
    ImplementsLease
CHECK_DEADLOCK FALSE
