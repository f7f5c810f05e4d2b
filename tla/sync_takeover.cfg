SPECIFICATION Spec
CONSTANTS
    m1 = m1
    m2 = m2
    x = x
    Machine = {m1, m2}
    Release = {x}
    MaxRuns = 2
    MaxChanges = 1
    MaxStalls = 2
    MaxFaults = 1
    NULL = NULL
SYMMETRY Symmetry
INVARIANTS
    CompleteIsTrue
    MatchExcludesSync
    Inv
PROPERTIES
    EndIsFinal
    ImplementsLease
CHECK_DEADLOCK FALSE
