SPECIFICATION LiveSpec
CONSTANTS
    m1 = m1
    m2 = m2
    A = A
    B = B
    x = x
    Machine = {m1}
    Item = {1, 2}
    Record = {A, B}
    Snapshot <- MCSnapshot
    Release = {x}
    MaxRuns = 2
    MaxChanges = 1
    MaxStalls = 1
    MaxFaults = 1
    MaxSyncChanges = 0
    MaxSyncFaults = 2
    NULL = NULL
PROPERTIES
    UserCanJudge
    UserCanSync
CHECK_DEADLOCK FALSE
