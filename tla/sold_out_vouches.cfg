SPECIFICATION WalkSpec
CONSTANTS
    Shops = {"spkr"}
    RetryLimits = {0}
    PageLimit = 1
    MaxPage = 3
    MaxProducts = 2
INVARIANTS
    EmptyMeansSoldOut
CHECK_DEADLOCK FALSE
