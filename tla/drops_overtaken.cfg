SPECIFICATION DropSpec
CONSTANTS
    Source = {a, b}
    Price = {1, 2}
    Tab = {t1}
    FeedLimit = 1
    MaxWrites = 2
    MaxFeeds = 2
    MaxClicks = 0
    NoPrice = NoPrice
INVARIANTS
    NothingReadUndelivered
CHECK_DEADLOCK FALSE
