SPECIFICATION Spec
CONSTANTS
    StockMachine = {m1, m2}
    Store = {s1, s2, s3}
    MaxStarts = 2
    MaxStoreChanges = 1
    MaxStockFaults = 1
    NoHolder = NoHolder
    SiteCrawler = {1, 2, 3}
    Domain = {1, 2}
    DomainOf <- MCDomainOf
    FailureLimit = 2
    MaxResults = 4
    PaceWorker = {w1, w2}
    CrawlDelay = 2
    MaxTime = 4
    Nobody = Nobody
    LaneRow = {1, 2, 3}
    ReleaseRow = {1}
    BatchSize = 2
    MaxNow = 2
    ClaimBatchSize = 2
    StrandedFloor = 3
    StrandedSlack = 2
    PaceDelay = 1
    MaxEnabled = 5
    MaxAge = 11
    Source = {a, b}
    Price = {1, 2, 3}
    Tab = {t1, t2}
    FeedLimit = 1
    MaxWrites = 3
    MaxFeeds = 2
    MaxClicks = 1
    NoPrice = NoPrice
    ConfigMachine = {m1, m2}
    ConfigCall = {1, 2}
    MaxVersion = 2
    MaxLoads = 2
    Empty = Empty
    Client = {1, 2}
    User = {1, 2}
    UserOf <- MCUserOf
    Everyone = 0
    RecentEvents = 2
    MaxEvents = 3
    Handshake = {1, 2, 3}
    Account = {1, 2}
    AccountOf <- MCAccountOf
    Invite = {i1}
    Redeemer = {r1, r2}
    MaxFailures = 2
    MaxSignInFaults = 1
    Nil = Nil
    QueueSize = 2
    MaxRecords = 4
    Shops = {"joyful", "xl", "don", "bella", "sacred", "earache", "flenser", "lenoise", "monorail", "trans", "matador", "counter", "iodine", "revolver", "mov", "spkr", "rhino"}
    RetryLimits = {0, 2}
    PageLimit = 1
    MaxPage = 2
    MaxProducts = 3
INVARIANTS
    AllTimeLowIsReported
    LostOnlyToOvertaking
    ReadsItsWrites
    MigratedOnce
    StreamHasNoGap
    SignupMadeUser
    StopLosesNothing
    ReplacedOnlyByTheCatalog
    SoldOutIsBelieved
    ResumeCoversUnsynced
    NoSnapshotOutlivesKind
    CountsFollowArrival
    SiteIsNotHammered
    SlackKeepsLivePasses
PROPERTIES
    ServedInTurn
CHECK_DEADLOCK FALSE
