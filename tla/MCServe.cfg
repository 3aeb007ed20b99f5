\* A request delivered twice over five providers: the claims table, time and
\* crashes, where failover goes, what the log says of it, and that it ends.
CONSTANTS
    d1 = d1  d2 = d2
    r1 = r1
    p1 = p1  p2 = p2  p3 = p3  p4 = p4  p5 = p5
    eu = eu  us = us
    NoClaim = NoClaim  NoOutcome = NoOutcome  None = None
    Delivery = {d1, d2}
    Execution = {d1, d2}
    Request = {r1}
    RequestOf <- AllFor1
    Provider = {p1, p2, p3, p4, p5}
    Region = {eu, us}
    Candidates <- MixedProviders
    ProcessingRegion <- BothInEU
    StorageRegion <- OneStoredAbroad
    ZeroRetention <- AllButP5
    Adapter <- AllButP3
    TenantRegion <- InEU
    NeedsZeroRetention = {r1}
    HealthViews <- SomeHealth
    EarlierLogs <- AnyLogs
    MaxAttempts = 2
    ClaimTtl = 2
    MaxTime = 3
SPECIFICATION FairSpec
INVARIANTS
    OneBillPerWindow
    OutcomeOfHolderOrOverrun
    AlreadyServedIsReal
    EndedRunSettlesItsClaim
    FailoverStaysInRegion
    LogTellsTheCalls
PROPERTY EveryDeliveryEnds
CHECK_DEADLOCK FALSE
