SPECIFICATION Spec
CONSTANTS
    kev = kev
    nvd = nvd
    osv = osv
    p = p
    a = a
    b = b
    c = c
    pysec = pysec
    Chain <- MCChain
    Feeds = {kev}
    PackageSources = {osv}
    CveSources = {kev, nvd}
    Period <- MCPeriod
    Ttl <- MCTtl
    FeedFreshFor = 3
    Backoffs <- MCBackoffs
    MaxRetryAfter = 2
    MaxForward = 2
    BeatEvery = 5
    Packages = {p}
    Advisories = {a, b, c}
    Batches <- MCBatches
    IdLists <- MCIdLists
    FeedIndexes <- MCFeedIndexes
    WireTimes = {1}
    RetryAfters = {1, 30}
    RestTimes = {0, 3}
    Replies = {"evidence", "nothing", "refused", "unavailable", "limited"}
    MaxFaults = 1
INVARIANT EachAskedOnce
PROPERTIES EvidenceIsRecent Paced StallIsBounded
CHECK_DEADLOCK FALSE
