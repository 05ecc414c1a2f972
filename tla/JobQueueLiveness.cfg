SPECIFICATION FairSpec
CONSTANTS
    None = None
    j1 = j1  j2 = j2
    w1 = w1  w2 = w2  w3 = w3  s1 = s1  s2 = s2
    Jobs = {j1}
    Workers = {w1, w2}
    Schedulers = {s1}
    Scope <- AllJobs
    Priority <- SamePriority
    MaxAttempts = 2
    LeaseTicks = 1
    BackoffBase = 1
    BackoffCap = 1
    MaxDelay = 1
    MaxCrashes = 2
    WithRenewal = TRUE
    WithPurge = TRUE
INVARIANT ClaimableUnleased
PROPERTIES FollowsLifecycle EveryJobEnds
