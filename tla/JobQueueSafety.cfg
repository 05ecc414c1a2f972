SPECIFICATION Spec
CONSTANTS
    None = None
    j1 = j1  j2 = j2
    w1 = w1  w2 = w2  w3 = w3  s1 = s1  s2 = s2
    Jobs = {j1, j2}
    Workers = {w1, w2}
    Schedulers = {s1}
    Scope <- SecondScoped
    Priority <- FirstUrgent
    MaxAttempts = 2
    LeaseTicks = 1
    BackoffBase = 1
    BackoffCap = 2
    MaxDelay = 0
    MaxCrashes = 1
    WithRenewal = FALSE
    WithPurge = FALSE
INVARIANTS TypeOK ClaimsDistinct RunningIsLeased AttemptsCapped
PROPERTIES LeaseHandover NoEarlyClaim RecoverOnlyExpired
