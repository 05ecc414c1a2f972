SPECIFICATION FairSpec
CONSTANTS
    e1 = e1  e2 = e2  l1 = l1  l2 = l2  c1 = c1  b1 = b1
    None = None
    Entities = {e1, e2}
    Unlabelled = {e2}
    Loops = {l1, l2}
    Callers = {c1}
    Bulk = {b1}
    Providers = 1
    Modes = {"shadow", "queue"}
    Budget = 1
    MinPct = 100
    ById = TRUE
    MaxRequests = 2
    MaxRestarts = 1
    MaxErrors = 1
INVARIANTS TypeOK ClaimExclusive ProcessingHasWorker
PROPERTY PendingSettles
