SPECIFICATION FairSpec
CONSTANTS
    v1 = v1  v2 = v2  w1 = w1  w2 = w2  i1 = i1  i2 = i2  q1 = q1
    None = None
    Values = {v1, v2}
    Unknown = {v2}
    Workers = {w1, w2}
    Importers = {i1}
    Inline = {q1}
    Limit = 2
    MaxJobs = 2
    MaxRestarts = 1
    MaxErrors = 1
    MaxDiscards = 1
INVARIANTS TypeOK ClaimExclusive ResolvedOnce ProcessingHasWorker
PROPERTY PendingEnds
