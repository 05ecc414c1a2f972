SPECIFICATION FairSpec
CONSTANTS
    c1 = c1
    c2 = c2
    c3 = c3
    Callers = {c1, c2, c3}
    Threshold = 3
    RecoveryTicks = 2
INVARIANTS TypeOK ClosedBelowThreshold
PROPERTIES FailureReopens SelfHeals
