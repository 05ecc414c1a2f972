SPECIFICATION FairSpec
CONSTANTS
    j1 = j1  j2 = j2
    Jobs = {j1, j2}
    MaxConcurrent = 1
    MaxStops = 2
    MaxFaults = 2
INVARIANTS TypeOK PermitsBalance ToldIsFinal TwiceOnlyLate
PROPERTY SubmissionSettles
