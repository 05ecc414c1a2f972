SPECIFICATION Spec
CONSTANTS
    a1 = a1  a2 = a2  r1 = r1  r2 = r2  w1 = w1  w2 = w2  q1 = q1
    None = None
    Schedules = {a1}
    Replicas = {r1, r2}
    Workers = {w1, w2}
    Requests = {}
    Modes = {"off", "shadow", "queue"}
    FirstStatuses = {"pending", None}
    Tenant = TRUE
    InProcess = TRUE
    Flips = TRUE
    MaxAttempts = 2
    MaxOcc = 1
    MaxFaults = 1
    MaxCrashes = 2
INVARIANTS TypeOK OneJobPerOccurrence EffectsExplained OnePath
SYMMETRY Alike
