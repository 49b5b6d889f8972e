CONSTANTS
    None = None
    Docs = {d1}
    Workers = {w1, w2}
    MaxAttempts = 2
    Cap = 4
    MaxPolicies = 2
    MaxDays = 1
    MaxCrashes = 0
    Deletes = FALSE
    Slow = FALSE
SPECIFICATION Spec
INVARIANT PatchFitsPolicy
CHECK_DEADLOCK FALSE
