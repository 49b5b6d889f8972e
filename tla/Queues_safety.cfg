CONSTANTS
    a1 = a1  a2 = a2  d1 = d1  r1 = r1  e1 = e1  w1 = w1  w2 = w2
    None = None
    target <- MCTarget
    Archives = {a1}
    Deletes = {d1}
    Vectors = {}
    MaxPath = 1
    MaxEdits = 0
    Faults <- JournalFaults
    MaxTasks = 2
    MaxCrashes = 1
    ClaimsExpire = TRUE
    PayloadFails = TRUE
    ForLiveness = FALSE
SYMMETRY QueueSymmetry
SPECIFICATION MCSpec
INVARIANTS QueueInv  DerivationInv
PROPERTIES NoLateReopening ClaimsAreFenced
CHECK_DEADLOCK FALSE
