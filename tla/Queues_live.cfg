CONSTANTS
    a1 = a1  a2 = a2  d1 = d1  r1 = r1  e1 = e1  w1 = w1  w2 = w2
    None = None
    target <- MCTarget
    Archives = {a1, a2}
    Deletes = {}
    Vectors = {}
    MaxPath = 2
    MaxEdits = 0
    Faults <- NoFaults
    MaxTasks = 2
    MaxCrashes = 1
    ClaimsExpire = FALSE
    PayloadFails = FALSE
    ForLiveness = TRUE
SPECIFICATION MCFairSpec
PROPERTIES QueueDrains RequestsSettle TasksSettle
CHECK_DEADLOCK FALSE
