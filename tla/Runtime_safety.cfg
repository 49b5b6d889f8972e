CONSTANTS
    q1 = q1  q2 = q2  lw = lw
    e_w1 = e_w1  e_w2 = e_w2  e_r1 = e_r1  g1 = g1  g2 = g2  g3 = g3  k1 = k1
    none = none  p1 = p1  p2 = p2  ep1 = ep1  ep2 = ep2
    nowhere = nowhere  arch = arch  free = free
    NoProc = NoProc
    NoTask = NoTask
    Workers = {lw, w2}
    Procs = {q1, q2}
    Tasks = {t1, t2}
    MaxDepth = 2
    Live = FALSE
SYMMETRY RuntimeSymmetry
SPECIFICATION MCSpec
INVARIANTS LeaseInv LeaseIsSafe GenerationInv PlanInv
PROPERTIES ConfirmedIsActivated 
CHECK_DEADLOCK FALSE
