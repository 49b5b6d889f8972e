CONSTANTS
  w1 = w1  w2 = w2  r1 = r1  l1 = l1  l2 = l2  alien = alien  missing = missing
  m1 = m1  m2 = m2  a1 = a1  ra = ra  nobody = nobody
  pa = pa  pb = pb  base = base  none = none
  Writers = {w1, w2}
  Readers = {r1}
  Alien = alien
  Missing = missing
  MaxCrashes = 1
  Labels = {l1}
  MaxOps = 2
  MaxSearches = 0
  MaxFaults = 1
  MaxForeign = 0
  Live = TRUE
SPECIFICATION MCFairSpec
PROPERTIES MarkersGoAway LocksAreCleared RecordsAreDecided
CHECK_DEADLOCK FALSE
