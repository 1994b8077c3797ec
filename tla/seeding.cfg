SPECIFICATION FairSpec
CONSTANTS
  t1 = t1
  t2 = t2
  a = a
  Task = {t1, t2}
  Solved = {t2}
  Patches <- MCPatches
  Worker = {w1, w2}
  MaxDeaths = 1
  MaxExpiries = 2
  MaxRaises = 1
INVARIANTS QueuedIsRecorded 
PROPERTIES QuietSeedIsSearched
CHECK_DEADLOCK FALSE
