SPECIFICATION Spec
CONSTANTS
  t1 = t1
  root = root
  a = a
  b = b
  e = e
  aa = aa
  w1 = w1
  w2 = w2
  Tree = {t1}
  Cand = {a, b, e, aa}
  Worker = {w1, w2}
  Proc = {w1, w2}
  NoWorker = NoWorker
  Task = t1
  Run <- MCRun
  RootOf <- MCRootOf
  TreeOf <- MCTreeOf
  Path <- MCPath
  Depth <- MCDepth
  Patches <- MCPatches
  Equivalent = {e}
  Strategy = "fallback"
  MaxChildren = 4
  MaxCapsules = 2
  MaxDepth = 2
  Observed = {}
  MaxExpiries = 1
  MaxFailures = 1
SYMMETRY MCWorkerSymmetry
INVARIANTS TypeOK BudgetIsEnforced CounterIsExact ExhaustedMeansSpent LockExcludes NoCandidateTwice
CHECK_DEADLOCK FALSE
