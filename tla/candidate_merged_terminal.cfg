SPECIFICATION FairSpec
CONSTANTS
  t1 = t1
  root = root
  a = a
  b = b
  r1 = r1
  r2 = r2
  r3 = r3
  Tree = {t1}
  Cand = {a, b}
  Run = {r1, r2}
  NoCand = NoCand
  Proc <- MCProc
  RootOf <- MCRootOf
  TreeOf <- MCTreeOf
  Path <- MCPath
  BatchMax <- MCBatch
  MayQueue <- MCRepeated
  Hardware = TRUE
  RequireIsolation = TRUE
  PolicyOK = {a, b}
  Observed = {"candidates"}
  MaxCrashes = 0
PROPERTIES CandidateMergedIsTerminal
CHECK_DEADLOCK FALSE
