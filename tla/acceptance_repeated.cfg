SPECIFICATION AcceptanceSpec
CONSTANTS
  t1 = t1
  root = root
  a = a
  b = b
  r1 = r1
  r2 = r2
  r3 = r3
  Tree = {t1}
  Cand = {a, b}
  Run = {r1, r2, r3}
  NoCand = NoCand
  Proc <- MCProc
  RootOf <- MCRootOf
  TreeOf <- MCTreeOf
  Path <- MCPath
  BatchMax <- MCBatch
  MayRun <- MCMayRun
  Observed = {"tasks", "candidates"}
  Hardware = TRUE
  RequireIsolation = TRUE
  PolicyOK = {a, b}
  MaxCrashes = 2
SYMMETRY MCRunSymmetry
INVARIANTS MergesAreVerified OneCleanWinner NoOrphanReservation LedgerMergedIsCommitted
PROPERTIES ReservationEndsByItsOwnRelease ImplementsReservation
CHECK_DEADLOCK FALSE
