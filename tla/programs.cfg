SPECIFICATION Spec
CONSTANTS
  MaxCount = 1
  MaxLabels = 2
  Tests = 3
  Lines = 4
  MaxFocus = 4
  MaxChildren = 2
  MaxDepth = 3
  Texts <- MCTexts
  Var = {"x", "y"}
  MaxWidth = 3
  Broken = Broken
  Garbled = Garbled
  Services <- MCServices
  Fixtures <- MCFixtures
  MaxExits = 2
INVARIANTS VerdictMatchesExitCodes FocusIsMostSuspicious CulpritIsTargeted
INVARIANTS SwapsAreExact OracleIsSound NoChildLeftBehind
PROPERTIES AuditEnds
CHECK_DEADLOCK FALSE
