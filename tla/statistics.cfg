SPECIFICATION FiguresSpec
CONSTANTS
  root = root
  a = a
  aa = aa
  Cand = {a, aa}
  Root = root
  Parent <- MCParent
  Outcome <- MCOutcome
  RootFailed = 2
  BatchMax = 2
  RecentMax = 2
  LiveRuns = 1
  MaxResults = 3
  MaxCreated = 3
  MaxRestarts = 1
INVARIANTS CountersAgree PayloadIsConsistent
PROPERTIES ShownFiguresNeverFall
CHECK_DEADLOCK FALSE
