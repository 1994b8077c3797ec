SPECIFICATION Spec
CONSTANTS
  f = f
  g = g
  c = c
  d = d
  e1 = e1
  e2 = e2
  File = {f, g}
  Cand = {c, d}
  Edit = {e1, e2}
  FileOf <- MCFileOf
  Taken <- MCTaken
  Main = Main
  NoCommit = NoCommit
  MaxIncidents = 1
INVARIANTS RestsOnBase CommittedTreeWasTested
PROPERTIES BaseIsNeverMoved OtherEditsSurvive
CHECK_DEADLOCK FALSE
SYMMETRY MCSymmetry
