SPECIFICATION InferenceSpec
CONSTANTS
  Pages = {p1, p2}
  Models = {m1}
  Inputs = {i1}
  Earlier = 1
  MaxRuns = 3
  MaxRecent = 2
  NoModel = NoModel
SYMMETRY Symmetry
INVARIANTS
  ResultsMatchProvenance
  RunsAreRemembered
  RecordsAreTrue
CHECK_DEADLOCK FALSE
