SPECIFICATION Spec
CONSTANTS
  d = d
  s = s
  a = a
  b = b
  c = c
  m = m
  m2 = m2
  e = e
  v = v
  Nodes = {d, s, a, b, c, m, m2, e, v}
  Kind <- MCKind
  Learners = {b}
  Saved <- MCSaved
  HistoryLimit = 2
  MaxEdits = 3
  NoGraph = NoGraph
  MaxCanvases = 3
  MaxSaves = 2
  MaxUnpinned = 1
  Names = {mine, other}
  MyPipeline = mine
INVARIANT
  SentInRunnableOrder
CHECK_DEADLOCK FALSE
