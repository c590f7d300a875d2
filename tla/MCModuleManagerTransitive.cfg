CONSTANTS
  m = m
  a = a
  b = b
  gone = gone
  File = {m, a, b, gone}
  Main = m
  Missing = {gone}
  Stem = {"main", "p", "x", "y", "z"}
  Absent = Absent
  Empty = Empty
  MaxDepth = 6
  Graphs <- MCGraphs
  Layouts <- MCLayouts
SPECIFICATION Spec
CHECK_DEADLOCK FALSE
INVARIANT
  TransitiveImports
