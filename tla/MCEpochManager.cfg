SPECIFICATION Spec
CONSTANTS
  c1 = c1
  c2 = c2
  c3 = c3
  x = x
  y = y
  Cell = {c1, c2, c3}
  Symbol = {x, y}
  MaxEpoch = 5
INVARIANTS
  ProducerLive
  ValidDependsOnValid
  DependsOnEarlier
  OneValidEpochPerCell
PROPERTY
  ImplementsInvalidation
SYMMETRY Sym
CHECK_DEADLOCK FALSE
