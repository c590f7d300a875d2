SPECIFICATION Spec
CONSTANTS
  f1 = f1
  f2 = f2
  f3 = f3
  none = none
  x = x
  y = y
  Fragment = {f1, f2, f3}
  Symbol = {x, y}
  NoFragment = none
INVARIANTS
  ProducerActive
  ActiveDependsOnActive
  ActiveAcyclic
PROPERTY
  ImplementsInvalidation
SYMMETRY Sym
CHECK_DEADLOCK FALSE
