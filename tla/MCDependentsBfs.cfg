SPECIFICATION FairSpec
CONSTANTS
  n1 = n1
  n2 = n2
  n3 = n3
  Node = {n1, n2, n3}
  Source = n1
INVARIANTS
  ResultIsDependents
  EmittedOnce
PROPERTY
  Terminates
CHECK_DEADLOCK FALSE
