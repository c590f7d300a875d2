SPECIFICATION Spec
CONSTANTS
  a = a
  b = b
  c = c
  Symbol = {a, b, c}
  MaxVersion = 3
INVARIANTS
  TypeOK
  FreshAfterFirst
PROPERTIES
  VersionsIdentifyDefinitions
  ImplementsSymbolInvalidation
SYMMETRY Sym
CHECK_DEADLOCK FALSE
