SPECIFICATION Spec
CONSTANTS
  a = a
  b = b
  c = c
  Symbol = {a, b, c}
  MaxVersion = 2
PROPERTY
  DefinedStayValid
CHECK_DEADLOCK FALSE
