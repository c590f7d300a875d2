SPECIFICATION ReplSpec
CONSTANTS
  a = a
  b = b
  c = c
  Fragment = {1, 2, 3, 4}
  NoFragment = 0
  Symbol = {a, b, c}
  MaxVersion = 4
  MaxUnits = 4
  Units <- MCUnits
PROPERTY
  EarlierCodeStaysLoaded
CHECK_DEADLOCK FALSE
