SPECIFICATION NotebookSpec
CONSTANTS
  a = a
  b = b
  Fragment = {1, 2, 3}
  NoFragment = 0
  Symbol = {a, b}
  MaxVersion = 5
  MaxUnits = 5
  MaxEpoch = 5
  Units <- MCUnits
INVARIANTS
  LoadedModulesTracked
  ShownValidIsLive
  SymbolsFreshAfterFirst
  LoadedUnlessFailedLate
  ValidSymbolsLoaded
CHECK_DEADLOCK FALSE
