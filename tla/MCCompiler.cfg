SPECIFICATION Spec
CONSTANTS
  MinInt <- MCMinInt
  MaxInt = 3
  Results = {0, 1, 2}
  MaxEvents = 6
  Sources <- MCSources
CHECK_DEADLOCK FALSE
INVARIANTS
  LexemesTile
  PositionsTrue
  ParsedIsPrinted
  BeginningKept
  NamesCollected
  BlocksWellFormed
  TraceIsSource
  OnlyExitDangles
  FaultsAtFlatElements
  TypesComparedByKind
  DeclarationsTyped
PROPERTY
  RangesEnd
