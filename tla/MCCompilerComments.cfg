SPECIFICATION Spec
CONSTANTS
  MinInt <- MCMinInt
  MaxInt = 3
  Results = {0, 1, 2}
  MaxEvents = 6
  Sources <- CommentSources
CHECK_DEADLOCK FALSE
INVARIANT
  AnyCommentHolds
