CONSTANTS
  List = {0, 1}
  Vector <- MCVector
  MaxRows = 3
  bs = 2
  MaxThread = 2
  Calls <- MCCalls
  NoFilter = NoFilter
  Stale = Stale
SPECIFICATION IvfPqSpec
CHECK_DEADLOCK FALSE
INVARIANTS ErrorsAligned AnswerIsExact FullConfidenceLosesNothing MatchesBruteForce
