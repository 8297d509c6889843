CONSTANTS
  Node <- MCNode
  Graphs <- MCGraphs
  Calls <- MCCalls
  Apis = {"range"}
  CosineLimits <- Limits
  NoFilter = NoFilter
  NoMap = NoMap
  FloatMax = 99
  Stale = Stale
SPECIFICATION FairSpec
CHECK_DEADLOCK FALSE
INVARIANTS AnswerIsSound WideSearchIsExact
PROPERTY SearchEnds
