CONSTANTS
  pA = pA
  pB = pB
  pC = pC
  pD = pD
  n1 = n1
  n2 = n2
  Thread = {t1, t2}
  Profile = {pA, pB, pC, pD}
  ROOT = ROOT
  TotalTime = TotalTime
  Name <- MCName
  Double = {n1}
  ParentOf <- MCParentOf
  Calls <- OneOrder
  MaxOps = 3
  MaxCalls = 2
  Nil = Nil
SPECIFICATION Spec
CHECK_DEADLOCK FALSE
INVARIANTS CountersLinked NoUpdateLost
