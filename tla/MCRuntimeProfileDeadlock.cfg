CONSTANTS
  pA = pA
  pB = pB
  pC = pC
  pD = pD
  n1 = n1
  n2 = n2
  Thread = {t1, t2}
  Profile = {pA, pB, pC, pD}
  ROOT = ROOT
  TotalTime = TotalTime
  Name <- MCName
  Double = {n1}
  ParentOf <- MCParentOf
  Calls <- OneDirection
  MaxOps = 3
  MaxCalls = 2
  Nil = Nil
SPECIFICATION FairSpec
CHECK_DEADLOCK FALSE
PROPERTY CallsReturn
