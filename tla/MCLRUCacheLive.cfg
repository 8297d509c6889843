CONSTANTS
  Thread = {t1, t2}
  Key = {k1}
  Entry = {e1, e2}
  Charge = {1, 2}
  Capacity = {1, 2}
  MaxHandles = 1
  MaxLookups = 2
  Nil = Nil
SPECIFICATION FairSpec
PROPERTIES CallsReturn DroppedIsReclaimed
