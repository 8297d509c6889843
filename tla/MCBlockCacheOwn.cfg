CONSTANTS
  f1 = f1
  f2 = f2
  i1 = i1
  i2 = i2
  t1 = t1
  t2 = t2
  File = {f1, f2}
  Instance = {i1, i2}
  Thread = {t1, t2}
  FileOf <- OwnFile
  InstanceOf <- OwnInstance
  Entry = {e1, e2, e3}
  NList = 2
  Sizes <- TwoSizes
  OneEntrySize = 2
  StartOffset = 3
  BlockSize = 4
  TailSize = 1
  Nil = Nil
SPECIFICATION FairSpec
INVARIANTS NoDangling ScansTheList CachedIsTheList HandlesAccounted
PROPERTY ScanEnds
