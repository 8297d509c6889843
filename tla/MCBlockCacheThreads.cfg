CONSTANTS
  f1 = f1
  f2 = f2
  i1 = i1
  i2 = i2
  t1 = t1
  t2 = t2
  File = {f1}
  Instance = {i1}
  Thread = {t1, t2}
  FileOf <- OneFile
  InstanceOf <- SameInstance
  Entry = {e1, e2, e3}
  NList = 1
  Sizes <- OneSize
  OneEntrySize = 2
  StartOffset = 3
  BlockSize = 4
  TailSize = 1
  Nil = Nil
SPECIFICATION Spec
INVARIANT NoDangling
