CONSTANTS
  Buffered = {FALSE, TRUE}
  Live = {FALSE, TRUE}
  NullFlags = TRUE
  MinTrain = 2
  BatchSizes = {0, 1, 2}
  MaxRows = 5
  MaxOpens = 2
  Nil = Nil
  Torn = Torn
SPECIFICATION Spec
CHECK_DEADLOCK FALSE
INVARIANTS CarefulIndexIsComplete CarefulFlushIsComplete NoRowTwice
