CONSTANTS
  Thread = {t1, t2}
  Key = {k1, k2}
  Entry = {e1, e2, e3}
  Charge = {1, 2}
  Capacity = {1, 3}
  MaxHandles = 2
  MaxLookups = 3
  Nil = Nil
SPECIFICATION Spec
SYMMETRY Symmetry
INVARIANTS
  UsageIsFootprint LruIsIdle OverCapacityOnlyPinned HeldIsValid DroppedIsFreedOnce IInv
PROPERTIES EvictionOrder ImplementsCacheSpec
