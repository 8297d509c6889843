CONSTANTS
  s1 = s1
  s2 = s2
  Searcher = {s1, s2}
  Options <- MCOptions
  Path = {p}
  Entry = {e1, e2, e3}
  MaxVersion = 2
  Misfits = {2}
  Nil = Nil
SPECIFICATION Spec
SYMMETRY Symmetry
INVARIANTS ServedIsPinned HandlesAccounted ReadIsFresh
