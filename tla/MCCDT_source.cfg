CONSTANTS
  Roots = {a, b}
  HashKeys = {}
  MaxLen = 2
  MaxStr = 0
  MaxLive = 3
  NestedSource = TRUE
SPECIFICATION Spec
INVARIANTS NoDangling
SYMMETRY RootSymmetry
VIEW HeapView
