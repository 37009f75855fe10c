CONSTANTS
  Roots = {a, b}
  HashKeys = {}
  MaxLen = 2
  MaxStr = 0
  MaxLive = 3
  NestedSource = FALSE
SPECIFICATION Spec
INVARIANTS TypeOK RefcountExact NoDangling
SYMMETRY RootSymmetry
VIEW HeapView
