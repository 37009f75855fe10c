CONSTANTS
  Roots = {a, b}
  HashKeys = {k}
  MaxLen = 1
  MaxStr = 2
  MaxLive = 3
  NestedSource = FALSE
SPECIFICATION Spec
PROPERTIES ImplementsValueStore
SYMMETRY RootSymmetry
VIEW HeapView
