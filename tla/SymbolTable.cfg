CONSTANTS
  Names = {x, y}
  Data = {d1, d2}
  Null = Null
  MaxScopes = 3
SPECIFICATION Spec
INVARIANTS IInv RefusesExactly NothingLost
PROPERTIES ImplementsScopeStack
