CONSTANTS
  MaxHandlers = {4, 52}
  UserHandlers <- MCUserHandlers
  Spelled <- MCSpelled
  Removable = {"f", "F", "avg"}
  CalledNames <- MCCalledNames
  Vars = {v1, v2}
  Literals <- MCLiterals
  MaxText = 2
  MaxNumber = 1
  EscapeBufferLen = 7
  StringBufferLen = 3
  UIntRange = 64
  Calls <- MCCalls
  Files <- MCFiles
  CatalogKeys <- MCCatalogKeys
  MaxLoads = 2
SPECIFICATION Spec
INVARIANTS NamesResolve NumbersAgree RoundTrips AnswersAsSpecified
CHECK_DEADLOCK FALSE
