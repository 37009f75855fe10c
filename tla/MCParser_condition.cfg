SPECIFICATION Spec
CONSTANTS
  Names = {"i", "j"}
  BlockNames = {"b"}
  ArgLists <- MCArgLists
  MaxLevel = 2
  MaxNested = 3
  MaxOpen = 3
  MaxArgs = 2
  Uses <- SumConditions
INVARIANT DepthExact
CHECK_DEADLOCK FALSE
VIEW ParserView
