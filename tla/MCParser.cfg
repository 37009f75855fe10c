SPECIFICATION Spec
CONSTANTS
  Names = {"i", "j"}
  BlockNames = {"b"}
  ArgLists <- MCArgLists
  MaxLevel = 2
  MaxNested = 3
  MaxOpen = 4
  MaxArgs = 2
  Uses <- Ending
INVARIANTS TypeOK DepthExact JumpsAgree OperandsExact FramesExact FlagsExact
CHECK_DEADLOCK FALSE
VIEW ParserView
