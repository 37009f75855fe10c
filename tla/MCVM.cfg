SPECIFICATION MCSpec
CONSTANTS
  MaxValue = 2
  Values <- Val
  Undef = 0
  Done = Done
  Overflow = Overflow
  Underflow = Underflow
  iMaxStackSize = 8
  iMaxCodeStackSize = 1
  iMaxSteps = 12
  iDebugLevel = 0
  Programs <- AllPrograms
  Handlers = {"a", "b", "c"}
  Unknown = Unknown
  Word = 8
  InitialFlags <- SomeFlags
  MaxFrames = 8
  MaxRuns = 3
INVARIANTS IInv StepBound DispatchesOwn FramesNested
PROPERTIES Terminates CallersKept RegistersRestored
CHECK_DEADLOCK FALSE
