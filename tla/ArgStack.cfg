CONSTANTS
  iMaxStackSize = 4
  Values = {Undef, a}
  Undef = Undef
  MaxFrames = 4
  Done = Done
  Overflow = Overflow
  Underflow = Underflow
SPECIFICATION Spec
INVARIANTS TypeOK FramesNested
PROPERTIES HiddenKept ImplementsFrameStack
