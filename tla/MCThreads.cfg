CONSTANTS
  MAX_THREADS = 3
  MAX_ITERATIONS = 2
  Names = {hello, other}
  Hello = hello
  None = None
SPECIFICATION LiveSpec
CHECK_DEADLOCK FALSE
INVARIANTS IInv DestroyedUnused
PROPERTIES AllPrinted
