CONSTANTS
  k1 = k1
  k2 = k2
  k3 = k3
  k4 = k4
  Keys = {k1, k2, k3, k4}
  Values = {a, b}
  None = None
  HashBits = 4
  Hash <- MCHash
  Texts <- MCTexts
  Nul = Nul
  Junk = Junk
  TextSizes = {0, 2, 4}
  MaxTexts = 5
  Ints = {i}
  Floats = {f}
  ByteBits = 2
  NumberSizes = {0, 1, 4}
  DefaultBits = 2
  MaxNumbers = 9
  SyscallLists <- MCSyscallLists
  CodeSizes = {3}
  Orders = {"little", "big"}
  Few = 2
SPECIFICATION MCSpec
PROPERTIES EveryPutReturns
