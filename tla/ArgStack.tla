------------------------------ MODULE ArgStack ------------------------------
(***************************************************************************)
(* The state machine of VMArgStack (src/src/CTPP2VMArgStack.cpp): calls of *)
(* its operations one at a time, in every order the virtual machine may    *)
(* make them.                                                              *)
(***************************************************************************)
EXTENDS ArgStackOps

CONSTANT MaxFrames   \* bound: base pointers saved at a time

ASSUME MaxFramesAssumption == MaxFrames \in Nat \ {0}

VARIABLES
  oVMArgStack,  \* the stack
  outcome       \* what the last call returned or threw

vars == <<oVMArgStack, outcome>>

Init ==
  /\ oVMArgStack = EmptyStack
  /\ outcome = Done

Return(s, result) == oVMArgStack' = s /\ outcome' = result

Throw(exception) == Return(oVMArgStack, exception)

PushElement(v) ==
  \/ CanPush(oVMArgStack) /\ Return(Pushed(oVMArgStack, v), Done)
  \/ ~CanPush(oVMArgStack) /\ Throw(Overflow)

PopElement ==
  \/ CanPop(oVMArgStack) /\ Return(Popped(oVMArgStack), Done)
  \/ ~CanPop(oVMArgStack) /\ Throw(Underflow)

GetElement(iPos) ==
  \/ /\ Access(oVMArgStack, iPos) = Done
     /\ Return(oVMArgStack, oVMArgStack.aStack[iPos])
  \/ /\ Access(oVMArgStack, iPos) # Done
     /\ Throw(Access(oVMArgStack, iPos))

GetTopElement(i) == GetElement(TopPos(oVMArgStack, i))

AssignTopElement(i, v) ==
  LET iPos == TopPos(oVMArgStack, i)
  IN \/ /\ Access(oVMArgStack, iPos) = Done
        /\ Return(Stored(oVMArgStack, iPos, v), Done)
     \/ /\ Access(oVMArgStack, iPos) # Done
        /\ Throw(Access(oVMArgStack, iPos))

ClearStack(iDepth) ==
  \/ CanClear(oVMArgStack, iDepth) /\ Return(Cleared(oVMArgStack, iDepth), Done)
  \/ ~CanClear(oVMArgStack, iDepth) /\ Throw(Underflow)

(* SaveBasePointer checks nothing.  Its one caller is the SAVEBP opcode,   *)
(* whose operand CallBlock (src/src/CTPP2Compiler.cpp:398) sets to the     *)
(* number of elements it has just pushed into the current frame.           *)
SaveBasePointer(iOffset) ==
  /\ Len(oVMArgStack.vBasePointers) < MaxFrames
  /\ iOffset <= Base(oVMArgStack) - oVMArgStack.iStackPointer
  /\ Return(BaseSaved(oVMArgStack, iOffset), Done)

(* RestoreBasePointer checks nothing either: RESTBP follows its SAVEBP.    *)
RestoreBasePointer ==
  /\ Len(oVMArgStack.vBasePointers) > 1
  /\ Return(BaseRestored(oVMArgStack), Done)

Reset == Return(ResetOf(oVMArgStack), Done)

Next ==
  \/ \E v \in Values : PushElement(v)
  \/ PopElement
  \/ \E i \in 0 .. iMaxStackSize : GetTopElement(i)
  \/ \E i \in 0 .. iMaxStackSize, v \in Values : AssignTopElement(i, v)
  \/ \E d \in 0 .. iMaxStackSize + 1 : ClearStack(d)
  \/ \E d \in 0 .. iMaxStackSize : SaveBasePointer(d)
  \/ RestoreBasePointer
  \/ Reset

Spec == Init /\ [][Next]_vars

-----------------------------------------------------------------------------
(* Type correctness: the stack pointer never leaves the array, whatever    *)
(* sequence of calls the opcodes make.                                     *)
TypeOK ==
  /\ oVMArgStack \in StackType
  /\ outcome \in Values \cup {Done, Overflow, Underflow}

(* The saved base pointers descend towards the stack pointer, the oldest   *)
(* is the end of the array, and the pointer is inside the newest frame:    *)
(* PopElement's test for equality (line 88) is enough only because of it.  *)
FramesNested ==
  LET bp == oVMArgStack.vBasePointers
  IN /\ bp # <<>>
     /\ bp[1] = iMaxStackSize
     /\ \A i, j \in 1 .. Len(bp) : i <= j => bp[j] <= bp[i]
     /\ oVMArgStack.iStackPointer <= bp[Len(bp)]

(* A called block cannot reach its caller's elements: until the base       *)
(* pointer is restored, no call changes an element above it.  (Reset       *)
(* changes no element either.)                                             *)
HiddenKept ==
  [][\A p \in Positions :
        p >= Base(oVMArgStack)
          => oVMArgStack'.aStack[p] = oVMArgStack.aStack[p]]_vars

(* The stack of frames this array stands for. *)
FrameOf(s, i) ==
  LET lo == IF i = Len(s.vBasePointers) THEN s.iStackPointer ELSE s.vBasePointers[i + 1]
  IN [k \in 1 .. s.vBasePointers[i] - lo |-> s.aStack[lo + k - 1]]

AbstractFrames(s) == [i \in 1 .. Len(s.vBasePointers) |-> FrameOf(s, i)]

Abs == INSTANCE FrameStack WITH
         Capacity <- iMaxStackSize,
         frames   <- AbstractFrames(oVMArgStack)

(* VMArgStack implements a stack of frames: every call has the effect,     *)
(* returns the element or throws the exception the abstract one does.      *)
ImplementsFrameStack == Abs!Spec
=============================================================================
