----------------------------- MODULE ArgStackOps ----------------------------
(***************************************************************************)
(* VMArgStack (src/src/CTPP2VMArgStack.cpp): the argument stack of the     *)
(* virtual machine.  It grows downwards from iMaxStackSize to 0;           *)
(* vBasePointers.back() is the first position above the current frame.     *)
(*                                                                         *)
(* The operations are operators on a stack value                           *)
(*    [iStackPointer, vBasePointers, aStack]                               *)
(* so that VM.tla can chain several of them in one step, as an opcode      *)
(* does; the state machine of ArgStack.tla calls them one at a time.       *)
(***************************************************************************)
EXTENDS Integers, Sequences

CONSTANTS
  iMaxStackSize,  \* constructor argument
  Values,         \* what an element can hold
  Undef,          \* what the elements of a new array hold
  Done, Overflow, Underflow

ASSUME MaxStackSizeAssumption == iMaxStackSize \in Nat \ {0}
ASSUME ValuesAssumption == Undef \in Values
ASSUME OutcomeAssumption ==
  /\ {Done, Overflow, Underflow} \cap Values = {}
  /\ Done \notin {Overflow, Underflow}

Positions == 0 .. iMaxStackSize - 1

StackType ==
  [ iStackPointer : 0 .. iMaxStackSize,
    vBasePointers : Seq(0 .. iMaxStackSize),
    aStack        : [Positions -> Values] ]

-----------------------------------------------------------------------------
(* The operations.                                                         *)

EmptyStack ==
  [ iStackPointer |-> iMaxStackSize,
    vBasePointers |-> <<iMaxStackSize>>,
    aStack        |-> [p \in Positions |-> Undef] ]

Base(s) == s.vBasePointers[Len(s.vBasePointers)]

CanPush(s) == s.iStackPointer # 0

Pushed(s, v) ==
  [s EXCEPT !.iStackPointer = @ - 1,
            !.aStack = [@ EXCEPT ![s.iStackPointer - 1] = v]]

PopNoCheck(s) == TRUE
CanPop(s) == s.iStackPointer # Base(s)

Popped(s) == [s EXCEPT !.iStackPointer = @ + 1]

(* GetElement: the exception it throws for iPos, or Done. *)
AccessToMax(s, iPos) ==
  IF iPos >= iMaxStackSize THEN Underflow
  ELSE IF iPos < s.iStackPointer THEN Overflow ELSE Done
Access(s, iPos) ==
  IF iPos >= Base(s) THEN Underflow
  ELSE IF iPos < s.iStackPointer THEN Overflow ELSE Done

TopPos(s, i) == s.iStackPointer + i

(* The caller assigns through the reference GetElement returns. *)
Stored(s, iPos, v) == [s EXCEPT !.aStack = [@ EXCEPT ![iPos] = v]]

ClearToMax(s, iDepth) == s.iStackPointer + iDepth <= iMaxStackSize
CanClear(s, iDepth) == s.iStackPointer + iDepth <= Base(s)

Cleared(s, iDepth) == [s EXCEPT !.iStackPointer = @ + iDepth]

BaseSaved(s, iOffset) ==
  [s EXCEPT !.vBasePointers = Append(@, s.iStackPointer + iOffset)]

BaseRestored(s) ==
  [s EXCEPT !.vBasePointers = SubSeq(@, 1, Len(@) - 1)]

ResetPointerOnly(s) == [s EXCEPT !.iStackPointer = iMaxStackSize]
ResetOf(s) ==
  [s EXCEPT !.iStackPointer = iMaxStackSize,
            !.vBasePointers = <<iMaxStackSize>>]
=============================================================================
