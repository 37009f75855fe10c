------------------------------ MODULE Compiler ------------------------------
(***************************************************************************)
(* CTPP2Compiler (src/src/CTPP2Compiler.cpp): one method per construct of  *)
(* the language.  Each appends instructions and keeps iStackDepth, its     *)
(* count of the elements the machine will have on the stack there; the     *)
(* places of loop variables and of arguments are computed from it.         *)
(*                                                                         *)
(* A method is an operator on the compiler's members.  flow is what the    *)
(* code does to the stack (StackShape.tla); scopes is what SymbolTable     *)
(* promises (ScopeStack.tla), the scope of the constructor left out: a set *)
(* of records per scope, at most one of a name.                            *)
(***************************************************************************)
EXTENDS StackShape

(* The constructor: the emitter's result becomes HR and is popped. *)
NewCompiler ==
  LET f == Append1(Flow(At(<<>>, Caller)), "SYSCALL", 0, <<Temp>>)
  IN [ iStackDepth |-> 0,
       iScopeNumber |-> 0,
       vSavedStackDepths |-> <<>>,
       scopes |-> <<>>,
       flow |-> Settled(Pop(SetHR(Plain(f, "MOV"), 0))) ]

(* Most methods append one instruction and change the depth. *)
Emit(c, f, delta) == [c EXCEPT !.flow = f, !.iStackDepth = @ + delta]

OutputVariable(c)   == Emit(c, Append1(c.flow, "OUTPUT", 1, <<>>), -1)
OutputStaticData(c) == Emit(c, Plain(c.flow, "OUTPUT"), 0)

PushConst(c)   == Emit(c, Push(c.flow), 1)
PopVariable(c) == Emit(c, Pop(c.flow), -1)
ExistStackVariable(c) == Emit(c, Plain(c.flow, "EXIST"), 0)
OpArithmetic(c) == Emit(c, Append1(c.flow, "ADD", 2, <<Temp>>), -1)
OpUnary(c)      == Emit(c, Append1(c.flow, "NEG", 1, <<Temp>>), 0)
OpCmp(c)        == Emit(c, Append1(c.flow, "CMP", 2, <<>>), -2)
ExecuteSyscall(c, iArgNum) == Emit(c, Append1(c.flow, "SYSCALL", iArgNum, <<Temp>>), -(iArgNum - 1))
RemoveInstruction(c) == Emit(c, TakenBack(c.flow), -1)
DecrDepth(c) == Emit(c, c.flow, -1)
Halt(c)      == Emit(c, Goto(c.flow, "HLT"), 0)

CondJump(c)         == Emit(c, Branch(c.flow, "JXX"), 0)
UncondJump(c)       == Emit(c, Goto(c.flow, "JMP"), 0)
UncondJumpTo(c, to) == Emit(c, GotoTo(c.flow, "JMP", to), 0)
RJump(c, n)         == Emit(c, BranchTo(c.flow, "RJXX", NextPlace(c.flow) + n), 0)
RUncondJump(c, n)   == Emit(c, GotoTo(c.flow, "RJMP", NextPlace(c.flow) + n), 0)

(* GetInstruction(...) -> argument = the end of the code. *)
Patched(c, from) == Emit(c, Join(c.flow, from), 0)

-----------------------------------------------------------------------------
(* Variables. *)

PreparePushComplexVariable(c) == Emit(c, Push(c.flow), 1)

ClearPushComplexVariable(c) ==
  Emit(c, Pop(Append1(c.flow, "XCHG", 2, <<Temp, Temp>>)), -1)

IndirectCall(c) ==
  Emit(c, Append1(Pop(c.flow), "REPLIND", 1, <<Temp>>), -1)

BlockVariablePlace(c, iIdx) == iIdx + c.iStackDepth
BlockVariablePlaceAfter(c, iIdx) == iIdx + c.iStackDepth + 1

PushBlockVariable(c, iIdx) ==
  Emit(c, Push(Reads(c.flow, BlockVariablePlace(c, iIdx), Arg(iIdx))), 1)

(* iLoop: the innermost loop that is open, 0 outside of loops *)
PrepareLocalScope(c, iLoop) ==
  Emit(c, Push(IF iLoop > 0 THEN ReadsHR(c.flow, iLoop) ELSE c.flow), 1)

PushVariable(c) ==
  LET f == Plain(Plain(c.flow, "REPLACE"), "DEFINED")
      iPos == LastPlace(f)
  IN Emit(c, Plain(BranchTo(f, "JE", iPos + 3), "REPLACE"), 0)

(* A loop is told by the depth it starts at: outside of expressions there  *)
(* are eight cells for every loop that is open.                            *)
Level(iDepth) == iDepth \div 8
LoopOf(rec) == Level(rec.stack_depth)

Declares(scope, szName) == \E rec \in scope : rec.name = szName

(* AddSymbol refuses a name the scope has. *)
StoreScopedVariable(c, szNS) ==
  IF Declares(Last(c.scopes), szNS) THEN c
  ELSE [c EXCEPT !.scopes[Len(c.scopes)] = @ \cup
          {[name |-> szNS, stack_depth |-> c.iStackDepth, scope_number |-> c.iScopeNumber]}]

Known(c, szName) == \E i \in DOMAIN c.scopes : Declares(c.scopes[i], szName)
Symbol(c, szName) ==
  LET inner == CHOOSE i \in DOMAIN c.scopes :
                 /\ Declares(c.scopes[i], szName)
                 /\ \A j \in DOMAIN c.scopes : Declares(c.scopes[j], szName) => j <= i
  IN CHOOSE rec \in c.scopes[inner] : rec.name = szName

(* The last register PUSHA saved is HR: it is on top right after PUSHA. *)
ScopedPlaceLate(c, rec) == c.iStackDepth + 1 - rec.stack_depth - 8
ScopedPlace(c, rec) == c.iStackDepth - rec.stack_depth - 8

PushScopedVariable(c, szName) ==
  LET rec   == Symbol(c, szName)
      place == ScopedPlace(c, rec)
      item  == IF rec.scope_number = c.iScopeNumber
               THEN Push(Plain(ReadsHR(c.flow, LoopOf(rec)), "IMOVSTR"))
               ELSE Push(Plain(Plain(Reads(c.flow, place, SavedHR(LoopOf(rec))), "MOV"), "IMOVSTR"))
      tried == Plain(Plain(item, "REPLACE"), "DEFINED")
      iPos  == LastPlace(tried)
  IN Emit(c, Plain(Push(Pop(BranchTo(tried, "JE", iPos + 5))), "REPLACE"), 1)

-----------------------------------------------------------------------------
(* Loops.  ChangeScope answers the place the loop goes back to, here with  *)
(* the instructions it appended: ResetScope patches the one two before.    *)
(*                                                                         *)
(* szScopeName is what stands before "as".  It is in the table of symbols  *)
(* if it is __iter_ and the name of an open loop: then this loop is over   *)
(* the item of that one, and no scope is marked for it, though ResetScope  *)
(* unmarks one.  The other texts are all one here.                         *)
NoSymbol == "no symbol"

ChangeScope(c, szScopeName) ==
  LET saved  == PUSHA(Pop(c.flow))
      level  == Level(c.iStackDepth + 7)
      known  == szScopeName # NoSymbol /\ Known(c, szScopeName)
      rec    == Symbol(c, szScopeName)
      iDepth == c.iStackDepth + 7 - rec.stack_depth
      value  == IF ~known THEN saved
                ELSE IF rec.scope_number = c.iScopeNumber THEN ReadsHR(saved, LoopOf(rec))
                ELSE Reads(saved, iDepth - 1, SavedHR(LoopOf(rec)))
      g == Plain(Plain(value, "MOV"), "MOVSIZE")
      h == Plain(Branch(g, "JE"), "MOV")
  IN [c EXCEPT
        !.flow = SetHR(Plain(h, "MOVIREGI"), level),
        !.iStackDepth = @ + 7,
        !.iScopeNumber = IF known THEN @ ELSE @ + 1,
        !.scopes = IF known THEN @ ELSE Append(@, {})]

RetPoint(c) == [code |-> c.flow.trail, iIP |-> LastPlace(c.flow)]

(* The places after LOOP: the breaks of the loop are patched to iEndPoint. *)
ResetScope(c, ret, breaks) ==
  LET looped == BackTo(c.flow, "LOOP", ret.code[ret.iIP].at)
      exit   == ret.code[ret.iIP - 2]
      ended  == Wrong(Join(looped, exit.at \cup breaks), exit.op = "JE", "jump")
  IN [c EXCEPT
        !.flow = POPA(ended),
        !.iStackDepth = @ - 8,
        !.iScopeNumber = @ - 1,
        !.scopes = Front(@)]

-----------------------------------------------------------------------------
(* Blocks.  A block runs in a frame of its own: SAVEBP is given the number *)
(* of the elements that are pushed, RET drops the arguments.               *)

PrepareCallBlock(c) == [c EXCEPT !.vSavedStackDepths = Append(@, c.iStackDepth)]

PushedSince(c) == c.iStackDepth - Last(c.vSavedStackDepths)

(* taken: how many the block that is called drops *)
CallBlock(c, bIsVariable, iArgCount, taken) ==
  LET iOffset == IF bIsVariable THEN 1 ELSE 0
      saved == Wrong(Plain(c.flow, "SAVEBP"), iArgCount = PushedSince(c), "frame")
      f == IF bIsVariable THEN Draw(saved, "CALLIND", iArgCount + iOffset - 1)
           ELSE Plain(saved, "CALLNAME")
      returned == IF taken > iArgCount THEN [f EXCEPT !.at = Nowhere]  \* RET throws
                  ELSE Append1(f, "RETURNED", taken, <<>>)
  IN [c EXCEPT
        !.flow = Plain(returned, "RESTBP"),
        !.iStackDepth = Last(c.vSavedStackDepths) - iOffset,
        !.vSavedStackDepths = Front(@)]

(* The jump around the block, and the shape its body starts with. *)
StartBlock(c) == Emit(c, Goto(c.flow, "JMP"), 0)
BlockBody(c, args) == Emit(c, [c.flow EXCEPT !.at = At(ArgCells(args), Caller)], 0)

EndBlock(c, iDepth) ==
  LET g == Arrived(c.flow)
  IN Emit(c, Goto(Wrong(g, \A s \in g.at : s.cells = ArgCells(iDepth), "frame"), "RET"), 0)
=============================================================================
