------------------------------- MODULE Parser -------------------------------
(***************************************************************************)
(* CTPP2Parser (src/src/CTPP2Parser.cpp): recursive descent over the text  *)
(* of a template, calling the compiler for what it recognises.  There is   *)
(* no tree: jumps are patched when their targets are reached.              *)
(*                                                                         *)
(* One action is what the parser does for one construct.  The calls that   *)
(* are open are frames: of operators (ops of a parser) and of expressions  *)
(* (expr).  An included file has a parser of its own, over the same        *)
(* compiler.  The text is any sequence of constructs; what characters they *)
(* are made of is left out.                                                *)
(***************************************************************************)
EXTENDS Compiler

CONSTANTS
  Names,       \* of variables, loops and arguments
  BlockNames,
  ArgLists,    \* lists of arguments a block may be given
  MaxLevel,    \* CTPP_MAX_TEMPLATE_RECURSION_DEPTH
  MaxNested,   \* bound: files included and operators open; statements that read
               \* expressions stand inside of fewer
  MaxOpen,     \* bound: those, calls of the parser, and operands waited for
  MaxArgs,     \* bound: arguments of a function or of a call
  Uses         \* what templates make use of, of Doubtful

(* What the compiler does not handle; see "Findings" in the README. *)
Doubtful == {"sum condition", "negated condition", "break in include", "block in loop", "other arity",
             "iterator loop"}

ASSUME ParserBounds ==
  /\ {MaxLevel, MaxNested, MaxOpen, MaxArgs} \subseteq Nat
  /\ MaxLevel > 0
  /\ Uses \subseteq Doubtful
(* BlockArgs refuses a second argument of the same name (line 2942).       *)
ASSUME ArgumentsNamedOnce ==
  \A vArgs \in ArgLists :
    /\ vArgs = [i \in 1..Len(vArgs) |-> vArgs[i]] /\ Len(vArgs) \in Nat
    /\ \A i, j \in 1..Len(vArgs) : vArgs[i] = vArgs[j] => i = j

VARIABLES
  at,              \* where the parser is in the text
  oCompiler,
  parsers,         \* of the files that are open, the innermost last
  mBlockArgSizes,  \* handed to the parser of an included file and back
  expr,            \* the open expressions, the innermost last
  eResultOperator  \* of the condition: "constant" or "variable"

vars == <<at, oCompiler, parsers, mBlockArgSizes, expr, eResultOperator>>

NewParser(bIInForeach) ==
  [ ops |-> <<>>, bInForeach |-> bIInForeach, bInBlock |-> FALSE, bVerboseMode |-> FALSE,
    mCurrentBlock |-> <<>>, vBreakJMPPoints |-> <<>> ]

Init ==
  /\ at = "text"
  /\ oCompiler = NewCompiler
  /\ parsers = << NewParser(FALSE) >>
  /\ mBlockArgSizes = [b \in {} |-> 0]
  /\ expr = <<>>
  /\ eResultOperator = "variable"

-----------------------------------------------------------------------------
Parser == Last(parsers)
Op     == Last(Parser.ops)

(* The operators of a kind that are open in a file, and in all of them.    *)
OpenIn(p, k) == {n \in DOMAIN p.ops : p.ops[n].k = k}
OpenAll(k) == UNION {{i} \X OpenIn(parsers[i], k) : i \in DOMAIN parsers}

(* The last instruction is kept where RemoveInstruction may follow. *)
CompileKeeping(c) == oCompiler' = [c EXCEPT !.flow = Settled(@)]
Compile(c) == oCompiler' = [c EXCEPT !.flow = [Settled(@) EXCEPT !.trail = <<>>]]
Become(p)  == parsers' = Front(parsers) \o <<p>>
Opened(o)  == [Parser EXCEPT !.ops = Append(@, o)]
Closed     == [Parser EXCEPT !.ops = Front(@)]
Within(k)  == Parser.ops # <<>> /\ Op.k = k

(* From one statement to the next.  The wrong stops the model: what        *)
(* follows it says nothing more.                                           *)
InText == at = "text" /\ oCompiler.flow.wrong = {}
InExpr == expr # <<>> /\ oCompiler.flow.wrong = {}
Innermost == Last(expr)
Factor(k) == at = "factor" /\ InExpr /\ Innermost.k = k
Operand   == at = "operand" /\ InExpr
Replaced(x) == expr' = Front(expr) \o <<x>>

Waiting(x) ==
  IF x.k # "logical" THEN 0
  ELSE Cardinality({w \in {"rel", "add", "mul", "inAnd", "inOr"} : x[w]})
InFiles == Len(parsers) - 1 + FoldSeq(LAMBDA p, n : n + Len(p.ops), 0, parsers)
Open == InFiles + FoldSeq(LAMBDA x, n : n + 1 + Waiting(x), 0, expr)
Room(n) == Open + n <= MaxOpen
Another == Room(1) /\ InFiles < MaxNested
Nested(x)   == Room(1) /\ expr' = Append(expr, x)

(* A loop is over a variable or the result of a function, the block that   *)
(* is called indirectly is in a variable.                                  *)
Only(s) == Len(expr) = 1 /\ expr[1].of = s
AnyFactor == Operand /\ ~Only("foreach") /\ ~Only("callee")

Keep    == UNCHANGED <<parsers, mBlockArgSizes>>
Statement(s) == expr' = <<[k |-> "statement", of |-> s]>> /\ at' = "operand"
EndStatement == expr' = <<>> /\ at' = "text" /\ eResultOperator' = "variable"

(* An exception leaves all parsers; nothing of them is used afterwards. *)
Fail(outcome) ==
  /\ at' = outcome
  /\ oCompiler' = NewCompiler /\ parsers' = << NewParser(FALSE) >>
  /\ mBlockArgSizes' = [b \in {} |-> 0]
  /\ expr' = <<>> /\ eResultOperator' = "variable"

(* The result matters to the condition of a branch only; the arguments of  *)
(* functions and the keys of paths have one of their own.                  *)
IsCondition ==
  /\ expr[1].of \in {"if", "unless", "elsif"}
  /\ \A i \in 2..Len(expr) : expr[i].k \notin {"function", "variable"}
ResultIs(kind) == eResultOperator' = IF IsCondition THEN kind ELSE "variable"

-----------------------------------------------------------------------------
(* Expressions.  A frame of kind "logical" is a call of LogicalOrExpr and  *)
(* of the four below it: the jumps of || and &&, and whether a relation,   *)
(* an addition or a multiplication waits for its second operand.           *)

Logical(of) == [k |-> "logical", of |-> of, or |-> {}, ands |-> {},
                inOr |-> FALSE, inAnd |-> FALSE, rel |-> FALSE, add |-> FALSE, mul |-> FALSE]

Constant ==
  /\ AnyFactor
  /\ CompileKeeping(PushConst(oCompiler))
  /\ at' = "factor" /\ ResultIs("constant")
  /\ UNCHANGED expr /\ Keep

Parenthesis ==
  /\ AnyFactor
  /\ Nested(Logical("parenthesis"))
  /\ UNCHANGED <<at, oCompiler, eResultOperator>> /\ Keep

Unary ==
  /\ AnyFactor
  /\ Nested([k |-> "unary"])
  /\ UNCHANGED <<at, oCompiler, eResultOperator>> /\ Keep

(* Plus does nothing; minus and not are applied to the top of the stack,   *)
(* and leave the kind of the result as it was.                             *)
ApplyUnary ==
  /\ Factor("unary")
  /\ \/ UNCHANGED oCompiler
     \/ CompileKeeping(OpUnary(oCompiler))
  /\ expr' = Front(expr)
  /\ UNCHANGED <<at, eResultOperator>> /\ Keep

MulOp ==
  /\ Factor("logical") /\ ~Innermost.mul /\ Room(1)
  /\ Replaced([Innermost EXCEPT !.mul = TRUE])
  /\ at' = "operand"
  /\ UNCHANGED <<oCompiler, eResultOperator>> /\ Keep

ApplyMul ==
  /\ Factor("logical") /\ Innermost.mul
  /\ Compile(OpArithmetic(oCompiler))
  /\ Replaced([Innermost EXCEPT !.mul = FALSE])
  /\ eResultOperator' = "variable"
  /\ UNCHANGED at /\ Keep

(* The end of a term, a simple expression, a relation, a conjunction and a *)
(* disjunction: what waits for its second operand is computed.             *)
Simple(c, x) == IF x.add THEN OpArithmetic(c) ELSE c

ComparedUncounted(c) == PushConst(RUncondJump(PushConst(RJump(OpCmp(c), 3)), 2))
Compared(c) ==
  LET no == RUncondJump(PushConst(RJump(OpCmp(c), 3)), 2)
  IN DecrDepth(PushConst(no))

Related(c, x) == IF x.rel THEN Compared(Simple(c, x)) ELSE Simple(c, x)

(* EXIST, POP and the jump of an operand of && or ||. *)
Tested(c) == CondJump(PopVariable(ExistStackVariable(c)))
TestedJump(c) == FromLast(c.flow)

(* One constant where no operand decides, the other where one does.  The   *)
(* jumps are patched to the second.                                        *)
DecidedShort(c, jumps) ==
  LET last  == Tested(c)
      first == PushConst(last)
      skip  == UncondJumpTo(first, LastPlace(first.flow) + 2)
  IN DecrDepth(PushConst(Patched(skip, jumps \cup TestedJump(last))))

Decided(c, jumps) ==
  LET last  == Tested(c)
      first == PushConst(last)
      skip  == UncondJumpTo(first, LastPlace(first.flow) + 3)
      here  == Patched(skip, jumps \cup TestedJump(last))
  IN DecrDepth(PushConst(here))

Conjoined(c, x)  == IF x.inAnd THEN Decided(Related(c, x), x.ands) ELSE Related(c, x)
Disjoined(c, x)  == IF x.inOr THEN Decided(Conjoined(c, x), x.or) ELSE Conjoined(c, x)
ResultOf(x) == IF x.rel \/ x.inAnd \/ x.inOr THEN "variable" ELSE eResultOperator

Binary(c, x) ==
  /\ Open + Waiting(x) - Waiting(Innermost) <= MaxOpen
  /\ Compile(c)
  /\ Replaced(x)
  /\ at' = "operand"
  /\ UNCHANGED eResultOperator /\ Keep

Operator == Factor("logical") /\ ~Innermost.mul

AddOp == Operator /\ Binary(Simple(oCompiler, Innermost), [Innermost EXCEPT !.add = TRUE])

Relation == Operator /\ ~Innermost.rel
            /\ Binary(Simple(oCompiler, Innermost), [Innermost EXCEPT !.add = FALSE, !.rel = TRUE])

And ==
  /\ Operator
  /\ LET c == Tested(Related(oCompiler, Innermost))
     IN Binary(c, [Innermost EXCEPT !.add = FALSE, !.rel = FALSE, !.inAnd = TRUE, !.ands = @ \cup TestedJump(c)])

Or ==
  /\ Operator
  /\ LET c == Tested(Conjoined(oCompiler, Innermost))
     IN Binary(c, [Innermost EXCEPT !.add = FALSE, !.rel = FALSE, !.inAnd = FALSE, !.ands = {},
                               !.inOr = TRUE, !.or = @ \cup TestedJump(c)])

Close ==
  /\ Operator /\ Innermost.of = "parenthesis"
  /\ CompileKeeping(Disjoined(oCompiler, Innermost))
  /\ eResultOperator' = ResultOf(Innermost)
  /\ expr' = Front(expr)
  /\ UNCHANGED at /\ Keep

(* IsFunc and the syscall; its arguments have a result of their own. *)
Function ==
  /\ Operand /\ ~Only("callee")
  /\ \/ /\ Compile(ExecuteSyscall(oCompiler, 0))
        /\ at' = "factor" /\ eResultOperator' = "variable"
        /\ UNCHANGED expr
     \/ /\ Room(2)
        /\ expr' = expr \o << [k |-> "function", n |-> 1], Logical("argument") >>
        /\ UNCHANGED <<at, oCompiler, eResultOperator>>
  /\ Keep

Enclosing == expr[Len(expr) - 1]
Ended(frames) == SubSeq(expr, 1, Len(expr) - frames)

Comma ==
  /\ Operator /\ Innermost.of = "argument" /\ Enclosing.n < MaxArgs
  /\ Compile(Disjoined(oCompiler, Innermost))
  /\ expr' = Ended(2) \o << [Enclosing EXCEPT !.n = @ + 1], Logical("argument") >>
  /\ at' = "operand"
  /\ UNCHANGED eResultOperator /\ Keep

CloseFunction ==
  /\ Operator /\ Innermost.of = "argument"
  /\ Compile(ExecuteSyscall(Disjoined(oCompiler, Innermost), Enclosing.n))
  /\ expr' = Ended(2)
  /\ eResultOperator' = "variable"
  /\ UNCHANGED at /\ Keep

-----------------------------------------------------------------------------
(* IsVar: a name, and the path behind it.                                  *)

bIsBlockVar(szName) == Parser.bInBlock /\ szName \in DOMAIN Parser.mCurrentBlock
bInsideComplexVariable == \E i \in DOMAIN expr : expr[i].k = "variable" /\ expr[i].complex

TakeValue(c) == IndirectCall(PushConst(c))

Named(c, szName) ==
  IF bIsBlockVar(szName) THEN PushBlockVariable(c, Parser.mCurrentBlock[szName])
  ELSE IF Parser.bInForeach /\ Known(c, szName) THEN PushScopedVariable(c, szName)
  ELSE LET local == PrepareLocalScope(c, Cardinality(OpenAll("foreach")))
       IN PushVariable(IF Parser.bInForeach THEN TakeValue(local) ELSE local)

IsIteratorName(szName) == ~bIsBlockVar(szName) /\ Parser.bInForeach /\ Known(oCompiler, szName)

Variable(szName) ==
  /\ Operand
  /\ \/ /\ LET c == Named(oCompiler, szName)
           IN Compile(IF IsIteratorName(szName) THEN TakeValue(c) ELSE c)
        /\ at' = "factor" /\ eResultOperator' = "variable"
        /\ UNCHANGED expr
     \/ \E complex \in {~bInsideComplexVariable} :
          /\ LET prepare == complex /\ ~bIsBlockVar(szName)
             IN Compile(Named(IF prepare THEN PreparePushComplexVariable(oCompiler) ELSE oCompiler, szName))
          /\ Nested([k |-> "variable", complex |-> complex, block |-> bIsBlockVar(szName),
                     iterator |-> IsIteratorName(szName)])
          /\ at' = "step"
          /\ UNCHANGED eResultOperator
  /\ Keep

InPath == at \in {"step", "path"} /\ InExpr
NoIterator == [Innermost EXCEPT !.iterator = FALSE]
Item(c) == IF Innermost.iterator THEN TakeValue(c) ELSE c

(* A key of the iterator itself, as __first__, is not looked up in the     *)
(* item.                                                                   *)
Dot ==
  /\ InPath
  /\ \E internal \in BOOLEAN :
       Compile(IndirectCall(PushConst(IF internal THEN oCompiler ELSE Item(oCompiler))))
  /\ Replaced(NoIterator)
  /\ at' = "path"
  /\ UNCHANGED eResultOperator /\ Keep

Index ==
  /\ InPath /\ Room(1)
  /\ Compile(Item(oCompiler))
  /\ expr' = Front(expr) \o <<NoIterator, Logical("key")>>
  /\ at' = "operand"
  /\ UNCHANGED eResultOperator /\ Keep

CloseIndex ==
  /\ Operator /\ Innermost.of = "key"
  /\ Compile(IndirectCall(Disjoined(oCompiler, Innermost)))
  /\ expr' = Front(expr)
  /\ at' = "path"
  /\ UNCHANGED eResultOperator /\ Keep

EndPath ==
  /\ at = "path" /\ InExpr
  /\ Compile(IF Innermost.complex /\ ~Innermost.block THEN ClearPushComplexVariable(oCompiler) ELSE oCompiler)
  /\ expr' = Front(expr)
  /\ at' = "factor" /\ eResultOperator' = "variable"
  /\ Keep

-----------------------------------------------------------------------------
(* Text, comments and <TMPL_var>.                                          *)

Text == InText /\ Compile(OutputStaticData(oCompiler))
        /\ UNCHANGED <<at, parsers, mBlockArgSizes, expr, eResultOperator>>

StartStatement(s) == InText /\ Another /\ Statement(s) /\ UNCHANGED <<oCompiler, eResultOperator>> /\ Keep
Condition(s) == Factor("statement") /\ Innermost.of = s /\ EndStatement

VarOperator ==
  \/ StartStatement("var")
  \/ Condition("var") /\ Compile(OutputVariable(oCompiler)) /\ Keep

-----------------------------------------------------------------------------
(* <TMPL_if>, <TMPL_unless>.  caller is the jump over the branch, exits    *)
(* the jumps from the ends of the branches to the end.  Which of the two   *)
(* it is matters to the closing tag only: the wrong one is a SyntaxError.  *)

(* A constant is taken back, with a jump or nothing in its place. *)
StoreComparisonResult(c) == 
  IF eResultOperator = "variable" THEN {<<Tested(c), TRUE>>}
  ELSE {<<RemoveInstruction(c), FALSE>>, <<UncondJump(RemoveInstruction(c)), TRUE>>}

(* The operators whose last operand is a constant are not of a constant:   *)
(* the last instruction is not the push.                                   *)
LastOp == IF oCompiler.flow.trail = <<>> THEN "" ELSE Last(oCompiler.flow.trail).op
ConditionAllowed ==
  eResultOperator = "constant" =>
    \/ LastOp = "PUSH"
    \/ LastOp = "ADD" /\ "sum condition" \in Uses
    \/ LastOp = "NEG" /\ "negated condition" \in Uses

Branching(s) ==
  /\ Condition(s) /\ ConditionAllowed
  /\ \E r \in StoreComparisonResult(oCompiler) :
       /\ Compile(r[1])
       /\ Become(LET caller == IF r[2] THEN FromLast(r[1].flow) ELSE {}
                 IN IF s = "elsif"
                    THEN [Parser EXCEPT !.ops[Len(Parser.ops)].caller = caller]
                    ELSE Opened([k |-> "branch", caller |-> caller, exits |-> {}, else |-> FALSE]))
  /\ UNCHANGED mBlockArgSizes

IfOperator == (StartStatement("if")) \/ Branching("if")
UnlessOperator == (StartStatement("unless")) \/ Branching("unless")

(* The end of a branch: the jump to the end, then the next one starts. *)
EndBranch(c) == UncondJump(c)
EndOfBranch(else) ==
  LET c == EndBranch(oCompiler)
  IN /\ Compile(Patched(c, Op.caller))
     /\ Become([Closed EXCEPT !.ops = Append(@,
          [Op EXCEPT !.caller = {}, !.exits = @ \cup FromLast(c.flow), !.else = else])])

Elsif ==
  /\ InText /\ Within("branch") /\ ~Op.else
  /\ EndOfBranch(FALSE)
  /\ Statement("elsif")
  /\ UNCHANGED <<mBlockArgSizes, eResultOperator>>

ElsifCondition == Branching("elsif")

Else ==
  /\ InText /\ Within("branch") /\ ~Op.else
  /\ EndOfBranch(TRUE)
  /\ UNCHANGED <<at, expr, mBlockArgSizes, eResultOperator>>

EndIf ==
  /\ InText /\ Within("branch")
  /\ LET c == EndBranch(oCompiler)
     IN Compile(Patched(c, Op.caller \cup Op.exits \cup FromLast(c.flow)))
  /\ Become(Closed)
  /\ UNCHANGED <<at, expr, mBlockArgSizes, eResultOperator>>

-----------------------------------------------------------------------------
(* <TMPL_foreach> and <TMPL_break>.                                        *)

(* The texts before "as": a name stands for __iter_ and that name, in      *)
(* front of which the operand may be any here.                             *)
LoopTexts == {NoSymbol} \cup (IF "iterator loop" \in Uses THEN Names ELSE {})

ForeachOperator ==
  \/ StartStatement("foreach")
  \/ \E szNS \in Names, szLoopName \in LoopTexts :
       /\ Condition("foreach")
       /\ LET c == ChangeScope(oCompiler, szLoopName)
          IN /\ Compile(StoreScopedVariable(c, szNS))
             /\ Become([Opened([k |-> "foreach", ret |-> RetPoint(c), bOldFlag |-> Parser.bInForeach])
                          EXCEPT !.bInForeach = TRUE, !.vBreakJMPPoints = Append(@, {})])
       /\ UNCHANGED mBlockArgSizes

EndForeachOutside ==
  /\ InText /\ Within("foreach")
  /\ Compile(ResetScope(oCompiler, Op.ret, Last(Parser.vBreakJMPPoints)))
  /\ Become([Closed EXCEPT !.bInForeach = FALSE, !.vBreakJMPPoints = Front(@)])
  /\ UNCHANGED <<at, expr, mBlockArgSizes, eResultOperator>>

EndForeach ==
  /\ InText /\ Within("foreach")
  /\ Compile(ResetScope(oCompiler, Op.ret, Last(Parser.vBreakJMPPoints)))
  /\ Become([Closed EXCEPT !.bInForeach = Op.bOldFlag, !.vBreakJMPPoints = Front(@)])
  /\ UNCHANGED <<at, expr, mBlockArgSizes, eResultOperator>>

(* vBreakJMPPoints.back() of no loop of this file is undefined. *)
BreakOperator ==
  /\ InText /\ Parser.bInForeach
  /\ \/ /\ Parser.vBreakJMPPoints = <<>> /\ "break in include" \in Uses
        /\ Fail("undefined")
     \/ /\ Parser.vBreakJMPPoints # <<>>
        /\ LET c == UncondJump(oCompiler)
           IN /\ Compile(c)
              /\ Become([Parser EXCEPT !.vBreakJMPPoints[Len(Parser.vBreakJMPPoints)] = @ \cup FromLast(c.flow)])
        /\ UNCHANGED <<at, expr, mBlockArgSizes, eResultOperator>>

-----------------------------------------------------------------------------
(* <TMPL_block> and <TMPL_call>.                                           *)

(* The last argument is number 0, as it is on top of the stack. *)
BlockArgs(vArgs) ==
  [a \in {vArgs[i] : i \in DOMAIN vArgs} |->
     CHOOSE n \in 0..Len(vArgs) - 1 : vArgs[Len(vArgs) - n] = a]

BlockOperator(sBlockName, vArgs) ==
  /\ InText /\ ~Parser.bInBlock /\ Another
  /\ "block in loop" \in Uses \/ ~Parser.bInForeach
  /\ \/ "other arity" \in Uses \* calls compiled before reach the block defined last
     \/ sBlockName \in DOMAIN mBlockArgSizes => mBlockArgSizes[sBlockName] = Len(vArgs)
  /\ LET c == StartBlock(oCompiler)
     IN /\ Compile(BlockBody(c, Len(vArgs)))
        /\ Become([Opened([k |-> "block", skip |-> FromLast(c.flow), base |-> c.iStackDepth, args |-> Len(vArgs)])
                     EXCEPT !.bInBlock = TRUE, !.mCurrentBlock = BlockArgs(vArgs)])
  /\ mBlockArgSizes' = [b \in DOMAIN mBlockArgSizes \cup {sBlockName} |->
                          IF b = sBlockName THEN Len(vArgs) ELSE mBlockArgSizes[b]]
  /\ UNCHANGED <<at, expr, eResultOperator>>

EndBlockOperator ==
  /\ InText /\ Within("block")
  /\ LET c == EndBlock(oCompiler, Cardinality(DOMAIN Parser.mCurrentBlock))
     IN Compile(Patched(c, Op.skip))
  /\ Become([Closed EXCEPT !.bInBlock = FALSE])
  /\ UNCHANGED <<at, expr, mBlockArgSizes, eResultOperator>>

CallFrame(bIsVariable, iFormalArgCount) ==
  [k |-> "statement", of |-> "call", bIsVariable |-> bIsVariable,
   iFormalArgCount |-> iFormalArgCount, iArgCount |-> 0, listed |-> FALSE]

StartCall(c, frame) ==
  /\ Compile(PrepareCallBlock(c))
  /\ expr' = <<frame>>
  /\ at' = "arguments"
  /\ UNCHANGED eResultOperator /\ Keep

(* The name of the block is a string, or the value of a variable. *)
CallOperator ==
  \/ InText /\ Another /\ \E b \in DOMAIN mBlockArgSizes : StartCall(oCompiler, CallFrame(FALSE, mBlockArgSizes[b]))
  \/ StartStatement("callee")
  \/ Factor("statement") /\ Innermost.of = "callee" /\ StartCall(oCompiler, CallFrame(TRUE, 0))

ArgumentUncounted ==
  /\ at = "arguments" /\ InExpr /\ Innermost.iArgCount < MaxArgs
  /\ expr' = << [Innermost EXCEPT !.listed = TRUE] >>
  /\ at' = "operand"
  /\ UNCHANGED <<oCompiler, eResultOperator>> /\ Keep

Argument ==
  /\ at = "arguments" /\ InExpr /\ Innermost.iArgCount < MaxArgs
  /\ expr' = << [Innermost EXCEPT !.iArgCount = @ + 1, !.listed = TRUE] >>
  /\ at' = "operand"
  /\ UNCHANGED <<oCompiler, eResultOperator>> /\ Keep

EndArgument ==
  /\ Factor("statement") /\ Innermost.of = "call"
  /\ at' = "arguments"
  /\ UNCHANGED <<oCompiler, expr, eResultOperator>> /\ Keep

(* Only a list is compared with what the block takes; a call without one   *)
(* compiles, and RET throws when the block runs.                           *)
ArityChecked(x) == x.listed /\ ~x.bIsVariable => x.iArgCount = x.iFormalArgCount
Taken(x) ==
  IF "other arity" \in Uses THEN 0..MaxArgs
  ELSE {IF x.bIsVariable THEN x.iArgCount ELSE x.iFormalArgCount}

EndCall ==
  /\ at = "arguments" /\ InExpr
  /\ ArityChecked(Innermost)
  /\ \E taken \in Taken(Innermost) :
       Compile(CallBlock(oCompiler, Innermost.bIsVariable, Innermost.iArgCount, taken))
  /\ EndStatement /\ Keep

-----------------------------------------------------------------------------
(* <TMPL_include>, <TMPL_verbose>, the end of a file.                      *)

IncludeUnlimited ==
  /\ InText /\ Another
  /\ parsers' = Append(parsers, NewParser(Parser.bInForeach))
  /\ UNCHANGED <<at, oCompiler, mBlockArgSizes, expr, eResultOperator>>

IncludeOperator ==
  /\ InText
  /\ \/ Len(parsers) = MaxLevel /\ Fail("error")
     \/ /\ Len(parsers) # MaxLevel /\ Another
        /\ parsers' = Append(parsers, NewParser(Parser.bInForeach))
        /\ UNCHANGED <<at, oCompiler, mBlockArgSizes, expr, eResultOperator>>

VerboseOperator ==
  /\ InText /\ Another
  /\ Become([Opened([k |-> "verbose", bOldVerboseMode |-> Parser.bVerboseMode]) EXCEPT !.bVerboseMode = TRUE])
  /\ UNCHANGED <<at, oCompiler, mBlockArgSizes, expr, eResultOperator>>

EndVerbose ==
  /\ InText /\ Within("verbose")
  /\ Become([Closed EXCEPT !.bVerboseMode = Op.bOldVerboseMode])
  /\ UNCHANGED <<at, oCompiler, mBlockArgSizes, expr, eResultOperator>>

EndOfText ==
  /\ InText
  /\ IF Parser.ops # <<>> THEN Fail("error")
     ELSE /\ IF Len(parsers) = 1
             THEN at' = "done" /\ Compile(Halt(oCompiler)) /\ UNCHANGED parsers
             ELSE parsers' = Front(parsers) /\ UNCHANGED <<at, oCompiler>>
          /\ UNCHANGED <<mBlockArgSizes, expr, eResultOperator>>

(* What does not belong there ends the compilation with an exception: a    *)
(* tag that closes another operator, a character that is not expected.     *)
SyntaxError ==
  /\ at \notin {"done", "error", "undefined"} /\ oCompiler.flow.wrong = {}
  /\ Fail("error")

-----------------------------------------------------------------------------
Expressions ==
  \/ Constant \/ Parenthesis \/ Unary
  \/ ApplyUnary \/ MulOp \/ ApplyMul \/ AddOp \/ Relation \/ And \/ Or \/ Close
  \/ Function \/ Comma \/ CloseFunction
  \/ (\E szName \in Names : Variable(szName)) \/ Dot \/ Index \/ CloseIndex \/ EndPath

Statements ==
  \/ Text \/ VarOperator \/ IfOperator \/ UnlessOperator
  \/ Elsif \/ ElsifCondition \/ Else \/ EndIf
  \/ ForeachOperator \/ EndForeach \/ BreakOperator
  \/ \E b \in BlockNames, vArgs \in ArgLists : BlockOperator(b, vArgs)
  \/ EndBlockOperator \/ CallOperator \/ Argument \/ EndArgument \/ EndCall
  \/ IncludeOperator \/ VerboseOperator \/ EndVerbose \/ EndOfText
  \/ SyntaxError

Next == Expressions \/ Statements

-----------------------------------------------------------------------------
(* Properties.                                                             *)

TypeOK ==
  /\ at \in {"text", "operand", "factor", "step", "path", "arguments", "done", "error", "undefined"}
  /\ Len(parsers) \in 1..MaxLevel
  /\ oCompiler.iStackDepth \in Int /\ oCompiler.iScopeNumber \in Nat
  /\ DOMAIN mBlockArgSizes \subseteq BlockNames
  /\ \A b \in DOMAIN mBlockArgSizes : mBlockArgSizes[b] \in Nat
  /\ eResultOperator \in {"constant", "variable"}

(* The depth the compiler counts is the one the machine has, relative to   *)
(* the block the code belongs to, wherever the code can be reached.        *)
DepthExact ==
  LET files == {i \in DOMAIN parsers : OpenIn(parsers[i], "block") # {}}
      inner == parsers[Max(files)]
      block == IF files = {} THEN [base |-> 0, args |-> 0]
               ELSE inner.ops[Max(OpenIn(inner, "block"))]
  IN \A s \in oCompiler.flow.at : oCompiler.iStackDepth - block.base = Len(s.cells) - block.args

(* Paths that meet bring the same stack, and a jump leads to an            *)
(* instruction that is there: ||, &&, branches, breaks, the ends of loops. *)
JumpsAgree == oCompiler.flow.wrong \cap {"join", "jump"} = {}

(* An operand on the stack is what the compiler means by it: the argument  *)
(* of the block, the item of the loop the name belongs to, the name of the *)
(* block that is called.  It fails of a loop over __iter_ and the name of  *)
(* an open loop, where the loop's own name goes to the scope of another.   *)
OperandsExact == oCompiler.flow.wrong \cap {"operand", "register"} = {}

(* SAVEBP is given the number of the elements that were pushed for the     *)
(* call (ArgStack.tla takes that for granted), and a block that returns    *)
(* has only its arguments left to drop.                                    *)
FramesExact == "frame" \notin oCompiler.flow.wrong

(* The flags of the parsers tell which operators are open, across files    *)
(* and whatever operators were left; so do the counters of the compiler,   *)
(* unless a loop is over __iter_ and the name of an open loop: the end of  *)
(* that one unmarks a scope it has not marked.                             *)
FlagsExact ==
  /\ \A i \in DOMAIN parsers :
       LET p == parsers[i]
       IN /\ p.bInForeach = (\E j \in 1..i : OpenIn(parsers[j], "foreach") # {})
          /\ p.bInBlock = (OpenIn(p, "block") # {})
          /\ p.bVerboseMode = (OpenIn(p, "verbose") # {})
          /\ Len(p.vBreakJMPPoints) = Cardinality(OpenIn(p, "foreach"))
  /\ oCompiler.iScopeNumber = Cardinality(OpenAll("foreach"))
  /\ Len(oCompiler.scopes) = oCompiler.iScopeNumber
  /\ Len(oCompiler.vSavedStackDepths) = (IF expr # <<>> /\ expr[1].of = "call" THEN 1 ELSE 0)

Spec == Init /\ [][Next]_vars
=============================================================================
